------------------------- MODULE Spreadsheet_proofs -------------------------
(***************************************************************************)
(* What the operators of Spreadsheet return, for every file: dates, the    *)
(* columns of the headers and the items of a row.                          *)
(***************************************************************************)
EXTENDS Spreadsheet, TLAPS, FiniteSetTheorems, WellFoundedInduction

-----------------------------------------------------------------------------
(* Sequences.                                                              *)

\* A sequence, whatever its elements are.
IsSequence(s) == s \in Seq(ToSet(s))

\* A function on the first numbers is a sequence.
LEMMA SequenceIntro ==
  ASSUME NEW s, NEW n \in Nat, s = [k \in 1..n |-> s[k]]
  PROVE  IsSequence(s) /\ Len(s) = n /\ DOMAIN s = 1..n
<1>1. DOMAIN s = 1..n
  OBVIOUS
<1>2. s \in [1..n -> ToSet(s)]
  BY <1>1 DEF ToSet
<1>. HIDE DEF ToSet
<1>3. s \in Seq(ToSet(s))
  BY <1>2
<1>4. Len(s) = n
  BY <1>1, <1>3
<1>. QED BY <1>1, <1>3, <1>4 DEF IsSequence

\* And only such a function is one.
LEMMA SequenceElim ==
  ASSUME NEW s, IsSequence(s)
  PROVE  /\ Len(s) \in Nat /\ DOMAIN s = 1..Len(s)
         /\ s = [k \in 1..Len(s) |-> s[k]]
BY DEF IsSequence

\* A sequence after another: the elements of both keep their order.
Joins(s, t, u) ==
  /\ IsSequence(u) /\ Len(u) = Len(s) + Len(t)
  /\ \A k \in DOMAIN s : k \in DOMAIN u /\ u[k] = s[k]
  /\ \A k \in DOMAIN t : Len(s) + k \in DOMAIN u /\ u[Len(s) + k] = t[k]
  /\ \A k \in DOMAIN u :
       \/ k \in DOMAIN s
       \/ k \notin DOMAIN s /\ k - Len(s) \in DOMAIN t /\ k = Len(s) + (k - Len(s))

\* What \o returns.
LEMMA Joined ==
  ASSUME NEW s, IsSequence(s), NEW t, IsSequence(t)
  PROVE  Joins(s, t, s \o t)
<1>. DEFINE S == ToSet(s) \cup ToSet(t)
            u == s \o t
<1>1. /\ Len(s) \in Nat /\ DOMAIN s = 1..Len(s) /\ s = [k \in 1..Len(s) |-> s[k]]
      /\ Len(t) \in Nat /\ DOMAIN t = 1..Len(t) /\ t = [k \in 1..Len(t) |-> t[k]]
  BY SequenceElim
<1>2. s \in Seq(S) /\ t \in Seq(S)
  <2>1. s \in [1..Len(s) -> S] /\ t \in [1..Len(t) -> S]
    BY <1>1 DEF ToSet
  <2>. HIDE DEF S
  <2>. QED BY <1>1, <2>1
<1>. HIDE DEF S
<1>3. u \in Seq(S) /\ Len(u) = Len(s) + Len(t)
  BY <1>2
<1>4. /\ \A k \in 1..Len(s) : u[k] = s[k]
      /\ \A k \in 1..Len(t) : u[Len(s) + k] = t[k]
  BY <1>2
<1>. HIDE DEF u
<1>5. DOMAIN u = 1..(Len(s) + Len(t)) /\ u = [k \in 1..(Len(s) + Len(t)) |-> u[k]]
  BY <1>3
<1>. DEFINE n == Len(s) + Len(t)
<1>6. n \in Nat
  BY <1>1
<1>7. DOMAIN u = 1..n /\ u = [k \in 1..n |-> u[k]]
  BY <1>5
<1>. HIDE DEF n
<1>8. IsSequence(u)
  BY <1>6, <1>7, SequenceIntro
<1>9. /\ \A k \in 1..Len(s) : k \in 1..n
      /\ \A k \in 1..Len(t) : Len(s) + k \in 1..n
      /\ \A k \in 1..n : \/ k \in 1..Len(s)
                        \/ /\ k \notin 1..Len(s) /\ k - Len(s) \in 1..Len(t)
                           /\ k = Len(s) + (k - Len(s))
  BY <1>1 DEF n
<1>. QED BY <1>1, <1>3, <1>4, <1>7, <1>8, <1>9, Zenon DEF u, n, Joins

-----------------------------------------------------------------------------
(* Sets of positions.                                                      *)

\* Induction with a set in the place of a predicate, from the well-foundedness of <.
LEMMA SetInduction ==
  ASSUME NEW S \in SUBSET Nat, 0 \in S, \A n \in S : n + 1 \in S
  PROVE  S = Nat
<1>1. IsWellFoundedOn(OpToRel(<, Nat), Nat)
  BY NatLessThanWellFounded
<1>. DEFINE T == Nat \ S
<1>. SUFFICES ASSUME T # {} PROVE FALSE
  BY Zenon DEF T
<1>2. PICK x \in T : \A y \in T : ~ (<<y, x>> \in OpToRel(<, Nat))
  <2>1. T \subseteq Nat
    BY DEF T
  <2>. HIDE DEF T
  <2>. QED BY <1>1, <2>1, WFMin
<1>3. x - 1 \in Nat /\ x - 1 \notin S
  BY SMT
<1>4. <<x - 1, x>> \in OpToRel(<, Nat)
  BY <1>3 DEF OpToRel
<1>. QED BY <1>2, <1>3, <1>4

\* A non-empty set of positions has a last one.
LEMMA LastPosition ==
  ASSUME NEW n \in Nat, NEW P \in SUBSET (1..n), P # {}
  PROVE  Max(P) \in P /\ \A p \in P : p <= Max(P)
<1>. DEFINE S == {m \in Nat : \A Q \in SUBSET (1..m) : Q # {} => \E q \in Q : \A p \in Q : q >= p}
<1>1. 0 \in S
  <2>1. 1..0 = {}
    OBVIOUS
  <2>. QED BY <2>1, Zenon
<1>2. ASSUME NEW m \in S PROVE m + 1 \in S
  <2>. SUFFICES ASSUME NEW Q \in SUBSET (1..(m + 1)), Q # {}
                PROVE  \E q \in Q : \A p \in Q : q >= p
    OBVIOUS
  <2>1. CASE m + 1 \in Q
    BY <2>1
  <2>2. CASE m + 1 \notin Q
    <3>1. Q \in SUBSET (1..m)
      BY <2>2
    <3>. QED BY <3>1
  <2>. QED BY <2>1, <2>2
<1>3. S = Nat
  <2>. HIDE DEF S
  <2>1. S \in SUBSET Nat
    BY DEF S
  <2>. QED BY <1>1, <1>2, <2>1, SetInduction
<1>4. \E q \in P : \A p \in P : q >= p
  BY <1>3
<1>. QED BY <1>4 DEF Max

\* The positions up to one of them: how many there are tells the positions apart.
LEMMA RanksDiffer ==
  ASSUME NEW n \in Nat, NEW P \in SUBSET (1..n)
  PROVE  /\ IsFiniteSet(P) /\ Cardinality(P) \in Nat
         /\ \A p \in P : Cardinality({q \in P : q <= p}) \in 1..Cardinality(P)
         /\ \A p, r \in P : p < r =>
              Cardinality({q \in P : q <= p}) < Cardinality({q \in P : q <= r})
<1>1. IsFiniteSet(1..n) 
  BY FS_Interval
<1>2. IsFiniteSet(P) /\ Cardinality(P) \in Nat
  BY <1>1, FS_Subset, FS_CardinalityType
<1>. DEFINE upTo(p) == {q \in P : q <= p}
<1>3. ASSUME NEW p \in P PROVE /\ IsFiniteSet(upTo(p)) /\ Cardinality(upTo(p)) \in 1..Cardinality(P)
  <2>1. IsFiniteSet(upTo(p)) /\ Cardinality(upTo(p)) <= Cardinality(P)
    BY <1>2, FS_Subset
  <2>2. p \in upTo(p)
    BY <1>1
  <2>. HIDE DEF upTo
  <2>3. Cardinality(upTo(p)) # 0
    BY <2>1, <2>2, FS_EmptySet
  <2>. QED BY <1>2, <2>1, <2>3, FS_CardinalityType
<1>4. ASSUME NEW p \in P, NEW r \in P, p < r PROVE Cardinality(upTo(p)) < Cardinality(upTo(r))
  <2>1. upTo(p) \subseteq upTo(r) /\ r \in upTo(r) /\ r \notin upTo(p)
    <3>1. p \in Int /\ r \in Int /\ \A q \in P : q \in Int
      OBVIOUS
    <3>2. \A q \in P : q <= p => q <= r
      BY <1>4, <3>1
    <3>3. ~ (r <= p) /\ r <= r
      BY <1>4, <3>1
    <3>. QED BY <3>2, <3>3, Zenon
  <2>2. IsFiniteSet(upTo(r)) /\ IsFiniteSet(upTo(p))
    BY <1>3
  <2>. HIDE DEF upTo
  <2>. QED BY <2>1, <2>2, FS_Subset, FS_CardinalityType
<1>. QED BY <1>2, <1>3, <1>4

\* The places from which KeepAt takes its elements: all of them, in their order.
Places(s, P, pos) ==
  /\ pos \in [1..Cardinality(P) -> P]
  /\ \A i \in 1..Cardinality(P) : KeepAt(s, P)[i] = s[pos[i]]
  /\ \A i, j \in 1..Cardinality(P) : i < j => pos[i] < pos[j]
  /\ \A p \in P : \E i \in 1..Cardinality(P) : pos[i] = p

\* KeepAt keeps the elements at the positions that are asked for, in their order.
LEMMA KeepAtProperties ==
  ASSUME NEW s, NEW n \in Nat, NEW P \in SUBSET (1..n)
  PROVE  \E pos : Places(s, P, pos)
<1>. DEFINE rank(p) == Cardinality({q \in P : q <= p})
            N == Cardinality(P)
            R == {rank(p) : p \in P}
            ranks == [p \in P |-> rank(p)]
            pos == [i \in 1..N |-> CHOOSE p \in P : rank(p) = i]
<1>1. /\ IsFiniteSet(P) /\ N \in Nat
      /\ \A p \in P : rank(p) \in 1..N
      /\ \A p, r \in P : p < r => rank(p) < rank(r)
  BY RanksDiffer
<1>2. \A p, r \in P : rank(p) = rank(r) => p = r
  <2>. HIDE DEF rank, N
  <2>. QED BY <1>1
<1>3. R = 1..N
  <2>. HIDE DEF rank, N
  <2>1. ranks \in Bijection(P, R)
    BY <1>2 DEF Bijection, Injection, Surjection, IsInjective
  <2>2. IsFiniteSet(R) /\ Cardinality(R) = N
    BY <1>1, <2>1, FS_Bijection DEF N, ExistsBijection
  <2>3. R \subseteq 1..N
    BY <1>1
  <2>4. IsFiniteSet(1..N) /\ Cardinality(1..N) = N
    BY <1>1, FS_Interval
  <2>. QED BY <2>2, <2>3, <2>4, FS_Subset
<1>4. ASSUME NEW i \in 1..N PROVE pos[i] \in P /\ rank(pos[i]) = i
  <2>. HIDE DEF rank
  <2>1. \E p \in P : rank(p) = i
    BY <1>3
  <2>. QED BY <2>1
<1>5. ASSUME NEW i \in 1..N, NEW j \in 1..N, i < j PROVE pos[i] < pos[j]
  <2>1. pos[i] \in P /\ rank(pos[i]) = i /\ pos[j] \in P /\ rank(pos[j]) = j
    BY <1>4
  <2>2. pos[i] \in 1..n /\ pos[j] \in 1..n
    BY <2>1
  <2>. HIDE DEF rank, N, pos
  <2>. QED BY <1>1, <1>5, <2>1, <2>2
<1>6. \A p \in P : pos[rank(p)] = p /\ rank(p) \in 1..N
  <2>. HIDE DEF rank, N, pos
  <2>. QED BY <1>1, <1>2, <1>4
<1>7. \A i \in 1..N : KeepAt(s, P)[i] = s[pos[i]]
  BY DEF KeepAt
<1>8. pos \in [1..N -> P]
  BY <1>4
<1>. HIDE DEF pos, rank, N
<1>. QED BY <1>5, <1>6, <1>7, <1>8 DEF N, Places

-----------------------------------------------------------------------------
(* Dates.                                                                  *)

\* The Gregorian rule of leap years is what the days of the years say.
LEMMA LeapYears ==
  ASSUME NEW y \in Int
  PROVE  LeapDay(y) = IF IsLeapYear(y) THEN 1 ELSE 0
BY SMTT(60) DEF LeapDay, DayFromYear, IsLeapYear

\* YearOf finds the year of every day, before 1970 as well.
LEMMA YearProperties ==
  ASSUME NEW n \in Int
  PROVE  /\ YearOf(n) \in Int
         /\ DayFromYear(YearOf(n)) <= n /\ n < DayFromYear(YearOf(n) + 1)
<1>. DEFINE near == 1970 + ((400 * n) \div 146097)
<1>1. near \in Int
  OBVIOUS
<1>2. DayFromYear(near - 1) <= n /\ n < DayFromYear(near + 2)
  BY SMT DEF DayFromYear
<1>3. \E y \in (near - 1)..(near + 1) : DayFromYear(y) <= n /\ n < DayFromYear(y + 1)
  <2>. HIDE DEF near
  <2>1. DayFromYear(near) \in Int /\ DayFromYear(near + 1) \in Int
    BY <1>1 DEF DayFromYear
  <2>2. CASE n < DayFromYear(near)
    <3>1. near - 1 + 1 = near
      BY <1>1
    <3>. QED BY <1>1, <1>2, <2>1, <2>2, <3>1
  <2>3. CASE DayFromYear(near) <= n /\ n < DayFromYear(near + 1)
    BY <1>1, <2>3
  <2>4. CASE DayFromYear(near + 1) <= n
    <3>1. near + 1 + 1 = near + 2
      BY <1>1
    <3>. QED BY <1>1, <1>2, <2>4, <3>1
  <2>. QED BY <2>1, <2>2, <2>3, <2>4
<1>4. /\ YearOf(n) \in (near - 1)..(near + 1)
      /\ DayFromYear(YearOf(n)) <= n /\ n < DayFromYear(YearOf(n) + 1)
  BY <1>3 DEF YearOf
<1>. QED BY <1>1, <1>4

\* The months of a year follow each other and fill it.
LEMMA MonthProperties ==
  ASSUME NEW y \in Int
  PROVE  /\ LeapDay(y) \in {0, 1} /\ DayFromYear(y) \in Int
         /\ DayFromYear(y + 1) = DayFromYear(y) + 365 + LeapDay(y)
         /\ DayFromMonth(y, 0) = 0
         /\ \A m \in 0..11 : DayFromMonth(y, m) \in Int /\ MonthLength(y, m) \in Int
         /\ \A m \in 0..10 : DayFromMonth(y, m + 1) = DayFromMonth(y, m) + MonthLength(y, m)
         /\ DayFromMonth(y, 11) + MonthLength(y, 11) = 365 + LeapDay(y)
<1>1. LeapDay(y) \in {0, 1} 
  BY LeapYears
<1>2. DayFromYear(y) \in Int /\ DayFromYear(y + 1) \in Int
  BY DEF DayFromYear
<1>3. DayFromYear(y + 1) = DayFromYear(y) + 365 + LeapDay(y)
  BY <1>2 DEF LeapDay
<1>4. /\ DayFromMonth(y, 0) = 0 /\ DayFromMonth(y, 1) = 31
      /\ DayFromMonth(y, 2) = 59 + LeapDay(y) /\ DayFromMonth(y, 3) = 90 + LeapDay(y)
      /\ DayFromMonth(y, 4) = 120 + LeapDay(y) /\ DayFromMonth(y, 5) = 151 + LeapDay(y)
      /\ DayFromMonth(y, 6) = 181 + LeapDay(y) /\ DayFromMonth(y, 7) = 212 + LeapDay(y)
      /\ DayFromMonth(y, 8) = 243 + LeapDay(y) /\ DayFromMonth(y, 9) = 273 + LeapDay(y)
      /\ DayFromMonth(y, 10) = 304 + LeapDay(y) /\ DayFromMonth(y, 11) = 334 + LeapDay(y)
  BY <1>1 DEF DayFromMonth
<1>5. /\ MonthLength(y, 1) = 28 + LeapDay(y)
      /\ \A m \in {3, 5, 8, 10} : MonthLength(y, m) = 30
      /\ \A m \in {0, 2, 4, 6, 7, 9, 11} : MonthLength(y, m) = 31
  BY DEF MonthLength
<1>6. \A m \in 0..11 : m \in {0, 1, 2, 3, 4, 5, 6, 7, 8, 9, 10, 11}
  OBVIOUS
<1>7. \A m \in 0..11 : DayFromMonth(y, m) \in Int /\ MonthLength(y, m) \in Int
  BY <1>1, <1>4, <1>5, <1>6
<1>8. \A m \in 0..10 : DayFromMonth(y, m + 1) = DayFromMonth(y, m) + MonthLength(y, m)
  BY <1>1, <1>4, <1>5, <1>6
<1>. QED BY <1>1, <1>2, <1>3, <1>4, <1>5, <1>7, <1>8

\* Civil gives a day of the calendar, and its day is the number it was made from.
LEMMA CivilProperties ==
  ASSUME NEW n \in Int
  PROVE  \E y \in Int, m \in 0..11, d \in Int :
           /\ Civil(n) = <<d, m + 1, y>>
           /\ d \in 1..MonthLength(y, m)
           /\ n = DayFromYear(y) + DayFromMonth(y, m) + d - 1
<1>. DEFINE y == YearOf(n)
            rest == n - DayFromYear(y)
            Fits(k) == DayFromMonth(y, k) <= rest /\ rest < DayFromMonth(y, k) + MonthLength(y, k)
            m == CHOOSE k \in 0..11 : Fits(k)
            d == rest - DayFromMonth(y, m) + 1
<1>1. y \in Int /\ DayFromYear(y) <= n /\ n < DayFromYear(y + 1)
  BY YearProperties
<1>. HIDE DEF y
<1>2. /\ LeapDay(y) \in {0, 1} /\ DayFromYear(y) \in Int
      /\ DayFromYear(y + 1) = DayFromYear(y) + 365 + LeapDay(y)
      /\ DayFromMonth(y, 0) = 0
      /\ \A k \in 0..11 : DayFromMonth(y, k) \in Int /\ MonthLength(y, k) \in Int
      /\ \A k \in 0..10 : DayFromMonth(y, k + 1) = DayFromMonth(y, k) + MonthLength(y, k)
      /\ DayFromMonth(y, 11) + MonthLength(y, 11) = 365 + LeapDay(y)
  BY <1>1, MonthProperties
<1>3. rest \in Int /\ 0 <= rest /\ rest < 365 + LeapDay(y)
  BY <1>1, <1>2
<1>. HIDE DEF rest
<1>4. \E k \in 0..11 : Fits(k)
  <2>. SUFFICES ASSUME \A k \in 0..11 : ~Fits(k) PROVE FALSE
    OBVIOUS
  <2>1. \A k \in 0..11 : DayFromMonth(y, k) <= rest
           => DayFromMonth(y, k) + MonthLength(y, k) <= rest
    BY <1>2, <1>3
  <2>. HIDE DEF Fits
  <2>2. DayFromMonth(y, 1) <= rest
    BY <1>2, <1>3, <2>1
  <2>3. DayFromMonth(y, 2) <= rest
    BY <1>2, <2>1, <2>2
  <2>4. DayFromMonth(y, 3) <= rest
    BY <1>2, <2>1, <2>3
  <2>5. DayFromMonth(y, 4) <= rest
    BY <1>2, <2>1, <2>4
  <2>6. DayFromMonth(y, 5) <= rest
    BY <1>2, <2>1, <2>5
  <2>7. DayFromMonth(y, 6) <= rest
    BY <1>2, <2>1, <2>6
  <2>8. DayFromMonth(y, 7) <= rest
    BY <1>2, <2>1, <2>7
  <2>9. DayFromMonth(y, 8) <= rest
    BY <1>2, <2>1, <2>8
  <2>10. DayFromMonth(y, 9) <= rest
    BY <1>2, <2>1, <2>9
  <2>11. DayFromMonth(y, 10) <= rest
    BY <1>2, <2>1, <2>10
  <2>12. DayFromMonth(y, 11) <= rest
    BY <1>2, <2>1, <2>11
  <2>. QED BY <1>2, <1>3, <2>1, <2>12
<1>5. m \in 0..11 /\ Fits(m)
  BY <1>4
<1>6. Civil(n) = <<d, m + 1, y>>
  BY DEF Civil, y, rest
<1>. HIDE DEF m
<1>7. d \in Int /\ d \in 1..MonthLength(y, m)
  BY <1>2, <1>3, <1>5
<1>8. n = DayFromYear(y) + DayFromMonth(y, m) + d - 1
  BY <1>1, <1>2, <1>3, <1>5 DEF rest
<1>. QED BY <1>1, <1>5, <1>6, <1>7, <1>8

\* Two days with the same date are the same day.
LEMMA CivilInjective ==
  ASSUME NEW n \in Int, NEW k \in Int, Civil(n) = Civil(k)
  PROVE  n = k
<1>1. PICK y \in Int, m \in 0..11, d \in Int :
        Civil(n) = <<d, m + 1, y>> /\ n = DayFromYear(y) + DayFromMonth(y, m) + d - 1
  BY CivilProperties
<1>2. PICK z \in Int, l \in 0..11, e \in Int :
        Civil(k) = <<e, l + 1, z>> /\ k = DayFromYear(z) + DayFromMonth(z, l) + e - 1
  BY CivilProperties
<1>3. d = e /\ m + 1 = l + 1 /\ y = z
  <2>1. <<d, m + 1, y>> = <<e, l + 1, z>>
    BY <1>1, <1>2, Zenon
  <2>. QED BY <2>1
<1>4. m = l
  BY <1>3
<1>. QED BY <1>1, <1>2, <1>3, <1>4

\* Date.UTC takes any day and month.
LEMMA DaysAreNumbers ==
  ASSUME NEW y \in Int, NEW m \in Int, NEW d \in Int
  PROVE  DateUTC(y, m, d) \in Int
<1>. DEFINE year == (IF y \in 0..99 THEN 1900 + y ELSE y) + (m \div 12)
<1>1. year \in Int /\ m % 12 \in 0..11
  OBVIOUS
<1>2. DateUTC(y, m, d) = DayFromYear(year) + DayFromMonth(year, m % 12) + d - 1
  BY DEF DateUTC
<1>. HIDE DEF year
<1>3. DayFromYear(year) \in Int /\ DayFromMonth(year, m % 12) \in Int
  BY <1>1, MonthProperties
<1>. QED BY <1>2, <1>3

\* formatDate lets nothing through that is not a day of the calendar, and does not change it.
LEMMA FormatDateProperties ==
  ASSUME NEW d \in Int, NEW m \in Int, NEW y \in Int, FormatDate(d, m, y) # NoDate
  PROVE  /\ FormatDate(d, m, y) = <<d, m, y>>
         /\ m \in 1..12 /\ d \in 1..MonthLength(y, m - 1)
         /\ Civil(DateUTC(y, m - 1, d)) = <<d, m, y>> /\ DateUTC(y, m - 1, d) \in Int
<1>1. FormatDate(d, m, y) = <<d, m, y>> /\ Civil(DateUTC(y, m - 1, d)) = <<d, m, y>>
  BY DEF FormatDate
<1>2. DateUTC(y, m - 1, d) \in Int
  BY DaysAreNumbers
<1>3. PICK z \in Int, l \in 0..11, e \in Int :
        Civil(DateUTC(y, m - 1, d)) = <<e, l + 1, z>> /\ e \in 1..MonthLength(z, l)
  BY <1>2, CivilProperties
<1>4. d = e /\ m = l + 1 /\ y = z
  BY <1>1, <1>3
<1>5. m - 1 = l
  BY <1>3, <1>4
<1>. QED BY <1>1, <1>2, <1>3, <1>4, <1>5

\* The days that formatDate lets through are those of the calendar.
LEMMA FormattedDays ==
  ASSUME NEW d \in Int, NEW m \in Int, NEW y \in Int, FormatDate(d, m, y) # NoDate
  PROVE  IsCalendarDay(<<d, m, y>>)
<1>1. m \in 1..12 /\ d \in 1..MonthLength(y, m - 1)
  BY FormatDateProperties
<1>2. LeapDay(y) = IF IsLeapYear(y) THEN 1 ELSE 0
  BY LeapYears
<1>3. MonthLength(y, m - 1) = CASE m \in {4, 6, 9, 11} -> 30
                                [] m = 2 -> IF IsLeapYear(y) THEN 29 ELSE 28
                                [] OTHER -> 31
  BY <1>1, <1>2 DEF MonthLength
<1>. QED BY <1>1, <1>3 DEF IsCalendarDay

\* A day that goes through Civil and formatDate comes out as it was.
LEMMA FormattedNumbers ==
  ASSUME NEW n \in Int, NEW c, c = Civil(n),
         NEW dob, dob = FormatDate(c[1], c[2], c[3]), dob # NoDate
  PROVE  /\ dob \in Int \X Int \X Int /\ IsCalendarDay(dob)
         /\ DateUTC(dob[3], dob[2] - 1, dob[1]) = n
<1>1. PICK y \in Int, m \in 0..11, d \in Int : Civil(n) = <<d, m + 1, y>>
  BY CivilProperties
<1>2. c[1] = d /\ c[2] = m + 1 /\ c[3] = y /\ m + 1 \in Int
  BY <1>1
<1>3. FormatDate(d, m + 1, y) # NoDate
  BY <1>2
<1>4. /\ dob = <<d, m + 1, y>>
      /\ Civil(DateUTC(y, m + 1 - 1, d)) = <<d, m + 1, y>> /\ DateUTC(y, m + 1 - 1, d) \in Int
  BY <1>2, <1>3, FormatDateProperties
<1>5. DateUTC(y, m + 1 - 1, d) = n
  BY <1>1, <1>4, CivilInjective
<1>6. IsCalendarDay(<<d, m + 1, y>>)
  BY <1>2, <1>3, FormattedDays
<1>. QED BY <1>2, <1>4, <1>5, <1>6

\* The text of a date has three numbers.
LEMMA WrittenDates ==
  ASSUME NEW cell \in Cells, cell.kind \in {"dmy", "ymd"}
  PROVE  cell.d \in Nat /\ cell.m \in Nat /\ cell.y \in Int
<1>. DEFINE texts == STRING \ {""}
            written == [kind : {"dmy", "ymd"}, text : texts, d : Nat, m : Nat, y : Int]
<1>. HIDE DEF texts
<1>1. cell \in written
  BY Zenon DEF Cells, texts
<1>. QED BY <1>1

\* The day of a cell that has one is a number.
LEMMA DaysOfCells ==
  ASSUME NEW cell \in Cells, HasUtcDay(cell)
  PROVE  DayOf(cell) \in Int
<1>1. CASE cell.kind \in {"date", "loose"}
  <2>1. cell.day \in Int
    BY <1>1 DEF Cells
  <2>. QED BY <1>1, <2>1 DEF DayOf
<1>2. CASE cell.kind = "number"
  <2>1. cell.number \in Int
    BY <1>2 DEF Cells
  <2>2. ExcelEpoch \in Int
    BY DaysAreNumbers DEF ExcelEpoch
  <2>3. DayOf(cell) = ExcelEpoch + cell.number
    BY <1>2 DEF DayOf
  <2>. QED BY <2>1, <2>2, <2>3
<1>3. CASE cell.kind = "ymd" /\ cell.m \in 1..12 /\ cell.d \in 1..31
  <2>1. cell.y \in Int /\ cell.m - 1 \in 0..11 /\ cell.d \in Int
    <3>1. cell.y \in Int
      BY <1>3, WrittenDates
    <3>. QED BY <1>3, <3>1
  <2>2. DayFromYear(cell.y) \in Int /\ DayFromMonth(cell.y, cell.m - 1) \in Int
    BY <2>1, MonthProperties
  <2>3. DayOf(cell) = DayFromYear(cell.y) + DayFromMonth(cell.y, cell.m - 1) + cell.d - 1
    BY <1>3 DEF DayOf
  <2>. QED BY <2>1, <2>2, <2>3
<1>. QED BY <1>1, <1>2, <1>3, Zenon DEF HasUtcDay

\* A date that normalizeSpreadsheetDate reads is a day of the calendar.  Of a text in the form
\* that is asked for it is the day the text says; of a date of Excel, its number or any other
\* text it is the day that ExcelJS or JavaScript reads, not one before or after it.
THEOREM NormalizeDateProperties ==
  ASSUME NEW cell \in Cells, NEW dob, dob = NormalizeDate(cell), dob # NoDate
  PROVE  dob \in Int \X Int \X Int /\ IsCalendarDay(dob) /\ ShowsDay(cell, dob)
<1>1. CASE cell.kind = "dmy"
  <2>1. cell.d \in Int /\ cell.m \in Int /\ cell.y \in Int
    <3>1. cell.d \in Nat /\ cell.m \in Nat /\ cell.y \in Int
      BY <1>1, WrittenDates
    <3>. QED BY <3>1
  <2>2. dob = FormatDate(cell.d, cell.m, cell.y)
    BY <1>1 DEF NormalizeDate, HasUtcDay
  <2>3. dob = <<cell.d, cell.m, cell.y>> /\ IsCalendarDay(<<cell.d, cell.m, cell.y>>)
    BY <2>1, <2>2, FormatDateProperties, FormattedDays
  <2>. QED BY <1>1, <2>1, <2>3 DEF ShowsDay
<1>2. CASE cell.kind # "dmy" /\ HasUtcDay(cell)
  <2>1. DayOf(cell) \in Int
    BY <1>2, DaysOfCells
  <2>2. dob = FormatDay(DayOf(cell))
    BY <1>2 DEF NormalizeDate
  <2>3. LET c == Civil(DayOf(cell)) IN dob = FormatDate(c[1], c[2], c[3])
    BY <2>2 DEF FormatDay
  <2>4. /\ dob \in Int \X Int \X Int /\ IsCalendarDay(dob)
        /\ DateUTC(dob[3], dob[2] - 1, dob[1]) = DayOf(cell)
    BY <2>1, <2>3, FormattedNumbers
  <2>. QED BY <1>2, <2>4 DEF ShowsDay
<1>. QED BY <1>1, <1>2 DEF NormalizeDate

-----------------------------------------------------------------------------
(* The other way round: every day is accepted.                             *)

\* The years follow each other.
LEMMA YearsGrow ==
  ASSUME NEW y \in Int, NEW z \in Int, y < z
  PROVE  DayFromYear(y + 1) <= DayFromYear(z)
BY SMTT(60) DEF DayFromYear

\* The months of a year follow each other.
LEMMA MonthsGrow ==
  ASSUME NEW y \in Int, NEW m \in 0..11, NEW l \in 0..11, m < l
  PROVE  DayFromMonth(y, m) + MonthLength(y, m) <= DayFromMonth(y, l)
<1>1. /\ LeapDay(y) \in {0, 1}
      /\ \A k \in 0..11 : DayFromMonth(y, k) \in Int /\ MonthLength(y, k) \in Int
      /\ \A k \in 0..10 : DayFromMonth(y, k + 1) = DayFromMonth(y, k) + MonthLength(y, k)
  BY MonthProperties
<1>2. \A k \in 0..11 : MonthLength(y, k) >= 0
  BY <1>1 DEF MonthLength
<1>3. \A k \in 0..10 : DayFromMonth(y, k) <= DayFromMonth(y, k + 1)
  BY <1>1, <1>2
<1>. DEFINE P(k) == k <= 11 /\ m < k => DayFromMonth(y, m + 1) <= DayFromMonth(y, k)
<1>4. P(1) /\ P(2) /\ P(3) /\ P(4) /\ P(5) /\ P(6) /\ P(7) /\ P(8) /\ P(9) /\ P(10) /\ P(11)
  <2>1. \A k \in 1..10 : P(k) => P(k + 1)
    BY <1>1, <1>3
  <2>2. P(1)
    BY <1>1
  <2>. HIDE DEF P
  <2>3. P(1 + 1) /\ P(2)
    BY <2>1, <2>2
  <2>4. P(3) /\ P(4)
    BY <2>1, <2>3
  <2>5. P(5) /\ P(6)
    BY <2>1, <2>4
  <2>6. P(7) /\ P(8)
    BY <2>1, <2>5
  <2>7. P(9) /\ P(10)
    BY <2>1, <2>6
  <2>. QED BY <2>1, <2>2, <2>3, <2>4, <2>5, <2>6, <2>7
<1>5. DayFromMonth(y, m + 1) <= DayFromMonth(y, l)
  BY <1>4
<1>. QED BY <1>1, <1>5

\* A day of a year lies in this year.
LEMMA DayInYear ==
  ASSUME NEW y \in Int, NEW m \in 0..11, NEW d \in Int, d \in 1..MonthLength(y, m)
  PROVE  LET n == DayFromYear(y) + DayFromMonth(y, m) + d - 1
         IN  n \in Int /\ DayFromYear(y) <= n /\ n < DayFromYear(y + 1)
<1>1. /\ LeapDay(y) \in {0, 1} /\ DayFromYear(y) \in Int
      /\ DayFromYear(y + 1) = DayFromYear(y) + 365 + LeapDay(y)
      /\ DayFromMonth(y, 0) = 0
      /\ \A k \in 0..11 : DayFromMonth(y, k) \in Int /\ MonthLength(y, k) \in Int
      /\ DayFromMonth(y, 11) + MonthLength(y, 11) = 365 + LeapDay(y)
  BY MonthProperties
<1>2. MonthLength(y, 0) = 31 /\ MonthLength(y, 11) = 31
  BY DEF MonthLength
<1>3. 0 <= DayFromMonth(y, m)
  <2>1. m = 0 \/ 0 < m
    OBVIOUS
  <2>. QED BY <1>1, <1>2, <2>1, MonthsGrow
<1>4. DayFromMonth(y, m) + MonthLength(y, m) <= 365 + LeapDay(y)
  <2>1. m = 11 \/ m < 11
    OBVIOUS
  <2>2. m < 11 => DayFromMonth(y, m) + MonthLength(y, m) <= DayFromMonth(y, 11)
    BY MonthsGrow
  <2>. QED BY <1>1, <1>2, <2>1, <2>2
<1>. QED BY <1>1, <1>3, <1>4

\* The day of a date has this date.
LEMMA CivilOfDay ==
  ASSUME NEW y \in Int, NEW m \in 0..11, NEW d \in Int, d \in 1..MonthLength(y, m)
  PROVE  Civil(DayFromYear(y) + DayFromMonth(y, m) + d - 1) = <<d, m + 1, y>>
<1>. DEFINE n == DayFromYear(y) + DayFromMonth(y, m) + d - 1
<1>1. n \in Int /\ DayFromYear(y) <= n /\ n < DayFromYear(y + 1)
  BY DayInYear
<1>2. PICK z \in Int, l \in 0..11, e \in Int :
        /\ Civil(n) = <<e, l + 1, z>> /\ e \in 1..MonthLength(z, l)
        /\ n = DayFromYear(z) + DayFromMonth(z, l) + e - 1
  BY <1>1, CivilProperties
<1>3. DayFromYear(z) <= n /\ n < DayFromYear(z + 1)
  BY <1>2, DayInYear
<1>4. /\ DayFromYear(y) \in Int /\ DayFromYear(y + 1) \in Int
      /\ DayFromYear(z) \in Int /\ DayFromYear(z + 1) \in Int
  BY DEF DayFromYear
<1>5. y = z
  <2>1. y < z => DayFromYear(y + 1) <= DayFromYear(z)
    BY YearsGrow
  <2>2. z < y => DayFromYear(z + 1) <= DayFromYear(y)
    BY YearsGrow
  <2>. HIDE DEF n
  <2>. QED BY <1>1, <1>3, <1>4, <2>1, <2>2
<1>6. \A k \in 0..11 : DayFromMonth(y, k) \in Int /\ MonthLength(y, k) \in Int
  BY MonthProperties
<1>7. DayFromMonth(y, m) + d = DayFromMonth(y, l) + e
  BY <1>2, <1>4, <1>5, <1>6
<1>8. m = l
  <2>1. m < l => DayFromMonth(y, m) + MonthLength(y, m) <= DayFromMonth(y, l)
    BY MonthsGrow
  <2>2. l < m => DayFromMonth(y, l) + MonthLength(y, l) <= DayFromMonth(y, m)
    BY MonthsGrow
  <2>3. d <= MonthLength(y, m) /\ e <= MonthLength(y, l) /\ 1 <= d /\ 1 <= e
    BY <1>2, <1>5, <1>6
  <2>. QED BY <1>2, <1>6, <1>7, <2>1, <2>2, <2>3
<1>9. d = e
  BY <1>2, <1>6, <1>7, <1>8
<1>. QED BY <1>2, <1>5, <1>8, <1>9

\* formatDate accepts every day of the calendar of the years that Date.UTC takes as they are.
LEMMA FormatDateAccepts ==
  ASSUME NEW d \in Int, NEW m \in Int, NEW y \in Int \ (0..99), IsCalendarDay(<<d, m, y>>)
  PROVE  FormatDate(d, m, y) = <<d, m, y>>
<1>1. m \in 1..12 /\ m - 1 \in 0..11 /\ m - 1 + 1 = m
  BY DEF IsCalendarDay
<1>2. d \in 1..MonthLength(y, m - 1)
  <2>1. LeapDay(y) = IF IsLeapYear(y) THEN 1 ELSE 0
    BY LeapYears
  <2>2. MonthLength(y, m - 1) = CASE m \in {4, 6, 9, 11} -> 30
                                  [] m = 2 -> IF IsLeapYear(y) THEN 29 ELSE 28
                                  [] OTHER -> 31
    BY <1>1, <2>1 DEF MonthLength
  <2>. QED BY <2>2 DEF IsCalendarDay
<1>3. DateUTC(y, m - 1, d) = DayFromYear(y) + DayFromMonth(y, m - 1) + d - 1
  <2>1. (m - 1) \div 12 = 0 /\ (m - 1) % 12 = m - 1
    BY <1>1
  <2>2. (IF y \in 0..99 THEN 1900 + y ELSE y) + (m - 1) \div 12 = y
    BY <2>1
  <2>. QED BY <2>1, <2>2 DEF DateUTC
<1>4. Civil(DateUTC(y, m - 1, d)) = <<d, m, y>>
  BY <1>1, <1>2, <1>3, CivilOfDay
<1>. QED BY <1>4 DEF FormatDate

\* The day of a date that Excel stores is accepted, too.
LEMMA CivilIsAccepted ==
  ASSUME NEW n \in Int, NEW c, c = Civil(n), c[3] \notin 0..99
  PROVE  FormatDate(c[1], c[2], c[3]) = c
<1>1. PICK y \in Int, m \in 0..11, d \in Int :
        Civil(n) = <<d, m + 1, y>> /\ d \in 1..MonthLength(y, m)
  BY CivilProperties
<1>2. c = <<d, m + 1, y>> /\ c[1] = d /\ c[2] = m + 1 /\ c[3] = y /\ m + 1 \in 1..12
  BY <1>1
<1>3. IsCalendarDay(<<d, m + 1, y>>)
  <2>1. LeapDay(y) = IF IsLeapYear(y) THEN 1 ELSE 0
    BY LeapYears
  <2>2. MonthLength(y, m) = CASE m + 1 \in {4, 6, 9, 11} -> 30
                              [] m + 1 = 2 -> IF IsLeapYear(y) THEN 29 ELSE 28
                              [] OTHER -> 31
    BY <2>1 DEF MonthLength
  <2>. QED BY <1>1, <1>2, <2>2 DEF IsCalendarDay
<1>. QED BY <1>2, <1>3, FormatDateAccepts

\* A cell shows a day in the documented form or to Excel, and Date.UTC takes its year as it is.
HasDay(cell) ==
  /\ cell.kind \in {"date", "number", "dmy"}
  /\ cell.kind = "dmy" => cell.y \notin 0..99 /\ IsCalendarDay(<<cell.d, cell.m, cell.y>>)
  /\ cell.kind # "dmy" => Civil(DayOf(cell))[3] \notin 0..99

\* No day is refused: normalizeSpreadsheetDate reads a date in the documented form, a date of
\* Excel and its number, of every day of the calendar but those of the years 0 to 99, which
\* Date.UTC takes for years of the 20th century (no birth date has one).
THEOREM DaysAreAccepted ==
  ASSUME NEW cell \in Cells, HasDay(cell)
  PROVE  NormalizeDate(cell) # NoDate /\ ShowsDay(cell, NormalizeDate(cell))
<1>1. CASE cell.kind = "dmy"
  <2>1. cell.d \in Int /\ cell.m \in Int /\ cell.y \in Int
    <3>1. cell.d \in Nat /\ cell.m \in Nat /\ cell.y \in Int
      BY <1>1, WrittenDates
    <3>. QED BY <3>1
  <2>2. cell.y \notin 0..99 /\ IsCalendarDay(<<cell.d, cell.m, cell.y>>)
    BY <1>1 DEF HasDay
  <2>3. FormatDate(cell.d, cell.m, cell.y) = <<cell.d, cell.m, cell.y>>
    <3>1. cell.y \in Int \ (0..99)
      BY <2>1, <2>2, Zenon
    <3>. QED BY <2>1, <2>2, <3>1, FormatDateAccepts, Zenon
  <2>4. NormalizeDate(cell) = <<cell.d, cell.m, cell.y>>
    BY <1>1, <2>3 DEF NormalizeDate, HasUtcDay
  <2>. QED BY <1>1, <2>4 DEF ShowsDay, NoDate
<1>2. CASE cell.kind \in {"date", "number"}
  <2>. DEFINE c == Civil(DayOf(cell))
  <2>1. HasUtcDay(cell) /\ DayOf(cell) \in Int
    BY <1>2, DaysOfCells DEF HasUtcDay
  <2>2. c[3] \notin 0..99
    BY <1>2, Zenon DEF HasDay
  <2>3. FormatDate(c[1], c[2], c[3]) = c
    BY <2>1, <2>2, CivilIsAccepted
  <2>4. NormalizeDate(cell) = FormatDay(DayOf(cell))
    BY <1>2, <2>1 DEF NormalizeDate
  <2>5. FormatDay(DayOf(cell)) = c
    BY <2>3 DEF FormatDay
  <2>6. c # NoDate
    <3>1. PICK y \in Int, m \in 0..11, d \in Int : c = <<d, m + 1, y>>
      BY <2>1, CivilProperties
    <3>. HIDE DEF c
    <3>. QED BY <3>1 DEF NoDate
  <2>. QED BY <2>4, <2>5, <2>6, NormalizeDateProperties
<1>. QED BY <1>1, <1>2, Zenon DEF HasDay

-----------------------------------------------------------------------------
(* Columns.                                                                *)

\* Of different elements KeepAt leaves each once.
LEMMA KeptOnce ==
  ASSUME NEW s, NEW n \in Nat, NEW P \in SUBSET (1..n), NEW T, T = {s[p] : p \in P},
         \A p, q \in P : s[p] = s[q] => p = q
  PROVE  /\ Cardinality(P) \in Nat /\ IsFiniteSet(T) /\ Cardinality(T) = Cardinality(P)
         /\ KeepAt(s, P) \in Bijection(1..Cardinality(P), T)
<1>1. PICK pos : Places(s, P, pos)
  BY KeepAtProperties
<1>2. Cardinality(P) \in Nat
  BY RanksDiffer
<1>. DEFINE N == Cardinality(P)
            K == KeepAt(s, P)
<1>. HIDE DEF N, K
<1>3. K \in [1..N -> T] /\ \A i \in 1..N : K[i] = s[pos[i]]
  <2>1. K = [i \in 1..N |-> K[i]]
    BY DEF N, K, KeepAt
  <2>2. \A i \in 1..N : K[i] = s[pos[i]] /\ pos[i] \in P
    BY <1>1 DEF N, K, Places
  <2>. QED BY <2>1, <2>2
<1>4. ASSUME NEW i \in 1..N, NEW j \in 1..N, K[i] = K[j] PROVE i = j
  <2>1. pos[i] = pos[j] /\ pos[i] \in 1..n /\ pos[j] \in 1..n
    <3>1. pos[i] \in P /\ pos[j] \in P
      BY <1>1 DEF N, Places
    <3>2. s[pos[i]] = s[pos[j]]
      BY <1>3, <1>4
    <3>. QED BY <3>1, <3>2
  <2>2. ~ (i < j) /\ ~ (j < i)
    BY <1>1, <2>1 DEF N, Places
  <2>. QED BY <1>2, <2>2 DEF N
<1>5. \A t \in T : \E i \in 1..N : K[i] = t
  BY <1>1, <1>3 DEF N, Places
<1>6. K \in Bijection(1..N, T)
  BY <1>3, <1>4, <1>5 DEF Bijection, Injection, Surjection, IsInjective
<1>7. IsFiniteSet(T) /\ Cardinality(T) = N
  <2>1. IsFiniteSet(1..N) /\ Cardinality(1..N) = N
    BY <1>2, FS_Interval DEF N
  <2>. QED BY <1>6, <2>1, FS_Bijection DEF ExistsBijection
<1>. QED BY <1>2, <1>6, <1>7 DEF N, K

\* The column of a header stands under it, inside the sheet.
LEMMA ColumnProperties ==
  ASSUME NEW file \in SheetFiles, NEW header \in Headers(file)
  PROVE  /\ ColumnOf(file, header) \in 1..Len(file.headers)
         /\ Upper(file.headers[ColumnOf(file, header)]) = header
<1>. DEFINE P == {k \in DOMAIN file.headers : Upper(file.headers[k]) = header}
<1>1. file.headers \in Seq(STRING)
  BY DEF SheetFiles
<1>2. DOMAIN file.headers = 1..Len(file.headers) /\ Len(file.headers) \in Nat
  BY <1>1
<1>3. P \in SUBSET (1..Len(file.headers)) /\ P # {}
  BY <1>2 DEF Headers
<1>4. Max(P) \in P
  <2>. HIDE DEF P
  <2>. QED BY <1>2, <1>3, LastPosition
<1>. QED BY <1>2, <1>4 DEF ColumnOf

\* Every column of a row has a cell.
LEMMA CellProperties ==
  ASSUME NEW file \in SheetFiles, NEW r \in DOMAIN file.rows, NEW header \in Headers(file)
  PROVE  file.rows[r][ColumnOf(file, header)] \in Cells
<1>1. file.rows \in Seq(Seq(Cells)) /\ Len(file.rows[r]) = Len(file.headers)
  BY DEF SheetFiles
<1>2. file.rows[r] \in Seq(Cells)
  BY <1>1
<1>3. ColumnOf(file, header) \in 1..Len(file.rows[r])
  BY <1>1, ColumnProperties
<1>. QED BY <1>2, <1>3

\* orderedHeaders lists every candidate that is a header once.
LEMMA OrderedHeadersProperties ==
  ASSUME NEW file \in SheetFiles, NEW candidates
  PROVE  \E n \in Nat :
           OrderedHeaders(file, candidates) \in Bijection(1..n, candidates \cap Headers(file))
<1>. DEFINE s == [k \in DOMAIN file.headers |-> Upper(file.headers[k])]
            H == candidates \cap Headers(file)
            P == {ColumnOf(file, header) : header \in H}
            n == Len(file.headers)
<1>1. n \in Nat /\ DOMAIN file.headers = 1..n
  <2>1. file.headers \in Seq(STRING)
    BY DEF SheetFiles
  <2>. QED BY <2>1
<1>2. \A header \in H : ColumnOf(file, header) \in 1..n /\ s[ColumnOf(file, header)] = header
  BY <1>1, ColumnProperties
<1>3. P \in SUBSET (1..n)
  BY <1>2
<1>4. H = {s[p] : p \in P} /\ \A p, q \in P : s[p] = s[q] => p = q
  <2>. HIDE DEF s, H, n
  <2>. QED BY <1>2
<1>5. OrderedHeaders(file, candidates) = KeepAt(s, P)
  BY DEF OrderedHeaders
<1>. HIDE DEF s, P, H, n
<1>6. Cardinality(P) \in Nat /\ KeepAt(s, P) \in Bijection(1..Cardinality(P), H)
  BY <1>1, <1>3, <1>4, KeptOnce
<1>. QED BY <1>5, <1>6 DEF H

\* Every candidate that the row has a text for comes once.
LEMMA FilledHeadersProperties ==
  ASSUME NEW module, NEW file \in SheetFiles, NEW r,
         NEW T, T = {header \in Candidates(module) : CellText(file, r, header) # ""}
  PROVE  /\ IsFiniteSet(T) /\ Cardinality(T) \in Nat
         /\ FilledHeaders(module, file, r) \in Bijection(1..Cardinality(T), T)
<1>. DEFINE ordered == OrderedHeaders(file, Candidates(module))
            P == {k \in DOMAIN ordered : CellText(file, r, ordered[k]) # ""}
<1>1. PICK n \in Nat : ordered \in Bijection(1..n, Candidates(module) \cap Headers(file))
  BY OrderedHeadersProperties
<1>2. FilledHeaders(module, file, r) = KeepAt(ordered, P)
  BY DEF FilledHeaders
<1>. HIDE DEF ordered
<1>3. /\ ordered \in [1..n -> Candidates(module) \cap Headers(file)]
      /\ \A p, q \in 1..n : ordered[p] = ordered[q] => p = q
      /\ \A h \in Candidates(module) \cap Headers(file) : \E p \in 1..n : ordered[p] = h
  BY <1>1 DEF Bijection, Injection, Surjection, IsInjective
<1>4. P \in SUBSET (1..n)
  BY <1>3
<1>5. T = {ordered[p] : p \in P}
  <2>1. \A h \in T : h \in Headers(file)
    BY DEF CellText
  <2>2. ASSUME NEW h \in T PROVE \E p \in P : ordered[p] = h
    BY <1>3, <2>1
  <2>3. ASSUME NEW p \in P PROVE ordered[p] \in T
    BY <1>3
  <2>. QED BY <2>2, <2>3, Zenon
<1>6. \A p, q \in P : ordered[p] = ordered[q] => p = q
  BY <1>3, <1>4
<1>. HIDE DEF P
<1>7. /\ Cardinality(P) \in Nat /\ IsFiniteSet(T) /\ Cardinality(T) = Cardinality(P)
      /\ KeepAt(ordered, P) \in Bijection(1..Cardinality(P), T)
  BY <1>4, <1>5, <1>6, KeptOnce, Zenon
<1>. QED BY <1>2, <1>7

-----------------------------------------------------------------------------
(* Items.                                                                  *)

\* The shape of a module's items.
IsItem(module, item) ==
  LET body == item.body
  IN  CASE module \in VinModules -> item.type = "" /\ body = [vin |-> body.vin]
        [] module = "INN" ->
             /\ item.type = "for_structured"
             /\ body = [fio |-> body.fio, dob |-> body.dob, passport |-> body.passport]
        [] module = "BANKRUPTCY" ->
             \/ item.type = "for_inn" /\ body = [inn |-> body.inn]
             \/ item.type = "for_fio" /\ body = [fio |-> body.fio]
        [] OTHER ->
             \/ item.type = "for_inn" /\ body = [inn |-> body.inn]
             \/ item.type = "for_ip" /\ body = [ip |-> body.ip]
             \/ item.type = "for_doc_id" /\ body = [doc_id |-> body.doc_id]
             \/ item.type = "for_fio_dob" /\ body = [fio |-> body.fio, dob |-> body.dob]

\* The cells of a row that give items.
FilledCells(module, file, r) ==
  {header \in SubjectHeaders(module) : CellText(file, r, header) # ""}

\* A body shows the text of a cell.
Shows(body, file, r, header) ==
  /\ FieldOf[header] \in DOMAIN body
  /\ body[FieldOf[header]] \in {CellText(file, r, header), Upper(CellText(file, r, header))}

\* A day of birth is the one of the row.
HasDayOf(body, file, r) ==
  "dob" \in DOMAIN body =>
    /\ body.dob = NormalizeDate(file.rows[r][ColumnOf(file, "DOB")])
    /\ body.dob # NoDate /\ "DOB" \in Headers(file)

\* What an item of a row must be, whichever cell it comes from.
ItemOfCell(item, module, file, r, header) ==
  /\ IsItem(module, item) /\ HasDayOf(item.body, file, r)
  /\ Shows(item.body, file, r, header)

\* The modules whose file has one kind of subject only.
LEMMA ModulesOfOneColumn ==
  ASSUME NEW module
  PROVE  /\ module \in VinModules => SubjectHeaders(module) = {"VIN"}
         /\ module = "INN" => SubjectHeaders(module) = {"FIO"}
         /\ module \in {"FSSP", "BANKRUPTCY"} => SubjectHeaders(module) = Candidates(module)
         /\ module \in {"FSSP", "INN", "BANKRUPTCY"} => module \notin VinModules
BY DEF SubjectHeaders, VinModules

\* A body of one text shows the cell that the text is from, and has no date.
LEMMA OneText ==
  ASSUME NEW file, NEW r, NEW header, NEW body, NEW field, FieldOf[header] = field,
         DOMAIN body = {field}, field # "dob",
         body[field] \in {CellText(file, r, header), Upper(CellText(file, r, header))}
  PROVE  HasDayOf(body, file, r) /\ Shows(body, file, r, header)
BY DEF HasDayOf, Shows

\* A date that dateCell reads is the one of the row.
LEMMA DateOfRow ==
  ASSUME NEW file, NEW r, DateIn(file, r) # NoDate
  PROVE  /\ DateIn(file, r) = NormalizeDate(file.rows[r][ColumnOf(file, "DOB")])
         /\ "DOB" \in Headers(file)
BY DEF DateIn, NoDateCell

\* One filled cell of the FSSP or bankruptcy module gives one item.
LEMMA ItemOfProperties ==
  ASSUME NEW module \in {"FSSP", "BANKRUPTCY"}, NEW file, NEW r,
         NEW header \in Candidates(module), CellText(file, r, header) # "",
         ~RowThrows(module, file, r)
  PROVE  ItemOfCell(ItemOf(module, file, r, header), module, file, r, header)
<1>. DEFINE text == CellText(file, r, header)
            item == ItemOf(module, file, r, header)
<1>0. module \notin VinModules /\ module # "INN"
  BY ModulesOfOneColumn
<1>. HIDE DEF text, item
<1>a. text \in {CellText(file, r, header), Upper(CellText(file, r, header))}
  BY DEF text
<1>1. CASE header = "INN"
  <2>1. item = [type |-> "for_inn", body |-> [inn |-> text]]
    BY <1>1 DEF ItemOf, text, item
  <2>2. item.type = "for_inn" /\ item.body = [inn |-> item.body.inn] /\ item.body.inn = text
    BY <2>1
  <2>3. IsItem(module, item)
    BY <1>0, <2>2 DEF IsItem
  <2>4. FieldOf[header] = "inn" /\ DOMAIN item.body = {"inn"}
    BY <1>1, <2>2 DEF FieldOf
  <2>5. HasDayOf(item.body, file, r) /\ Shows(item.body, file, r, header)
    BY <1>a, <2>2, <2>4, OneText
  <2>. QED BY <2>3, <2>5 DEF ItemOfCell, item
<1>2. CASE header = "IP" /\ module = "FSSP"
  <2>1. item = [type |-> "for_ip", body |-> [ip |-> text]]
    BY <1>2 DEF ItemOf, text, item
  <2>2. item.type = "for_ip" /\ item.body = [ip |-> item.body.ip] /\ item.body.ip = text
    BY <2>1
  <2>3. IsItem(module, item)
    BY <1>0, <1>2, <2>2 DEF IsItem
  <2>4. FieldOf[header] = "ip" /\ DOMAIN item.body = {"ip"}
    BY <1>2, <2>2 DEF FieldOf
  <2>5. HasDayOf(item.body, file, r) /\ Shows(item.body, file, r, header)
    BY <1>a, <2>2, <2>4, OneText
  <2>. QED BY <2>3, <2>5 DEF ItemOfCell, item
<1>3. CASE header = "DOC_ID" /\ module = "FSSP"
  <2>1. item = [type |-> "for_doc_id", body |-> [doc_id |-> text]]
    BY <1>3 DEF ItemOf, text, item
  <2>2. /\ item.type = "for_doc_id" /\ item.body = [doc_id |-> item.body.doc_id]
        /\ item.body.doc_id = text
    BY <2>1
  <2>3. IsItem(module, item)
    BY <1>0, <1>3, <2>2 DEF IsItem
  <2>4. FieldOf[header] = "doc_id" /\ DOMAIN item.body = {"doc_id"}
    BY <1>3, <2>2 DEF FieldOf
  <2>5. HasDayOf(item.body, file, r) /\ Shows(item.body, file, r, header)
    BY <1>a, <2>2, <2>4, OneText
  <2>. QED BY <2>3, <2>5 DEF ItemOfCell, item
<1>4. CASE header = "FIO" /\ module = "BANKRUPTCY"
  <2>1. item = [type |-> "for_fio", body |-> [fio |-> text]]
    BY <1>4 DEF ItemOf, text, item
  <2>2. item.type = "for_fio" /\ item.body = [fio |-> item.body.fio] /\ item.body.fio = text
    BY <2>1
  <2>3. IsItem(module, item)
    BY <1>0, <1>4, <2>2 DEF IsItem
  <2>4. FieldOf[header] = "fio" /\ DOMAIN item.body = {"fio"}
    BY <1>4, <2>2 DEF FieldOf
  <2>5. HasDayOf(item.body, file, r) /\ Shows(item.body, file, r, header)
    BY <1>a, <2>2, <2>4, OneText
  <2>. QED BY <2>3, <2>5 DEF ItemOfCell, item
<1>5. CASE header = "FIO" /\ module = "FSSP"
  <2>1. item = [type |-> "for_fio_dob", body |-> [fio |-> text, dob |-> DateIn(file, r)]]
    BY <1>5 DEF ItemOf, text, item
  <2>2. /\ item.type = "for_fio_dob"
        /\ item.body = [fio |-> item.body.fio, dob |-> item.body.dob]
        /\ item.body.fio = text /\ item.body.dob = DateIn(file, r)
    BY <2>1
  <2>3. IsItem(module, item)
    BY <1>0, <1>5, <2>2 DEF IsItem
  <2>4. DateIn(file, r) # NoDate
    BY <1>5 DEF RowThrows
  <2>5. HasDayOf(item.body, file, r)
    BY <2>2, <2>4, DateOfRow DEF HasDayOf
  <2>6. FieldOf[header] = "fio" /\ "fio" \in DOMAIN item.body
    BY <1>5, <2>2 DEF FieldOf
  <2>7. Shows(item.body, file, r, header)
    BY <1>a, <2>2, <2>6 DEF Shows
  <2>. QED BY <2>3, <2>5, <2>7 DEF ItemOfCell, item
<1>. QED BY <1>1, <1>2, <1>3, <1>4, <1>5 DEF Candidates

\* Every row that is not refused gives one item for every filled cell, which shows its text.
ItemsOfRow(items, module, file, r) ==
  LET cells == FilledCells(module, file, r)
  IN  /\ DOMAIN items = 1..Cardinality(cells)
      /\ \A k \in 1..Cardinality(cells) :
           IsItem(module, items[k]) /\ HasDayOf(items[k].body, file, r)
      /\ \A header \in cells : \E k \in 1..Cardinality(cells) :
           Shows(items[k].body, file, r, header)

\* Sequences of no and of one element.
LEMMA ShortSequences ==
  /\ DOMAIN <<>> = 1..0 /\ \A k \in 1..0 : FALSE
  /\ 0 \in Nat /\ 1 \in Nat
  /\ \A x : DOMAIN <<x>> = 1..1 /\ <<x>>[1] = x
  /\ 1 \in 1..1 /\ \A k \in 1..1 : k = 1
OBVIOUS

\* An empty cell gives no item.
LEMMA NoItem ==
  ASSUME NEW module, NEW file, NEW r, NEW header, SubjectHeaders(module) = {header},
         CellText(file, r, header) = ""
  PROVE  /\ IsFiniteSet(FilledCells(module, file, r))
         /\ Cardinality(FilledCells(module, file, r)) \in Nat
         /\ ItemsOfRow(<<>>, module, file, r)
<1>1. FilledCells(module, file, r) = {}
  BY DEF FilledCells
<1>2. IsFiniteSet({}) /\ Cardinality({}) = 0
  BY FS_EmptySet
<1>3. DOMAIN <<>> = 1..0 /\ \A k \in 1..0 : FALSE
  BY ShortSequences, Zenon
<1>4. IsFiniteSet({}) /\ Cardinality({}) \in Nat /\ ItemsOfRow(<<>>, module, file, r)
  BY <1>1, <1>2, <1>3, ShortSequences, Zenon DEF ItemsOfRow
<1>. QED BY <1>1, <1>4, Zenon

\* A filled cell gives one.
LEMMA OneItem ==
  ASSUME NEW module, NEW file, NEW r, NEW header, SubjectHeaders(module) = {header},
         CellText(file, r, header) # "", NEW item, ItemOfCell(item, module, file, r, header)
  PROVE  /\ IsFiniteSet(FilledCells(module, file, r))
         /\ Cardinality(FilledCells(module, file, r)) \in Nat
         /\ ItemsOfRow(<<item>>, module, file, r)
<1>. DEFINE items == <<item>>
<1>1. FilledCells(module, file, r) = {header}
  BY DEF FilledCells
<1>2. IsFiniteSet({header}) /\ Cardinality({header}) = 1
  BY FS_Singleton
<1>3. DOMAIN items = 1..1 /\ items[1] = item /\ (\A k \in 1..1 : k = 1) /\ 1 \in 1..1
  BY ShortSequences, Zenon
<1>. HIDE DEF items
<1>4. ItemsOfRow(items, module, file, r)
  BY <1>1, <1>2, <1>3, Zenon DEF ItemsOfRow, ItemOfCell
<1>. QED BY <1>1, <1>2, <1>4, ShortSequences, Zenon DEF items

\* The items of a row for which parseSpreadsheetRow throws nothing: as many as the row has
\* filled cells with a subject of the module, every one of them shown by an item, and the birth
\* day of an item is the one of its row.
THEOREM RowItemsProperties ==
  ASSUME NEW module \in CheckModules, NEW file \in SheetFiles, NEW r,
         ~RowThrows(module, file, r)
  PROVE  /\ IsFiniteSet(FilledCells(module, file, r))
         /\ Cardinality(FilledCells(module, file, r)) \in Nat
         /\ ItemsOfRow(RowItems(module, file, r), module, file, r)
<1>. DEFINE cells == FilledCells(module, file, r)
            items == RowItems(module, file, r)
            text(header) == CellText(file, r, header)
<1>1. CASE module \in VinModules
  <2>1. SubjectHeaders(module) = {"VIN"} /\ module # "INN"
    BY <1>1, ModulesOfOneColumn
  <2>2. CASE text("VIN") = ""
    <3>1. items = <<>>
      BY <1>1, <2>1, <2>2 DEF RowItems
    <3>. QED BY <2>1, <2>2, <3>1, NoItem
  <2>3. CASE text("VIN") # ""
    <3>. DEFINE item == items[1]
    <3>1. items = <<[type |-> "", body |-> [vin |-> Upper(text("VIN"))]]>>
      BY <1>1, <2>1, <2>3 DEF RowItems
    <3>. HIDE DEF items, item
    <3>2. item = [type |-> "", body |-> [vin |-> Upper(text("VIN"))]] /\ items = <<item>>
      BY <3>1 DEF item
    <3>. HIDE DEF text
    <3>3. /\ item.type = "" /\ item.body = [vin |-> item.body.vin]
          /\ item.body.vin = Upper(text("VIN"))
      BY <3>2
    <3>4. IsItem(module, item)
      BY <1>1, <2>1, <3>3 DEF IsItem, VinModules
    <3>5. FieldOf["VIN"] = "vin" /\ DOMAIN item.body = {"vin"}
      BY <3>3 DEF FieldOf
    <3>6. HasDayOf(item.body, file, r) /\ Shows(item.body, file, r, "VIN")
      BY <3>3, <3>5, OneText DEF text
    <3>7. ItemOfCell(item, module, file, r, "VIN")
      BY <3>4, <3>6 DEF ItemOfCell
    <3>. QED BY <2>1, <2>3, <3>2, <3>7, OneItem DEF items, text
  <2>. QED BY <2>2, <2>3
<1>2. CASE module = "INN"
  <2>1. SubjectHeaders(module) = {"FIO"} /\ module \notin VinModules
    BY <1>2, ModulesOfOneColumn
  <2>2. CASE text("FIO") = ""
    <3>1. items = <<>>
      BY <1>2, <2>1, <2>2 DEF RowItems
    <3>. QED BY <2>1, <2>2, <3>1, NoItem
  <2>3. CASE text("FIO") # ""
    <3>. DEFINE item == items[1]
    <3>1. items = <<[type |-> "for_structured",
                     body |-> [fio |-> text("FIO"), dob |-> DateIn(file, r),
                               passport |-> text("PASSPORT")]]>>
      BY <1>2, <2>1, <2>3 DEF RowItems
    <3>. HIDE DEF items, item
    <3>2. /\ items = <<item>>
          /\ item = [type |-> "for_structured",
                     body |-> [fio |-> text("FIO"), dob |-> DateIn(file, r),
                               passport |-> text("PASSPORT")]]
      BY <3>1 DEF item
    <3>3. DateIn(file, r) # NoDate
      <4>1. LET given == {text("FIO") # "", ~NoDateCell(file, r), text("PASSPORT") # ""}
            IN  ~ (DateThrows(file, r) \/ given = {TRUE, FALSE})
        BY <1>2, <2>1 DEF RowThrows
      <4>2. ~NoDateCell(file, r)
        BY <2>3, <4>1
      <4>. QED BY <4>1, <4>2 DEF DateThrows
    <3>. HIDE DEF text
    <3>4. /\ item.type = "for_structured" /\ item.body.fio = text("FIO")
          /\ item.body = [fio |-> item.body.fio, dob |-> item.body.dob,
                          passport |-> item.body.passport]
          /\ item.body.dob = DateIn(file, r)
      BY <3>2
    <3>5. IsItem(module, item)
      BY <1>2, <2>1, <3>4 DEF IsItem
    <3>6. HasDayOf(item.body, file, r)
      BY <3>3, <3>4, DateOfRow DEF HasDayOf
    <3>7. FieldOf["FIO"] = "fio" /\ "fio" \in DOMAIN item.body
      BY <3>4 DEF FieldOf
    <3>8. Shows(item.body, file, r, "FIO")
      BY <3>4, <3>7 DEF Shows, text
    <3>9. ItemOfCell(item, module, file, r, "FIO")
      BY <3>5, <3>6, <3>8 DEF ItemOfCell
    <3>. QED BY <2>1, <2>3, <3>2, <3>9, OneItem DEF items, text
  <2>. QED BY <2>2, <2>3
<1>3. CASE module \in {"FSSP", "BANKRUPTCY"}
  <2>. DEFINE filled == FilledHeaders(module, file, r)
  <2>1. SubjectHeaders(module) = Candidates(module) /\ module \notin VinModules
    BY <1>3, ModulesOfOneColumn
  <2>2. cells = {header \in Candidates(module) : CellText(file, r, header) # ""}
    BY <2>1 DEF FilledCells
  <2>3. items = [k \in DOMAIN filled |-> ItemOf(module, file, r, filled[k])]
    <3>1. module # "INN"
      BY <1>3
    <3>. QED BY <2>1, <3>1 DEF RowItems
  <2>. HIDE DEF filled, cells, items
  <2>4. /\ IsFiniteSet(cells) /\ Cardinality(cells) \in Nat
        /\ filled \in Bijection(1..Cardinality(cells), cells)
    BY <2>2, FilledHeadersProperties DEF filled
  <2>5. /\ filled \in [1..Cardinality(cells) -> cells]
        /\ \A header \in cells : \E k \in 1..Cardinality(cells) : filled[k] = header
    BY <2>4 DEF Bijection, Surjection
  <2>6. DOMAIN items = 1..Cardinality(cells)
    BY <2>3, <2>5
  <2>7. ASSUME NEW k \in 1..Cardinality(cells)
        PROVE  ItemOfCell(items[k], module, file, r, filled[k])
    <3>1. filled[k] \in Candidates(module) /\ CellText(file, r, filled[k]) # ""
      BY <2>2, <2>5
    <3>2. items[k] = ItemOf(module, file, r, filled[k])
      BY <2>3, <2>5
    <3>. QED BY <1>3, <3>1, <3>2, ItemOfProperties
  <2>8. \A header \in cells : \E k \in 1..Cardinality(cells) :
          Shows(items[k].body, file, r, header)
    BY <2>5, <2>7 DEF ItemOfCell
  <2>9. \A k \in 1..Cardinality(cells) :
          IsItem(module, items[k]) /\ HasDayOf(items[k].body, file, r)
    BY <2>7 DEF ItemOfCell
  <2>. QED BY <2>4, <2>6, <2>8, <2>9 DEF ItemsOfRow, cells, items
<1>. QED BY <1>1, <1>2, <1>3 DEF CheckModules

-----------------------------------------------------------------------------
(* What is stored, and what is asked of the provider.                      *)

\* A body is a function, and no field of it is the type.
LEMMA BodyHasNoType ==
  ASSUME NEW module, NEW item, IsItem(module, item)
  PROVE  /\ "type" \notin DOMAIN item.body
         /\ item.body = [key \in DOMAIN item.body |-> item.body[key]]
<1>. DEFINE body == item.body
<1>1. \/ body = [vin |-> body.vin]
      \/ body = [fio |-> body.fio, dob |-> body.dob, passport |-> body.passport]
      \/ body = [inn |-> body.inn]
      \/ body = [fio |-> body.fio]
      \/ body = [ip |-> body.ip]
      \/ body = [doc_id |-> body.doc_id]
      \/ body = [fio |-> body.fio, dob |-> body.dob]
  BY DEF IsItem, VinModules
<1>. HIDE DEF body
<1>. QED BY <1>1 DEF body

\* The stored body has every field of the item, as it was, and only the type besides.
LEMMA StoredProperties ==
  ASSUME NEW module, NEW item, IsItem(module, item)
  PROVE  /\ DOMAIN item.body \subseteq DOMAIN Stored(item)
         /\ \A key \in DOMAIN item.body : Stored(item)[key] = item.body[key]
         /\ WithoutType(Stored(item)) = item.body
         /\ item.type # "" => Stored(item).type = item.type
<1>. DEFINE body == item.body
            stored == Stored(item)
<1>1. "type" \notin DOMAIN body /\ body = [key \in DOMAIN body |-> body[key]]
  BY BodyHasNoType
<1>. HIDE DEF body
<1>2. CASE item.type = ""
  <2>1. stored = body
    BY <1>2 DEF Stored, body
  <2>2. DOMAIN stored \ {"type"} = DOMAIN body
    BY <1>1, <2>1
  <2>. HIDE DEF stored
  <2>3. [key \in DOMAIN stored \ {"type"} |-> stored[key]] = body
    BY <1>1, <2>1, <2>2, Zenon
  <2>. QED BY <1>2, <2>1, <2>3 DEF WithoutType, stored, body
<1>3. CASE item.type # ""
  <2>1. stored = [key \in {"type"} \cup DOMAIN body |->
                    IF key \in DOMAIN body THEN body[key] ELSE item.type]
    BY <1>3 DEF Stored, body
  <2>. HIDE DEF stored
  <2>2. /\ DOMAIN stored = {"type"} \cup DOMAIN body
        /\ \A key \in DOMAIN body : stored[key] = body[key]
        /\ stored["type"] = item.type
    BY <1>1, <2>1
  <2>3. DOMAIN stored \ {"type"} = DOMAIN body
    BY <1>1, <2>2
  <2>4. [key \in DOMAIN stored \ {"type"} |-> stored[key]] = body
    <3>1. [key \in DOMAIN stored \ {"type"} |-> stored[key]]
            = [key \in DOMAIN body |-> body[key]]
      BY <2>2, <2>3
    <3>. QED BY <1>1, <3>1, Zenon
  <2>. QED BY <2>2, <2>4 DEF WithoutType, stored, body
<1>. QED BY <1>2, <1>3

\* What a check shows of a cell is kept.
LEMMA StoredShows ==
  ASSUME NEW module, NEW item, IsItem(module, item), NEW file, NEW r, NEW header,
         Shows(item.body, file, r, header)
  PROVE  Shows(Stored(item), file, r, header)
<1>1. /\ DOMAIN item.body \subseteq DOMAIN Stored(item)
      /\ \A key \in DOMAIN item.body : Stored(item)[key] = item.body[key]
  BY StoredProperties
<1>. QED BY <1>1 DEF Shows

\* The request carries the item, and the mode of the FSSP is the one of its fields.
CarriesTheItem(module, request, body) ==
  /\ request.subject = body
  /\ module = "FSSP" =>
       request.mode = CASE DOMAIN request.subject = {"fio", "dob"} -> "fio_dob"
                        [] OTHER -> CHOOSE field \in DOMAIN request.subject : TRUE

\* The request for a stored item carries what the item says and nothing of its type.
LEMMA RequestProperties ==
  ASSUME NEW module, NEW item, IsItem(module, item)
  PROVE  CarriesTheItem(module, Request(module, Stored(item)), item.body)
<1>. DEFINE request == Request(module, Stored(item))
            body == item.body
<1>1. request.subject = body
  BY StoredProperties DEF Request
<1>2. ASSUME module = "FSSP"
      PROVE  request.mode = CASE DOMAIN body = {"fio", "dob"} -> "fio_dob"
                              [] OTHER -> CHOOSE field \in DOMAIN body : TRUE
  <2>1. \/ item.type = "for_inn" /\ body = [inn |-> body.inn]
        \/ item.type = "for_ip" /\ body = [ip |-> body.ip]
        \/ item.type = "for_doc_id" /\ body = [doc_id |-> body.doc_id]
        \/ item.type = "for_fio_dob" /\ body = [fio |-> body.fio, dob |-> body.dob]
    BY <1>2 DEF IsItem, VinModules
  <2>. HIDE DEF body
  <2>2. item.type # ""
    BY <2>1
  <2>3. request.mode = FsspModes[item.type]
    BY <1>2, <2>2, StoredProperties DEF Request
  <2>. HIDE DEF request
  <2>4. CASE item.type = "for_fio_dob" /\ body = [fio |-> body.fio, dob |-> body.dob]
    <3>1. DOMAIN body = {"fio", "dob"}
      BY <2>4
    <3>2. request.mode = "fio_dob"
      BY <2>3, <2>4 DEF FsspModes
    <3>. QED BY <3>1, <3>2
  <2>5. ASSUME NEW field, DOMAIN body = {field}, field # "dob", request.mode = field
        PROVE  request.mode = CASE DOMAIN body = {"fio", "dob"} -> "fio_dob"
                                [] OTHER -> CHOOSE k \in DOMAIN body : TRUE
    <3>1. DOMAIN body # {"fio", "dob"}
      BY <2>5
    <3>2. (CHOOSE k \in DOMAIN body : TRUE) = field
      BY <2>5
    <3>. QED BY <2>5, <3>1, <3>2
  <2>6. CASE item.type = "for_inn" /\ body = [inn |-> body.inn]
    <3>1. DOMAIN body = {"inn"} /\ request.mode = "inn"
      BY <2>3, <2>6 DEF FsspModes
    <3>. QED BY <2>5, <3>1
  <2>7. CASE item.type = "for_ip" /\ body = [ip |-> body.ip]
    <3>1. DOMAIN body = {"ip"} /\ request.mode = "ip"
      BY <2>3, <2>7 DEF FsspModes
    <3>. QED BY <2>5, <3>1
  <2>8. CASE item.type = "for_doc_id" /\ body = [doc_id |-> body.doc_id]
    <3>1. DOMAIN body = {"doc_id"} /\ request.mode = "doc_id"
      BY <2>3, <2>8 DEF FsspModes
    <3>. QED BY <2>5, <3>1
  <2>. QED BY <2>1, <2>4, <2>6, <2>7, <2>8
<1>. HIDE DEF request, body
<1>. QED BY <1>1, <1>2 DEF CarriesTheItem, request, body

-----------------------------------------------------------------------------
(* The import, row by row.                                                 *)

\* The filled cells above a row, of the columns that give items.
FilledAbove(module, file, n) ==
  {cell \in (1..(n - 1)) \X SubjectHeaders(module) : CellText(file, cell[1], cell[2]) # ""}

\* What the items are when the rows above n are parsed.
Imported(items, module, file, n) ==
  /\ IsSequence(items)
  /\ \A k \in DOMAIN items :
       /\ items[k].sourceRow \in 2..n /\ IsItem(module, items[k])
       /\ HasDayOf(items[k].body, file, items[k].sourceRow - 1)
  /\ \A j, k \in DOMAIN items : j < k => items[j].sourceRow <= items[k].sourceRow
  /\ IsFiniteSet(FilledAbove(module, file, n))
  /\ Len(items) = Cardinality(FilledAbove(module, file, n))
  /\ \A cell \in FilledAbove(module, file, n) : \E k \in DOMAIN items :
       items[k].sourceRow = cell[1] + 1 /\ Shows(items[k].body, file, cell[1], cell[2])

\* Nothing is above the first row.
LEMMA ImportStart ==
  ASSUME NEW module, NEW file
  PROVE  Imported(<<>>, module, file, 1)
<1>1. FilledAbove(module, file, 1) = {}
  BY DEF FilledAbove
<1>2. IsSequence(<<>>) /\ DOMAIN <<>> = {} /\ Len(<<>>) = 0
  BY DEF IsSequence
<1>3. IsFiniteSet({}) /\ Cardinality({}) = 0
  BY FS_EmptySet
<1>. QED BY <1>1, <1>2, <1>3, Zenon DEF Imported

\* The cells above a row are those of the rows above.
LEMMA AboveCells ==
  ASSUME NEW module, NEW file
  PROVE  \A n \in Nat \ {0} : \A cell : cell \in FilledAbove(module, file, n) <=>
           /\ cell = <<cell[1], cell[2]>> /\ cell[1] \in 1..(n - 1)
           /\ cell[2] \in FilledCells(module, file, cell[1])
<1>. TAKE n \in Nat \ {0}
<1>. TAKE cell
<1>1. cell \in FilledAbove(module, file, n) <=>
        /\ cell \in (1..(n - 1)) \X SubjectHeaders(module)
        /\ CellText(file, cell[1], cell[2]) # ""
  BY DEF FilledAbove
<1>2. cell \in (1..(n - 1)) \X SubjectHeaders(module) <=>
        /\ cell = <<cell[1], cell[2]>> /\ cell[1] \in 1..(n - 1)
        /\ cell[2] \in SubjectHeaders(module)
  OBVIOUS
<1>. QED BY <1>1, <1>2 DEF FilledCells

\* A row adds its filled cells to the ones above.
LEMMA RowAddsItsCells ==
  ASSUME NEW module, NEW file, NEW n \in Nat \ {0},
         IsFiniteSet(FilledAbove(module, file, n)), IsFiniteSet(FilledCells(module, file, n))
  PROVE  /\ IsFiniteSet(FilledAbove(module, file, n + 1))
         /\ Cardinality(FilledAbove(module, file, n + 1)) =
              Cardinality(FilledAbove(module, file, n)) + Cardinality(FilledCells(module, file, n))
         /\ \A cell \in FilledAbove(module, file, n + 1) :
              \/ cell \in FilledAbove(module, file, n)
              \/ cell[1] = n /\ cell[2] \in FilledCells(module, file, n)
<1>. DEFINE above == FilledAbove(module, file, n)
            row == FilledCells(module, file, n)
            pairs == {<<n, header>> : header \in row}
            pair == [header \in row |-> <<n, header>>]
<1>0. \A k \in Nat \ {0} : \A cell : cell \in FilledAbove(module, file, k) <=>
        /\ cell = <<cell[1], cell[2]>> /\ cell[1] \in 1..(k - 1)
        /\ cell[2] \in FilledCells(module, file, cell[1])
  BY AboveCells
<1>. HIDE DEF above, row
<1>1. FilledAbove(module, file, n + 1) = above \cup pairs
  <2>0. n + 1 \in Nat \ {0} /\ n + 1 - 1 = n /\ \A k : k \in 1..n <=> k = n \/ k \in 1..(n - 1)
    OBVIOUS
  <2>1. ASSUME NEW cell \in FilledAbove(module, file, n + 1) PROVE cell \in above \cup pairs
    <3>1. /\ cell = <<cell[1], cell[2]>> /\ cell[1] \in 1..n
          /\ cell[2] \in FilledCells(module, file, cell[1])
      BY <1>0, <2>0
    <3>2. CASE cell[1] = n
      <4>1. cell = <<n, cell[2]>> /\ cell[2] \in row
        BY <3>1, <3>2 DEF row
      <4>. QED BY <4>1
    <3>3. CASE cell[1] # n
      <4>1. cell[1] \in 1..(n - 1)
        BY <2>0, <3>1, <3>3
      <4>. QED BY <1>0, <3>1, <4>1 DEF above
    <3>. QED BY <3>2, <3>3
  <2>2. ASSUME NEW cell \in above PROVE cell \in FilledAbove(module, file, n + 1)
    <3>1. /\ cell = <<cell[1], cell[2]>> /\ cell[1] \in 1..(n - 1)
          /\ cell[2] \in FilledCells(module, file, cell[1])
      BY <1>0 DEF above
    <3>. QED BY <1>0, <2>0, <3>1
  <2>3. ASSUME NEW header \in row PROVE <<n, header>> \in FilledAbove(module, file, n + 1)
    <3>. DEFINE cell == <<n, header>>
    <3>1. /\ cell = <<cell[1], cell[2]>> /\ cell[1] = n
          /\ cell[2] \in FilledCells(module, file, cell[1])
      BY DEF row
    <3>. HIDE DEF cell
    <3>. QED BY <1>0, <2>0, <3>1 DEF cell
  <2>. QED BY <2>1, <2>2, <2>3
<1>2. above \cap pairs = {}
  <2>1. \A cell \in above : cell[1] # n
    BY <1>0 DEF above
  <2>2. \A cell \in pairs : cell[1] = n
    OBVIOUS
  <2>. HIDE DEF pairs
  <2>. QED BY <2>1, <2>2
<1>3. IsFiniteSet(pairs) /\ Cardinality(pairs) = Cardinality(row)
  <2>1. pair \in [row -> pairs] /\ \A h \in row : pair[h] = <<n, h>>
    OBVIOUS
  <2>2. (\A g, h \in row : pair[g] = pair[h] => g = h) /\ \A p \in pairs : \E h \in row : pair[h] = p
    BY <2>1
  <2>. HIDE DEF pair, pairs
  <2>3. pair \in Bijection(row, pairs)
    BY <2>1, <2>2 DEF Bijection, Injection, Surjection, IsInjective
  <2>. QED BY <2>3, FS_Bijection DEF ExistsBijection, row
<1>4. \A cell \in pairs : cell[1] = n /\ cell[2] \in row
  OBVIOUS
<1>. HIDE DEF above, row, pairs
<1>5. /\ IsFiniteSet(above \cup pairs)
      /\ Cardinality(above \cup pairs) = Cardinality(above) + Cardinality(pairs) - Cardinality({})
  BY <1>2, <1>3, FS_Union DEF above
<1>6. Cardinality({}) = 0 /\ Cardinality(above) \in Nat /\ Cardinality(row) \in Nat
  BY FS_EmptySet, FS_CardinalityType DEF above, row
<1>7. Cardinality(above \cup pairs) = Cardinality(above) + Cardinality(row)
  BY <1>3, <1>5, <1>6
<1>8. \A cell \in above \cup pairs : cell \in above \/ (cell[1] = n /\ cell[2] \in row)
  BY <1>4
<1>. QED BY <1>1, <1>5, <1>7, <1>8, Zenon DEF above, row

\* A row that is not refused adds an item for each of its filled cells.
LEMMA ImportRow ==
  ASSUME NEW module \in CheckModules, NEW file \in SheetFiles, NEW n \in Nat \ {0},
         NEW items, Imported(items, module, file, n), ~RowThrows(module, file, n),
         NEW found, found = RowItems(module, file, n),
         NEW new, new = [k \in DOMAIN found |->
                           [sourceRow |-> n + 1, type |-> found[k].type, body |-> found[k].body]]
  PROVE  Imported(items \o new, module, file, n + 1)
<1>. DEFINE cells == FilledCells(module, file, n)
            N == Cardinality(cells)
            u == items \o new
            m == Len(items)
<1>1. IsFiniteSet(cells) /\ N \in Nat /\ ItemsOfRow(found, module, file, n)
  BY RowItemsProperties
<1>2. DOMAIN found = 1..N
  BY <1>1 DEF ItemsOfRow
<1>3. /\ DOMAIN new = 1..N
      /\ \A k \in 1..N : /\ new[k].sourceRow = n + 1 /\ new[k].type = found[k].type
                         /\ new[k].body = found[k].body
  BY <1>2
<1>4. IsSequence(new) /\ Len(new) = N
  <2>1. new = [k \in 1..N |-> new[k]]
    BY <1>2
  <2>. QED BY <1>1, <2>1, SequenceIntro
<1>. HIDE DEF cells, N
<1>5. ASSUME NEW k \in 1..N PROVE IsItem(module, new[k]) /\ HasDayOf(new[k].body, file, n)
  <2>1. new[k].type = found[k].type /\ new[k].body = found[k].body
    BY <1>3
  <2>2. IsItem(module, found[k]) /\ HasDayOf(found[k].body, file, n)
    BY <1>1 DEF ItemsOfRow, cells, N
  <2>3. IsItem(module, new[k])
    BY <2>1, <2>2, Zenon DEF IsItem
  <2>. QED BY <2>1, <2>2, <2>3
<1>6. \A header \in cells : \E k \in 1..N : Shows(new[k].body, file, n, header)
  BY <1>1, <1>3 DEF ItemsOfRow, cells, N
<1>7. IsSequence(items) /\ m \in Nat /\ DOMAIN items = 1..m
  BY SequenceElim DEF Imported
<1>8. /\ IsSequence(u) /\ Len(u) = m + N
      /\ \A k \in 1..m : k \in DOMAIN u /\ u[k] = items[k]
      /\ \A k \in 1..N : m + k \in DOMAIN u /\ u[m + k] = new[k]
      /\ \A k \in DOMAIN u :
           \/ k \in 1..m
           \/ k \notin 1..m /\ k - m \in 1..N /\ k = m + (k - m)
  <2>. HIDE DEF m, u
  <2>1. /\ IsSequence(u) /\ Len(u) = m + Len(new)
        /\ \A k \in DOMAIN items : k \in DOMAIN u /\ u[k] = items[k]
        /\ \A k \in DOMAIN new : m + k \in DOMAIN u /\ u[m + k] = new[k]
        /\ \A k \in DOMAIN u :
             \/ k \in DOMAIN items
             \/ k \notin DOMAIN items /\ k - m \in DOMAIN new /\ k = m + (k - m)
    <3>1. IsSequence(items) /\ IsSequence(new)
      BY <1>4, <1>7
    <3>2. Joins(items, new, u)
      BY <3>1, Joined, Zenon DEF u
    <3>. QED BY <3>2, Zenon DEF Joins, m
  <2>. QED BY <1>3, <1>4, <1>7, <2>1, Zenon
<1>. HIDE DEF u, m
<1>9. DOMAIN u = 1..Len(u)
  BY <1>8, SequenceElim
<1>10. ASSUME NEW k \in DOMAIN u
       PROVE  /\ u[k].sourceRow \in 2..(n + 1) /\ IsItem(module, u[k])
              /\ HasDayOf(u[k].body, file, u[k].sourceRow - 1)
              /\ k \notin 1..m => u[k].sourceRow = n + 1
              /\ k \in 1..m => u[k].sourceRow \in 2..n
  <2>1. CASE k \in 1..m
    <3>1. u[k] = items[k] /\ k \in DOMAIN items
      BY <1>7, <1>8, <2>1
    <3>2. /\ items[k].sourceRow \in 2..n /\ IsItem(module, items[k])
          /\ HasDayOf(items[k].body, file, items[k].sourceRow - 1)
      BY <3>1 DEF Imported
    <3>. QED BY <2>1, <3>1, <3>2
  <2>2. CASE k \notin 1..m
    <3>1. k - m \in 1..N /\ u[k] = new[k - m]
      <4>1. k - m \in 1..N /\ k = m + (k - m)
        BY <1>8, <2>2
      <4>2. u[m + (k - m)] = new[k - m]
        BY <1>8, <4>1
      <4>. QED BY <4>1, <4>2
    <3>2. u[k].sourceRow = n + 1 /\ IsItem(module, u[k]) /\ HasDayOf(u[k].body, file, n)
      BY <1>3, <1>5, <3>1
    <3>3. n + 1 - 1 = n /\ n + 1 \in 2..(n + 1)
      OBVIOUS
    <3>. QED BY <2>2, <3>2, <3>3
  <2>. QED BY <2>1, <2>2
<1>11. ASSUME NEW j \in DOMAIN u, NEW k \in DOMAIN u, j < k
       PROVE  u[j].sourceRow <= u[k].sourceRow
  <2>1. CASE k \in 1..m
    <3>1. j \in 1..m
      BY <1>7, <1>8, <1>9, <1>11, <2>1
    <3>2. u[j] = items[j] /\ u[k] = items[k] /\ j \in DOMAIN items /\ k \in DOMAIN items
      BY <1>7, <1>8, <2>1, <3>1
    <3>. QED BY <1>11, <3>2 DEF Imported
  <2>2. CASE k \notin 1..m
    BY <1>10, <2>2
  <2>. QED BY <2>1, <2>2
<1>12. /\ IsFiniteSet(FilledAbove(module, file, n + 1))
       /\ Len(u) = Cardinality(FilledAbove(module, file, n + 1))
  BY <1>1, <1>8, RowAddsItsCells DEF Imported, cells, N, m
<1>13. ASSUME NEW cell \in FilledAbove(module, file, n + 1)
       PROVE  \E k \in DOMAIN u :
                u[k].sourceRow = cell[1] + 1 /\ Shows(u[k].body, file, cell[1], cell[2])
  <2>1. CASE cell \in FilledAbove(module, file, n)
    <3>1. PICK k \in DOMAIN items :
            items[k].sourceRow = cell[1] + 1 /\ Shows(items[k].body, file, cell[1], cell[2])
      BY <2>1 DEF Imported
    <3>2. k \in DOMAIN u /\ u[k] = items[k]
      BY <1>7, <1>8
    <3>. QED BY <3>1, <3>2
  <2>2. CASE cell[1] = n /\ cell[2] \in cells
    <3>1. PICK k \in 1..N : Shows(new[k].body, file, n, cell[2])
      BY <1>6, <2>2
    <3>2. m + k \in DOMAIN u /\ u[m + k] = new[k] /\ new[k].sourceRow = n + 1
      BY <1>3, <1>8
    <3>. QED BY <2>2, <3>1, <3>2
  <2>3. IsFiniteSet(FilledAbove(module, file, n))
    BY DEF Imported
  <2>. QED BY <1>1, <2>1, <2>2, <2>3, RowAddsItsCells DEF cells
<1>14. Imported(u, module, file, n + 1)
  BY <1>8, <1>10, <1>11, <1>12, <1>13, Zenon DEF Imported
<1>. QED BY <1>14 DEF u

=============================================================================
