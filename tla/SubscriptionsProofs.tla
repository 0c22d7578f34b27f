------------------------ MODULE SubscriptionsProofs ------------------------
(***************************************************************************)
(* Theorems about Subscriptions, for any days, plans, administrators,      *)
(* instances and counters: billing periods leave no gap, the trial's end   *)
(* is mailed once, and a worker tells a threshold of a period once.        *)
(*                                                                         *)
(* The calendar's months are defined by recursion.  They are shown to be   *)
(* what a closed form says: that one satisfies the recursion, so what the  *)
(* recursion defines does, and the least argument at which the two differ  *)
(* would contradict it.                                                    *)
(***************************************************************************)
EXTENDS Subscriptions, FiniteSetTheorems, WellFoundedInduction, TLAPS

-----------------------------------------------------------------------------
(* The calendar *)

(* The days of a year before each of its months, and when a month starts.   *)
DaysBefore == <<0, 31, 59, 90, 120, 151, 181, 212, 243, 273, 304, 334>>
StartOf(m) == 365 * ((m - 1) \div 12) + DaysBefore[((m - 1) % 12) + 1] + 1

LEMMA MonthSplit ==
  ASSUME NEW m \in Nat \ {0}
  PROVE  \E y \in Nat, k \in 0..11 :
           /\ m = 12 * y + k + 1
           /\ (m - 1) \div 12 = y /\ (m - 1) % 12 = k
           /\ StartOf(m) = 365 * y + DaysBefore[k + 1] + 1
<1>1. /\ (m - 1) \div 12 \in Nat /\ (m - 1) % 12 \in 0..11
      /\ m = 12 * ((m - 1) \div 12) + ((m - 1) % 12) + 1
  OBVIOUS
<1> QED BY <1>1 DEF StartOf

LEMMA StartsFollow ==
  ASSUME NEW m \in Nat \ {0}
  PROVE  /\ StartOf(m) \in Nat \ {0}
         /\ StartOf(m + 1) = StartOf(m) + MonthLength(m)
         /\ MonthLength(m) \in 28..31
<1>1. PICK y \in Nat, k \in 0..11 : /\ m = 12 * y + k + 1
                                    /\ (m - 1) \div 12 = y /\ (m - 1) % 12 = k
                                    /\ StartOf(m) = 365 * y + DaysBefore[k + 1] + 1
  BY MonthSplit
<1>2. MonthLength(m) = (IF k + 1 = 2 THEN 28 ELSE IF k + 1 \in {4, 6, 9, 11} THEN 30 ELSE 31)
  BY <1>1 DEF MonthLength
<1>3. m + 1 \in Nat \ {0} /\ (m + 1) - 1 = m
  OBVIOUS
<1>4. CASE k < 11
  <2>1. m \div 12 = y /\ m % 12 = k + 1
    BY <1>1, <1>4
  <2>2. StartOf(m + 1) = 365 * y + DaysBefore[k + 2] + 1
    BY <2>1, <1>3, <1>4 DEF StartOf
  <2> QED BY <1>1, <1>2, <1>4, <2>2 DEF DaysBefore
<1>5. CASE k = 11
  <2>1. m \div 12 = y + 1 /\ m % 12 = 0
    BY <1>1, <1>5
  <2>2. StartOf(m + 1) = 365 * (y + 1) + DaysBefore[1] + 1
    BY <2>1, <1>3 DEF StartOf
  <2> QED BY <1>1, <1>2, <1>5, <2>2 DEF DaysBefore
<1> QED BY <1>1, <1>4, <1>5

(* A finite set of numbers, one at least, has a greatest.                   *)
LEMMA GreatestExists ==
  ASSUME NEW S \in SUBSET Nat, IsFiniteSet(S), S # {}
  PROVE  Max(S) \in S /\ \A d \in S : d <= Max(S)
<1> DEFINE Bad == {t \in SUBSET S : t # {} /\ ~ \E x \in t : \A y \in t : x >= y}
<1>1. SUFFICES ASSUME Bad # {} PROVE FALSE
  <2>1. SUFFICES \E x \in S : \A y \in S : x >= y
    BY DEF Max
  <2> QED BY <1>1
<1>2. IsWellFoundedOn(StrictSubsetOrdering(S), SUBSET S)
  BY FS_StrictSubsetOrderingWellFounded, FS_FiniteSubsetsOfFinite
<1>3. PICK t \in Bad : \A r \in Bad : <<r, t>> \notin StrictSubsetOrdering(S)
  <2>1. Bad \subseteq SUBSET S
    OBVIOUS
  <2> HIDE DEF Bad
  <2> QED BY <1>1, <1>2, <2>1, WFMin
<1>4. PICK x \in t : TRUE
  BY <1>3
<1>5. t \ {x} \notin Bad
  BY <1>3, <1>4 DEF StrictSubsetOrdering
<1>6. CASE t \ {x} = {}
  BY <1>4, <1>6
<1>7. CASE t \ {x} # {}
  <2>1. PICK z \in t \ {x} : \A y \in t \ {x} : z >= y
    BY <1>5, <1>7
  <2>2. x >= z \/ z >= x
    BY <1>3
  <2> QED BY <1>3, <2>1, <2>2
<1> QED BY <1>6, <1>7

LEMMA LeastExists ==
  ASSUME NEW S \in SUBSET Nat, S # {}
  PROVE  \E x \in S : \A y \in S : x <= y
<1> DEFINE less == {ss \in Nat \X Nat : ss[1] < ss[2]}
<1>1. IsWellFoundedOn(less, Nat)
  BY NatLessThanWellFounded DEF OpToRel
<1>2. PICK x \in S : \A y \in S : <<y, x>> \notin less
  <2> HIDE DEF less
  <2> QED BY <1>1, WFMin
<1>3. ASSUME NEW y \in S PROVE x <= y
  <2>1. x \in Nat /\ y \in Nat /\ <<y, x>> \notin less
    BY <1>2
  <2>2. <<y, x>> \in Nat \X Nat /\ <<y, x>>[1] = y /\ <<y, x>>[2] = x
    BY <2>1
  <2>3. ~ (y < x)
    BY <2>1, <2>2
  <2> QED BY <2>1, <2>3
<1> QED BY <1>3

LEMMA DaysEnd == LastDay \in Days /\ \A d \in Days : d \in 1..LastDay
<1>1. Days \in SUBSET Nat /\ IsFiniteSet(Days) /\ Days # {} /\ \A d \in Days : d >= 1
  <2>1. Days \in SUBSET Nat /\ \A d \in Days : d \in Nat /\ d # 0
    BY CalendarAssumption
  <2>2. IsFiniteSet(Days) /\ Days # {}
    BY CalendarAssumption
  <2>3. \A d \in Days : d >= 1
    BY <2>1
  <2> QED BY <2>1, <2>2, <2>3
<1>2. LastDay \in Days /\ \A d \in Days : d <= LastDay
  BY <1>1, GreatestExists DEF LastDay
<1> QED BY <1>1, <1>2

(* Not a day but has one after it, if one is later.                         *)
LEMMA NextDayExists ==
  ASSUME NEW n \in Nat, n < LastDay
  PROVE  Min({d \in Days : d > n}) \in {d \in Days : d > n}
<1> DEFINE later == {d \in Days : d > n}
<1>1. LastDay \in later /\ later \subseteq Nat
  BY DaysEnd, CalendarAssumption
<1>2. \E x \in later : \A y \in later : x <= y
  <2> HIDE DEF later
  <2> QED BY <1>1, LeastExists
<1> QED BY <1>2 DEF Min

LEMMA HorizonType == Horizon \in Nat /\ Horizon = LastDay \div 28 + 26 /\ LastDay \in Nat \ {0}
BY DaysEnd, CalendarAssumption DEF Horizon

LEMMA MonthStartIs == \A m \in 1..Horizon : MonthStart[m] = StartOf(m)
<1> DEFINE Follows(h) == h = [m \in 1..Horizon |->
                                IF m = 1 THEN 1 ELSE h[m - 1] + MonthLength(m - 1)]
           starts == [m \in 1..Horizon |-> StartOf(m)]
           Bad == {m \in 1..Horizon : MonthStart[m] # StartOf(m)}
<1>1. StartOf(1) = 1
  BY DEF StartOf, DaysBefore
<1>2. \A m \in 1..Horizon : m # 1 =>
        m - 1 \in 1..Horizon /\ StartOf(m) = StartOf(m - 1) + MonthLength(m - 1)
  <2> SUFFICES ASSUME NEW m \in 1..Horizon, m # 1
               PROVE  m - 1 \in 1..Horizon /\ StartOf(m) = StartOf(m - 1) + MonthLength(m - 1)
    OBVIOUS
  <2>1. m - 1 \in Nat \ {0} /\ m - 1 \in 1..Horizon /\ (m - 1) + 1 = m
    BY HorizonType
  <2> QED BY <2>1, StartsFollow
<1>3. Follows(starts)
  BY <1>1, <1>2
<1>4. Follows(MonthStart)
  <2>1. MonthStart = CHOOSE h : Follows(h)
    BY DEF MonthStart
  <2> HIDE DEF Follows
  <2> QED BY <1>3, <2>1
<1>5. SUFFICES ASSUME Bad # {} PROVE FALSE
  OBVIOUS
<1>6. PICK m \in Bad : \A k \in Bad : m <= k
  <2>1. Bad \subseteq Nat
    BY HorizonType
  <2> HIDE DEF Bad
  <2> QED BY <1>5, <2>1, LeastExists
<1>7. MonthStart[m] = IF m = 1 THEN 1 ELSE MonthStart[m - 1] + MonthLength(m - 1)
  <2> HIDE DEF MonthStart
  <2> QED BY <1>4
<1>8. m # 1
  BY <1>1, <1>7
<1>9. m - 1 \notin Bad
  BY <1>6, HorizonType
<1> QED BY <1>2, <1>7, <1>8, <1>9

(* Months are not shorter than four weeks, and follow each other.           *)
LEMMA StartsAscend ==
  ASSUME NEW m \in Nat \ {0}
  PROVE  /\ StartOf(m) >= 28 * (m - 1) + 1
         /\ StartOf(m + 1) > StartOf(m)
         /\ \A n \in Nat : StartOf(m + n) >= StartOf(m)
<1>1. PICK y \in Nat, k \in 0..11 : /\ m = 12 * y + k + 1
                                    /\ StartOf(m) = 365 * y + DaysBefore[k + 1] + 1
  BY MonthSplit
<1>2. StartOf(m) >= 28 * (m - 1) + 1
  BY <1>1 DEF DaysBefore
<1>3. ASSUME NEW n \in Nat PROVE StartOf(m + n) >= StartOf(m)
  <2>1. m + n \in Nat \ {0}
    OBVIOUS
  <2>2. PICK z \in Nat, j \in 0..11 : /\ m + n = 12 * z + j + 1
                                      /\ StartOf(m + n) = 365 * z + DaysBefore[j + 1] + 1
    BY <2>1, MonthSplit
  <2>3. CASE z = y
    <3>1. j >= k
      BY <1>1, <2>2, <2>3
    <3>2. DaysBefore[j + 1] >= DaysBefore[k + 1]
      BY <3>1 DEF DaysBefore
    <3>3. DaysBefore[j + 1] \in Nat /\ DaysBefore[k + 1] \in Nat
      BY DEF DaysBefore
    <3> QED BY <1>1, <2>2, <2>3, <3>2, <3>3
  <2>4. CASE z > y
    <3>1. DaysBefore[j + 1] \in 0..334 /\ DaysBefore[k + 1] \in 0..334
      BY DEF DaysBefore
    <3>2. 365 * z >= 365 * y + 365
      BY <2>4
    <3> DEFINE a == DaysBefore[j + 1]
               b == DaysBefore[k + 1]
    <3>3. a \in 0..334 /\ b \in 0..334 /\ StartOf(m + n) = 365 * z + a + 1
          /\ StartOf(m) = 365 * y + b + 1
      BY <1>1, <2>2, <3>1
    <3> HIDE DEF a, b
    <3> QED BY <3>2, <3>3
  <2>5. ~ (z < y)
    BY <1>1, <2>2
  <2> QED BY <2>3, <2>4, <2>5
<1>4. StartOf(m + 1) > StartOf(m)
  BY StartsFollow
<1> QED BY <1>2, <1>3, <1>4

LEMMA MonthExists ==
  ASSUME NEW d \in 1..LastDay
  PROVE  /\ MonthOf(d) \in 1..(Horizon - 13)
         /\ StartOf(MonthOf(d)) <= d /\ d < StartOf(MonthOf(d) + 1)
<1> DEFINE y == (d - 1) \div 365
           r == (d - 1) % 365
<1>1. d \in Nat \ {0} /\ y \in Nat /\ r \in 0..364 /\ d = 365 * y + r + 1
  BY HorizonType
<1>2. PICK k \in 0..11 : DaysBefore[k + 1] <= r /\ r < DaysBefore[k + 1] + MonthLength(12 * y + k + 1)
  <2>1. \A k \in 0..11 : ((12 * y + k + 1) - 1) % 12 = k
    BY <1>1
  <2>2. \A k \in 0..11 : MonthLength(12 * y + k + 1) =
          IF k + 1 = 2 THEN 28 ELSE IF k + 1 \in {4, 6, 9, 11} THEN 30 ELSE 31
    BY <2>1 DEF MonthLength
  <2> HIDE DEF r, y
  <2>3. \E k \in 0..11 : DaysBefore[k + 1] <= r /\ r < DaysBefore[k + 1]
            + (IF k + 1 = 2 THEN 28 ELSE IF k + 1 \in {4, 6, 9, 11} THEN 30 ELSE 31)
    <3>1. \/ r \in 0..30 \/ r \in 31..58 \/ r \in 59..89 \/ r \in 90..119
          \/ r \in 120..150 \/ r \in 151..180 \/ r \in 181..211 \/ r \in 212..242
          \/ r \in 243..272 \/ r \in 273..303 \/ r \in 304..333 \/ r \in 334..364
      BY <1>1
    <3> QED BY <3>1 DEF DaysBefore
  <2> QED BY <2>2, <2>3
<1> DEFINE m == 12 * y + k + 1
<1>3. m \in Nat \ {0} /\ StartOf(m) = 365 * y + DaysBefore[k + 1] + 1
  <2>1. m \in Nat \ {0} /\ (m - 1) \div 12 = y /\ (m - 1) % 12 = k
    BY <1>1
  <2> QED BY <2>1 DEF StartOf
<1>4. StartOf(m) <= d /\ d < StartOf(m + 1)
  <2>1. StartOf(m + 1) = StartOf(m) + MonthLength(m) /\ MonthLength(m) \in Nat
    BY <1>3, StartsFollow
  <2>2. DaysBefore[k + 1] \in Nat
    BY DEF DaysBefore
  <2> HIDE DEF y, r
  <2> QED BY <1>1, <1>2, <1>3, <2>1, <2>2
<1>5. ASSUME NEW n \in Nat \ {0}, StartOf(n) <= d PROVE n \in 1..(Horizon - 13)
  <2>1. StartOf(n) \in Nat /\ 28 * (n - 1) + 1 <= StartOf(n)
    BY StartsFollow, StartsAscend
  <2>2. 28 * (n - 1) + 1 <= LastDay
    BY <1>1, <1>5, <2>1, HorizonType
  <2>3. n - 1 <= LastDay \div 28
    BY <2>2, HorizonType
  <2> QED BY <2>3, HorizonType
<1> DEFINE good(n) == MonthStart[n] <= d /\ d < MonthStart[n + 1]
<1>6. \A n \in 1..(Horizon - 1) : MonthStart[n] = StartOf(n) /\ MonthStart[n + 1] = StartOf(n + 1)
  BY MonthStartIs, HorizonType
<1>7. m \in 1..(Horizon - 1) /\ good(m)
  <2> HIDE DEF m
  <2>1. m \in 1..(Horizon - 13)
    BY <1>3, <1>4, <1>5
  <2> QED BY <1>4, <1>6, <2>1, HorizonType
<1>8. MonthOf(d) \in 1..(Horizon - 1) /\ good(MonthOf(d))
  <2>1. MonthOf(d) = CHOOSE n \in 1..(Horizon - 1) : good(n)
    BY DEF MonthOf
  <2> HIDE DEF good, m
  <2> QED BY <1>7, <2>1
<1> QED BY <1>5, <1>6, <1>8, HorizonType

(* A billing cycle ends on a later day.                                     *)
LEMMA CycleIsLater ==
  ASSUME NEW d \in 1..LastDay, NEW c \in DOMAIN Months
  PROVE  AddBillingCycle(d, c) \in Nat /\ AddBillingCycle(d, c) > d
<1> DEFINE m == MonthOf(d)
           n == m + Months[c]
<1>1. Months[c] \in 1..12
  BY DEF Months
<1>2. /\ m \in 1..(Horizon - 13) /\ StartOf(m) <= d /\ d < StartOf(m + 1)
  BY MonthExists
<1> HIDE DEF m
<1>3. m \in 1..Horizon /\ n \in 1..Horizon /\ m \in Nat \ {0}
  BY <1>1, <1>2, HorizonType
<1>4. MonthStart[m] = StartOf(m) /\ MonthStart[n] = StartOf(n)
  BY <1>3, MonthStartIs
<1>5. StartOf(n) >= StartOf(m + 1)
  <2>1. m + 1 \in Nat \ {0} /\ Months[c] - 1 \in Nat /\ (m + 1) + (Months[c] - 1) = n
    BY <1>1, <1>3
  <2> QED BY <2>1, StartsAscend
<1>6. StartOf(n) \in Nat /\ StartOf(m) \in Nat /\ StartOf(m + 1) \in Nat
  <2>1. n \in Nat \ {0} /\ m + 1 \in Nat \ {0}
    BY <1>1, <1>3
  <2> QED BY <1>3, <2>1, StartsFollow
<1>7. AddBillingCycle(d, c) = StartOf(n) + (d - StartOf(m) + 1) - 1
  BY <1>4 DEF AddBillingCycle, DayOf, m
<1> QED BY <1>2, <1>5, <1>6, <1>7

-----------------------------------------------------------------------------
(* The invariant *)

Tables ==
  /\ today \in Days
  /\ usage \in [DOMAIN usage -> Usage]

(* An active subscription has a period with days in it.  Runs of the        *)
(* rollover that have yet to write hold the same period's end, and the row  *)
(* has reached it.                                                          *)
Periods ==
  /\ subscription.status = "ACTIVE" => subscription.periodStart < subscription.periodEnd
  /\ \A s \in Schedulers : rollover[s].at = "write" =>
       /\ subscription.status = "ACTIVE"
       /\ rollover[s].read.periodEnd \in 1..today
       /\ rollover[s].read.periodEnd <= subscription.periodEnd
  /\ \A s, q \in Schedulers : rollover[s].at = "write" /\ rollover[q].at = "write" =>
       rollover[s].read.periodEnd = rollover[q].read.periodEnd

(* A threshold that a worker mailed is marked, or the worker is about to    *)
(* mark it, or it failed to.  What is mailed has its row.                   *)
Marks ==
  /\ \A w \in Counters : counter[w].at \in {"mail", "mark"} => counter[w].period \in DOMAIN usage
  /\ \A w \in Counters : \A t \in told[w] :
       \/ t[1] \in DOMAIN usage /\ t[2] \in usage[t[1]].notified
       \/ counter[w].at = "mark" /\ Threshold(w) = t
       \/ t \in undone
  /\ ThresholdToldOnce

Inv == TypeOK /\ Tables /\ Periods /\ TrialEndMailedOnce /\ Marks

LEMMA MarksFrame ==
  ASSUME Marks, UNCHANGED <<usage, counter, told, undone>>
  PROVE  Marks'
BY DEF Marks, ThresholdToldOnce, Threshold

LEMMA TrialFrame ==
  ASSUME TrialEndMailedOnce, UNCHANGED <<closer, trialMails>>, spent'.lost = spent.lost,
         subscription'.trialEnded = subscription.trialEnded
  PROVE  TrialEndMailedOnce'
BY DEF TrialEndMailedOnce, Mailing

LEMMA TodayIsDay == Tables => today \in 1..LastDay /\ today \in Nat
BY DaysEnd DEF Tables

LEMMA InitInv == Init => Inv
<1> SUFFICES ASSUME Init PROVE Inv
  OBVIOUS
<1>1. PICK d \in RegisteredOn, s \in {"PENDING_TRIAL", "TRIALING"} :
        today = d /\ subscription = Registered(d, s)
  BY DEF Init
<1>2. d \in Days /\ d \in Nat /\ TrialDays \in Nat
  BY CalendarAssumption, CatalogAssumption
<1>3. Registered(d, s) \in Subscription /\ NoRow \in Subscription
  BY <1>2 DEF Registered, Subscription, Statuses, NoRow, Plans, Months, NoPlan, NoCycle
<1>4. TypeOK
  BY <1>1, <1>2, <1>3 DEF Init, TypeOK, Registered, Admin, Reader, Closer, Counter, IdleAdmin,
    IdleReader, IdleCounter, ForChange, ForRollover, Statuses, NoRow, Plans, Months, Percentages,
    NoPlan, NoCycle
<1>5. Tables
  BY <1>1, <1>2 DEF Init, Tables
<1>6. Periods
  BY <1>1 DEF Init, Periods, Registered, IdleReader
<1>7. TrialEndMailedOnce
  BY <1>1 DEF Init, TrialEndMailedOnce, Mailing, Registered
<1>8. Marks
  BY DEF Init, Marks, ThresholdToldOnce, IdleCounter
<1> QED BY <1>4, <1>5, <1>6, <1>7, <1>8 DEF Inv

-----------------------------------------------------------------------------
(* The rows that are written *)

Paired(row) == row.pendingPlan = NoPlan <=> row.pendingCycle = NoCycle

LEMMA UpgradeWrites ==
  ASSUME Inv, NEW a \in Admins
  PROVE  /\ Upgraded(a) \in Subscription /\ Paired(Upgraded(a))
         /\ Upgraded(a).trialEnded = subscription.trialEnded
         /\ IsLeavingTrial(a) =>
              /\ Upgraded(a).status = "ACTIVE" /\ Upgraded(a).periodStart = today
              /\ Upgraded(a).periodEnd > today
         /\ ~IsLeavingTrial(a) =>
              /\ Upgraded(a).status = subscription.status
              /\ Upgraded(a).periodStart = subscription.periodStart
              /\ Upgraded(a).periodEnd = subscription.periodEnd
<1>1. admin[a].toPlan \in Plans /\ admin[a].toCycle \in DOMAIN Months /\ subscription \in Subscription
  BY DEF Inv, TypeOK, Admin
<1>2. today \in 1..LastDay /\ today \in Nat
  BY TodayIsDay DEF Inv
<1> DEFINE end == AddBillingCycle(today, admin[a].toCycle)
<1>3. end \in Nat /\ end > today
  BY <1>1, <1>2, CycleIsLater
<1> HIDE DEF end
<1> DEFINE changed == [subscription EXCEPT
             !.plan = admin[a].toPlan, !.cycle = admin[a].toCycle,
             !.pendingPlan = NoPlan, !.pendingCycle = NoCycle]
<1>4. /\ changed \in Subscription /\ Paired(changed)
      /\ changed.trialEnded = subscription.trialEnded /\ changed.status = subscription.status
      /\ changed.periodStart = subscription.periodStart
      /\ changed.periodEnd = subscription.periodEnd
  BY <1>1 DEF Subscription, Paired
<1>5. Upgraded(a) = IF IsLeavingTrial(a)
                    THEN [changed EXCEPT !.status = "ACTIVE", !.periodStart = today, !.periodEnd = end]
                    ELSE changed
  BY DEF Upgraded, end
<1> HIDE DEF changed
<1>6. CASE IsLeavingTrial(a)
  <2>1. Upgraded(a) = [changed EXCEPT !.status = "ACTIVE", !.periodStart = today, !.periodEnd = end]
    BY <1>5, <1>6
  <2> QED BY <1>2, <1>3, <1>4, <1>6, <2>1 DEF Subscription, Statuses, Paired
<1>7. CASE ~IsLeavingTrial(a)
  BY <1>4, <1>5, <1>7
<1> QED BY <1>6, <1>7

LEMMA DeferralWrites ==
  ASSUME Inv, NEW a \in Admins
  PROVE  /\ Deferred(a) \in Subscription /\ Paired(Deferred(a))
         /\ Deferred(a).trialEnded = subscription.trialEnded
         /\ Deferred(a).status = subscription.status
         /\ Deferred(a).periodStart = subscription.periodStart
         /\ Deferred(a).periodEnd = subscription.periodEnd
<1>1. admin[a].toPlan \in Plans /\ admin[a].toCycle \in DOMAIN Months /\ subscription \in Subscription
  BY DEF Inv, TypeOK, Admin
<1>2. NoPlan \notin Plans /\ NoCycle \notin DOMAIN Months
  BY DEF NoPlan, NoCycle, Plans, Months
<1> QED BY <1>1, <1>2 DEF Deferred, Subscription, Paired

LEMMA RolloverWrites ==
  ASSUME Inv, NEW s \in Schedulers, rollover[s].at = "write"
  PROVE  LET row == RolledOver(rollover[s].read)
         IN  /\ row \in Subscription /\ Paired(row)
             /\ row.trialEnded = subscription.trialEnded /\ row.status = subscription.status
             /\ row.periodStart = rollover[s].read.periodEnd
             /\ row.periodEnd > rollover[s].read.periodEnd
<1> DEFINE read == rollover[s].read
           end == AddBillingCycle(NextStart(read), NextCycle(read))
<1>1. /\ subscription \in Subscription /\ Paired(subscription)
      /\ read \in [cycle : DOMAIN Months, periodEnd : Nat, pendingPlan : Plans \cup {NoPlan},
                   pendingCycle : DOMAIN Months \cup {NoCycle}]
  BY DEF Inv, TypeOK, Reader, Paired
<1>2. read.periodEnd \in 1..LastDay /\ read.periodEnd \in Nat
  <2>1. today \in 1..LastDay /\ today \in Nat /\ LastDay \in Nat /\ read.periodEnd \in 1..today
    BY TodayIsDay, HorizonType DEF Inv, Periods
  <2> HIDE DEF read
  <2> QED BY <2>1
<1>3. NextCycle(read) \in DOMAIN Months
  BY <1>1 DEF NextCycle
<1>4. end \in Nat /\ end > read.periodEnd
  BY <1>2, <1>3, CycleIsLater DEF NextStart
<1> HIDE DEF end
<1> DEFINE opened == [subscription EXCEPT !.periodStart = NextStart(read), !.periodEnd = end]
<1>5. /\ opened \in Subscription /\ Paired(opened)
      /\ opened.trialEnded = subscription.trialEnded /\ opened.status = subscription.status
      /\ opened.periodStart = read.periodEnd /\ opened.periodEnd = end
  BY <1>1, <1>2, <1>4 DEF Subscription, Paired, NextStart
<1>6. RolledOver(read) = IF read.pendingPlan = NoPlan THEN opened
        ELSE [opened EXCEPT !.plan = read.pendingPlan, !.cycle = NextCycle(read),
                            !.pendingPlan = NoPlan, !.pendingCycle = NoCycle]
  BY DEF RolledOver, end
<1>7. read.pendingPlan # NoPlan => read.pendingPlan \in Plans
  BY <1>1
<1> HIDE DEF read, opened
<1>8. /\ RolledOver(read) \in Subscription /\ Paired(RolledOver(read))
      /\ RolledOver(read).trialEnded = opened.trialEnded
      /\ RolledOver(read).status = opened.status
      /\ RolledOver(read).periodStart = opened.periodStart
      /\ RolledOver(read).periodEnd = opened.periodEnd
  <2>1. CASE read.pendingPlan = NoPlan
    BY <1>5, <1>6, <2>1
  <2>2. CASE read.pendingPlan # NoPlan
    <3>1. RolledOver(read) = [opened EXCEPT !.plan = read.pendingPlan, !.cycle = NextCycle(read),
                                            !.pendingPlan = NoPlan, !.pendingCycle = NoCycle]
      BY <1>6, <2>2
    <3> QED BY <1>3, <1>5, <1>7, <2>2, <3>1 DEF Subscription, Paired
  <2> QED BY <2>1, <2>2
<1> QED BY <1>4, <1>5, <1>8 DEF read

-----------------------------------------------------------------------------
(* The steps *)

LEMMA IdleReaderType == IdleReader \in Reader
BY DEF IdleReader, Reader, ForRollover, NoRow, Registered, Plans, Months, NoPlan, NoCycle

LEMMA ChangeStep ==
  ASSUME Inv, NEW a \in Admins, Confirm(a)
  PROVE  Inv'
<1>1. ASSUME NEW plan \in Offered, NEW cycle \in Cycles, ReadForChange(a, plan, cycle)
      PROVE  Inv'
  <2>1. plan \in Plans /\ cycle \in DOMAIN Months
    BY CatalogAssumption
  <2>2. TypeOK'
    BY <1>1, <2>1 DEF Inv, TypeOK, ReadForChange, Admin, ForChange, Subscription
  <2>3. TrialEndMailedOnce'
    BY <1>1, TrialFrame DEF Inv, TypeOK, ReadForChange
  <2> QED BY <1>1, <2>2, <2>3, MarksFrame DEF Inv, ReadForChange, Tables, Periods
<1>2. CASE CommitChange(a)
  <2>1. /\ subscription' \in Subscription /\ Paired(subscription')
        /\ subscription'.trialEnded = subscription.trialEnded
        /\ \/ /\ subscription'.status = "ACTIVE" /\ subscription'.periodStart = today
              /\ subscription'.periodEnd > today
           \/ /\ subscription'.status = subscription.status
              /\ subscription'.periodStart = subscription.periodStart
              /\ subscription'.periodEnd = subscription.periodEnd
    BY <1>2, UpgradeWrites, DeferralWrites DEF CommitChange
  <2>2. IdleAdmin \in Admin
    BY DEF IdleAdmin, Admin, ForChange, NoRow, Registered, Statuses, Plans, Months
  <2>3. TypeOK'
    BY <1>2, <2>1, <2>2 DEF Inv, TypeOK, CommitChange, Paired
  <2>4. Tables' /\ TrialEndMailedOnce' /\ Marks'
    BY <1>2, <2>1, MarksFrame, TrialFrame DEF Inv, CommitChange, Tables
  <2>5. today \in Nat /\ subscription'.periodEnd \in Nat /\ subscription.periodEnd \in Nat
    BY <2>1, TodayIsDay DEF Inv, Subscription, TypeOK
  <2>6. Periods'
    BY <1>2, <2>1, <2>5 DEF Inv, CommitChange, Periods
  <2> QED BY <2>3, <2>4, <2>6 DEF Inv
<1> QED BY <1>1, <1>2 DEF Confirm

LEMMA RolloverInv ==
  ASSUME Inv, NEW s \in Schedulers, RolloverStep(s)
  PROVE  Inv'
<1>1. CASE ReadDue(s)
  <2>1. TypeOK'
    BY <1>1 DEF Inv, TypeOK, ReadDue, Reader, ForRollover, Subscription
  <2>2. rollover' = [rollover EXCEPT ![s] = [at |-> "write", read |-> ForRollover(subscription)]]
        /\ ForRollover(subscription).periodEnd = subscription.periodEnd
        /\ DOMAIN rollover = Schedulers /\ subscription' = subscription /\ today' = today
    BY <1>1 DEF ReadDue, Inv, TypeOK, ForRollover
  <2>3. /\ subscription.status = "ACTIVE" /\ subscription.periodEnd <= today
        /\ subscription.periodStart \in Nat /\ subscription.periodEnd \in Nat /\ today \in Nat
        /\ subscription.periodStart < subscription.periodEnd
    BY <1>1, TodayIsDay DEF Inv, TypeOK, ReadDue, IsDue, Subscription, Periods
  <2>4. \A q \in Schedulers : rollover[q].at = "write" =>
          rollover[q].read.periodEnd = subscription.periodEnd
    BY <1>1 DEF ReadDue, PeriodIsWritten
  <2>5. \A q \in Schedulers : rollover'[q].at = "write" =>
          rollover'[q].read.periodEnd = subscription.periodEnd
    BY <2>2, <2>4
  <2>6. Periods'
    BY <2>2, <2>3, <2>5 DEF Periods
  <2> QED BY <1>1, <2>1, <2>6, MarksFrame, TrialFrame DEF Inv, ReadDue, Tables
<1>2. CASE WriteRollover(s)
  <2>1. /\ subscription' \in Subscription /\ Paired(subscription')
        /\ subscription'.trialEnded = subscription.trialEnded
        /\ subscription'.status = subscription.status
        /\ subscription'.periodStart = rollover[s].read.periodEnd
        /\ subscription'.periodEnd > rollover[s].read.periodEnd
    BY <1>2, RolloverWrites DEF WriteRollover
  <2>3. TypeOK'
    BY <1>2, <2>1, IdleReaderType DEF Inv, TypeOK, WriteRollover, Paired
  <2>4. Tables' /\ TrialEndMailedOnce' /\ Marks'
    BY <1>2, <2>1, MarksFrame, TrialFrame DEF Inv, WriteRollover, Tables
  <2>5. rollover[s].at = "write" /\ rollover[s].read.periodEnd \in Nat
    BY <1>2 DEF Inv, TypeOK, WriteRollover, Reader
  <2>6. \A q \in Schedulers : rollover'[q].at = "write" =>
          q # s /\ rollover'[q] = rollover[q]
    BY <1>2 DEF WriteRollover, IdleReader, Inv, TypeOK
  <2>7. subscription'.periodEnd \in Nat /\ today' = today
    BY <1>2, <2>1 DEF WriteRollover, Subscription
  <2>8. \A q \in Schedulers : rollover'[q].at = "write" =>
          rollover[q].at = "write" /\ rollover'[q].read.periodEnd = rollover[s].read.periodEnd
    BY <2>5, <2>6 DEF Inv, Periods
  <2>9. Periods'
    BY <2>1, <2>5, <2>6, <2>7, <2>8 DEF Inv, Periods
  <2> QED BY <2>3, <2>4, <2>9 DEF Inv
<1> QED BY <1>1, <1>2 DEF RolloverStep

(* The instance whose conditional write closes the trial is the only one    *)
(* that goes on to mail it.                                                 *)
LEMMA TrialInv ==
  ASSUME Inv, NEW s \in Schedulers, TrialStep(s) \/ CloserStops(s) \/ TrialMailLost(s)
  PROVE  Inv'
<1>1. /\ closer \in [Schedulers -> Closer] /\ subscription \in Subscription
      /\ Paired(subscription) /\ trialMails \in Nat
      /\ spent \in [changes : Nat, counts : Nat, mails : Nat, lost : Nat]
  BY DEF Inv, TypeOK, Paired
<1>2. CASE \/ ReadExpired(s) \/ CloserStops(s)
           \/ CloseTrial(s) /\ ~StillOver(s)
  <2>1. /\ \/ closer' = [closer EXCEPT ![s] = "write"] \/ closer' = [closer EXCEPT ![s] = "idle"]
        /\ closer[s] # "mail"
        /\ UNCHANGED <<today, subscription, usage, rollover, counter, admin, trialMails, told,
                       undone, spent>>
    BY <1>2 DEF ReadExpired, CloserStops, CloseTrial
  <2>2. TypeOK'
    BY <2>1 DEF Inv, TypeOK, Closer
  <2>3. Mailing' = Mailing
    BY <1>1, <2>1 DEF Mailing
  <2>4. TrialEndMailedOnce'
    BY <2>1, <2>3 DEF Inv, TrialEndMailedOnce
  <2> QED BY <2>1, <2>2, <2>4, MarksFrame DEF Inv, Tables, Periods
<1>3. CASE CloseTrial(s) /\ StillOver(s)
  <2>1. /\ subscription' = [subscription EXCEPT !.trialEnded = TRUE]
        /\ ~subscription.trialEnded
        /\ closer' = [closer EXCEPT ![s] = "mail"]
        /\ UNCHANGED <<today, usage, rollover, counter, admin, trialMails, told, undone, spent>>
    BY <1>3 DEF CloseTrial, StillOver, TrialIsOver
  <2>2. /\ subscription' \in Subscription /\ Paired(subscription') /\ subscription'.trialEnded
        /\ subscription'.status = subscription.status
        /\ subscription'.periodStart = subscription.periodStart
        /\ subscription'.periodEnd = subscription.periodEnd
    BY <1>1, <2>1 DEF Subscription, Paired
  <2>3. TypeOK'
    BY <2>1, <2>2 DEF Inv, TypeOK, Paired, Closer
  <2>4. Mailing = {} /\ trialMails + spent.lost = 0
    BY <2>1 DEF Inv, TrialEndMailedOnce
  <2>5. Mailing' = {s}
    BY <1>1, <2>1, <2>4 DEF Mailing
  <2>6. TrialEndMailedOnce'
    BY <2>1, <2>2, <2>4, <2>5 DEF TrialEndMailedOnce
  <2>7. Periods'
    BY <2>1, <2>2 DEF Inv, Periods
  <2> QED BY <2>1, <2>3, <2>6, <2>7, MarksFrame DEF Inv, Tables
<1>4. CASE MailTrialEnd(s) \/ TrialMailLost(s)
  <2>1. /\ closer[s] = "mail" /\ closer' = [closer EXCEPT ![s] = "idle"]
        /\ UNCHANGED <<today, subscription, usage, rollover, counter, admin, told, undone>>
        /\ \/ trialMails' = trialMails + 1 /\ spent' = spent
           \/ trialMails' = trialMails /\ spent' = [spent EXCEPT !.lost = spent.lost + 1]
    BY <1>4 DEF MailTrialEnd, TrialMailLost
  <2>2. TypeOK'
    BY <1>1, <2>1 DEF Inv, TypeOK, Closer
  <2>3. /\ subscription.trialEnded /\ trialMails + spent.lost = 0
        /\ Mailing = {s}
    <3>1. s \in Mailing
      BY <2>1 DEF Mailing
    <3> QED BY <3>1 DEF Inv, TrialEndMailedOnce
  <2>4. Mailing' = {}
    BY <1>1, <2>1, <2>3 DEF Mailing
  <2>5. trialMails' + spent'.lost = 1
    BY <1>1, <2>1, <2>3
  <2>6. TrialEndMailedOnce'
    BY <2>1, <2>3, <2>4, <2>5 DEF TrialEndMailedOnce
  <2> QED BY <2>1, <2>2, <2>6, MarksFrame DEF Inv, Tables, Periods
<1> QED BY <1>2, <1>3, <1>4 DEF TrialStep

(* A counter's step leaves the subscription as it was.                      *)
LEMMA CountFrame ==
  ASSUME Inv, Tables', Marks', TypeOK', UNCHANGED <<today, subscription, rollover, closer, trialMails>>,
         spent'.lost = spent.lost
  PROVE  Inv'
<1>1. TrialEndMailedOnce'
  BY TrialFrame DEF Inv
<1> QED BY <1>1 DEF Inv, Periods

LEMMA UpsertInv ==
  ASSUME Inv, NEW w \in Counters, UpsertUsage(w)
  PROVE  Inv'
<1> DEFINE D == DOMAIN usage
           p == counter[w].period
           n == UsageOf(p).transactions
           row == [UsageOf(p) EXCEPT !.transactions = n + 1]
<1>1. p \in Nat /\ UsageOf(p) \in Usage /\ n \in Nat
  <2>1. counter[w] \in Counter /\ usage \in [D -> Usage]
    BY DEF Inv, TypeOK, Tables
  <2>2. NewUsage \in Usage
    BY DEF NewUsage, Usage
  <2> QED BY <2>1, <2>2 DEF Counter, UsageOf, Usage, NewUsage
<1>2. usage' = [q \in D \cup {p} |-> IF q = p THEN row ELSE usage[q]] /\ row \in Usage
      /\ (p \in D => row.notified = usage[p].notified)
  BY <1>1 DEF UpsertUsage, WithUsage, AddOne, Usage, UsageOf
<1> HIDE DEF row, n
<1>3. /\ DOMAIN usage' = D \cup {p} /\ usage' \in [DOMAIN usage' -> Usage]
      /\ \A q \in DOMAIN usage' : q \in Nat
      /\ \A q \in D : q \in DOMAIN usage' /\ usage'[q].notified = usage[q].notified
  <2>1. DOMAIN usage' = D \cup {p}
    BY <1>2
  <2>2. \A q \in D : q \in Nat /\ usage[q] \in Usage
    BY DEF Inv, TypeOK
  <2> QED BY <1>1, <1>2, <2>1, <2>2
<1>4. /\ counter' \in [Counters -> Counter]
      /\ \A v \in Counters \ {w} : counter'[v] = counter[v]
      /\ counter[w].at = "upsert" /\ counter'[w].at = "check"
  BY DEF Inv, TypeOK, UpsertUsage, Counter
<1>5. TypeOK'
  BY <1>3, <1>4 DEF Inv, TypeOK, UpsertUsage
<1>6. Marks'
  <2>1. \A v \in Counters : counter'[v].at \in {"mail", "mark"} =>
          counter'[v].period \in DOMAIN usage'
    BY <1>3, <1>4 DEF Inv, Marks
  <2>2. ThresholdToldOnce'
    BY <1>4 DEF Inv, Marks, ThresholdToldOnce, Threshold, UpsertUsage
  <2>3. ASSUME NEW v \in Counters, NEW t \in told'[v]
        PROVE  \/ t[1] \in DOMAIN usage' /\ t[2] \in usage'[t[1]].notified
               \/ counter'[v].at = "mark" /\ Threshold(v)' = t
               \/ t \in undone'
    <3>1. told' = told /\ undone' = undone
      BY DEF UpsertUsage
    <3>2. \/ t[1] \in D /\ t[2] \in usage[t[1]].notified
          \/ counter[v].at = "mark" /\ Threshold(v) = t
          \/ t \in undone
      BY <2>3, <3>1 DEF Inv, Marks
    <3> QED BY <1>3, <1>4, <3>1, <3>2 DEF Threshold
  <2> QED BY <2>1, <2>2, <2>3 DEF Marks
<1> QED BY <1>3, <1>5, <1>6, CountFrame DEF Inv, Tables, UpsertUsage

(* A threshold found to be due has a row without its mark.                  *)
LEMMA CheckThresholdInv ==
  ASSUME Inv, NEW w \in Counters, CheckThreshold(w)
  PROVE  Inv'
<1> DEFINE period == subscription.periodStart
           limit == MonthlyLimit[subscription.plan]
<1>1. /\ IdleCounter \in Counter /\ period \in Nat /\ counter \in [Counters -> Counter]
      /\ IdleCounter.at = "idle" /\ counter[w].at = "check"
  BY DEF IdleCounter, Counter, Percentages, Inv, TypeOK, Subscription, CheckThreshold
<1>2. \/ counter' = [counter EXCEPT ![w] = IdleCounter]
      \/ \E x \in Percentages :
           /\ counter' = [counter EXCEPT ![w] = [at |-> "mail", period |-> period,
                                                percentage |-> x]]
           /\ period \in DOMAIN usage /\ x \notin usage[period].notified
  <2> DEFINE due == IF limit = Unlimited \/ period \notin DOMAIN usage THEN {}
                    ELSE Reached(usage[period], limit)
             x == IF 100 \in due THEN 100 ELSE 80
  <2>1. due # {} => /\ period \in DOMAIN usage
                    /\ due \subseteq Percentages
                    /\ \A y \in due : y \notin usage[period].notified
    BY DEF Reached
  <2>2. counter' = [counter EXCEPT ![w] = IF due = {} THEN IdleCounter
                      ELSE [at |-> "mail", period |-> period, percentage |-> x]]
    BY DEF CheckThreshold
  <2> HIDE DEF due
  <2>3. due # {} => x \in due
    BY <2>1 DEF Percentages
  <2> QED BY <2>1, <2>2, <2>3
<1>3. /\ \A v \in Counters \ {w} : counter'[v] = counter[v]
      /\ UNCHANGED <<usage, told, undone>>
  BY <1>1, <1>2 DEF CheckThreshold
<1>4. TypeOK'
  <2>1. counter' \in [Counters -> Counter]
    BY <1>1, <1>2 DEF Counter
  <2> QED BY <2>1 DEF Inv, TypeOK, CheckThreshold
<1>5. \A t \in told[w] : \/ t[1] \in DOMAIN usage /\ t[2] \in usage[t[1]].notified
                         \/ t \in undone
  BY <1>1 DEF Inv, Marks
<1>6. /\ counter'[w].at # "mark"
      /\ counter'[w].at = "mail" =>
           /\ counter'[w].period \in DOMAIN usage
           /\ counter'[w].percentage \notin usage[counter'[w].period].notified
  BY <1>1, <1>2
<1>7. ThresholdToldOnce'
  <2> SUFFICES ASSUME NEW v \in Counters, counter'[v].at = "mail", Threshold(v)' \in told[v]
               PROVE  Threshold(v)' \in undone
    BY <1>3 DEF ThresholdToldOnce
  <2>1. CASE v = w
    BY <1>5, <1>6, <2>1 DEF Threshold
  <2>2. CASE v # w
    BY <1>3, <2>2 DEF Inv, Marks, ThresholdToldOnce, Threshold
  <2> QED BY <2>1, <2>2
<1>8. Marks'
  BY <1>3, <1>5, <1>6, <1>7 DEF Inv, Marks, Threshold
<1> QED BY <1>3, <1>4, <1>8, CountFrame DEF Inv, Tables, CheckThreshold

LEMMA CountStep ==
  ASSUME Inv, NEW w \in Counters, Count(w)
  PROVE  Inv'
<1>0. /\ counter \in [Counters -> Counter] /\ told \in [Counters -> SUBSET Thresholds]
      /\ spent \in [changes : Nat, counts : Nat, mails : Nat, lost : Nat]
      /\ IdleCounter \in Counter /\ IdleCounter.at = "idle"
  BY DEF Inv, TypeOK, IdleCounter, Counter, Percentages
<1>1. CASE ReadPeriod(w)
  <2>1. /\ counter[w].at = "idle" /\ subscription.periodStart \in Nat
        /\ counter' = [counter EXCEPT ![w] = [counter[w] EXCEPT
                          !.at = "upsert", !.period = subscription.periodStart]]
    BY <1>1 DEF Inv, TypeOK, ReadPeriod, Subscription
  <2>2. /\ counter' \in [Counters -> Counter] /\ counter'[w].at = "upsert"
        /\ \A v \in Counters \ {w} : counter'[v] = counter[v]
    BY <1>0, <2>1 DEF Counter
  <2>3. TypeOK'
    BY <1>1, <2>2 DEF Inv, TypeOK, ReadPeriod
  <2>4. Marks'
    BY <1>1, <2>1, <2>2 DEF Inv, Marks, ThresholdToldOnce, Threshold, ReadPeriod
  <2> QED BY <1>0, <1>1, <2>3, <2>4, CountFrame DEF Inv, ReadPeriod, Tables
<1>2. CASE UpsertUsage(w)
  BY <1>2, UpsertInv
<1>3. CASE CheckThreshold(w)
  BY <1>3, CheckThresholdInv
<1>4. CASE MailThreshold(w)
  <2>1. /\ counter[w].at = "mail" /\ counter'[w].at = "mark"
        /\ counter' \in [Counters -> Counter] /\ Threshold(w)' = Threshold(w)
        /\ Threshold(w) \in Thresholds
        /\ \A v \in Counters \ {w} : counter'[v] = counter[v]
    BY <1>0, <1>4 DEF MailThreshold, Counter, Threshold, Thresholds
  <2>2. /\ counter'[w].period = counter[w].period
        /\ told' = [told EXCEPT ![w] = @ \cup {Threshold(w)}]
        /\ UNCHANGED <<usage, undone>>
    BY <1>0, <1>4 DEF MailThreshold, Counter
  <2>3. TypeOK'
    BY <1>0, <1>4, <2>1, <2>2 DEF Inv, TypeOK, MailThreshold
  <2>4. Marks'
    <3>1. \A v \in Counters : counter'[v].at \in {"mail", "mark"} =>
            counter'[v].period \in DOMAIN usage'
      BY <2>1, <2>2 DEF Inv, Marks
    <3>2. ThresholdToldOnce'
      BY <1>0, <2>1, <2>2 DEF Inv, Marks, ThresholdToldOnce, Threshold
    <3>3. ASSUME NEW v \in Counters, NEW t \in told'[v]
          PROVE  \/ t[1] \in DOMAIN usage' /\ t[2] \in usage'[t[1]].notified
                 \/ counter'[v].at = "mark" /\ Threshold(v)' = t
                 \/ t \in undone'
      <4>1. CASE v = w /\ t = Threshold(w)
        BY <2>1, <4>1
      <4>2. CASE ~ (v = w /\ t = Threshold(w))
        <5>1. t \in told[v]
          BY <1>0, <2>2, <3>3, <4>2
        <5>2. \/ t[1] \in DOMAIN usage /\ t[2] \in usage[t[1]].notified
              \/ counter[v].at = "mark" /\ Threshold(v) = t
              \/ t \in undone
          BY <5>1 DEF Inv, Marks
        <5>3. v = w => counter[v].at # "mark"
          BY <2>1
        <5> QED BY <2>1, <2>2, <5>2, <5>3 DEF Threshold
      <4> QED BY <4>1, <4>2
    <3> QED BY <3>1, <3>2, <3>3 DEF Marks
  <2> QED BY <1>4, <2>3, <2>4, CountFrame DEF Inv, MailThreshold, Tables
<1>5. CASE MailFails(w)
  <2>1. /\ counter' \in [Counters -> Counter] /\ counter'[w].at = "idle"
        /\ undone' = undone \cup {Threshold(w)} /\ Threshold(w) \in Thresholds
        /\ \A v \in Counters \ {w} : counter'[v] = counter[v]
        /\ UNCHANGED <<usage, told>>
    BY <1>0, <1>5 DEF MailFails, Counter, Threshold, Thresholds
  <2>2. TypeOK'
    BY <1>5, <2>1 DEF Inv, TypeOK, MailFails
  <2>3. Marks'
    BY <2>1 DEF Inv, Marks, ThresholdToldOnce, Threshold
  <2>4. spent'.lost = spent.lost
    BY <1>0, <1>5 DEF MailFails
  <2> QED BY <1>5, <2>2, <2>3, <2>4, CountFrame DEF Inv, MailFails, Tables
<1>6. CASE MarkNotified(w)
  <2> DEFINE p == counter[w].period
             x == counter[w].percentage
             row == Marked(usage[p], x)
  <2>1. x \in Percentages /\ p \in DOMAIN usage
    BY <1>6 DEF Counter, Inv, TypeOK, MarkNotified, Marks
  <2>2. usage' = [usage EXCEPT ![p] = row] /\ usage \in [DOMAIN usage -> Usage]
    BY <1>6 DEF MarkNotified, Inv, Tables
  <2>3. row \in Usage /\ row.notified = usage[p].notified \cup {x}
    BY <2>1, <2>2 DEF Marked, Usage
  <2> HIDE DEF row
  <2>4. /\ DOMAIN usage' = DOMAIN usage /\ usage' \in [DOMAIN usage -> Usage]
        /\ \A q \in DOMAIN usage : usage[q].notified \subseteq usage'[q].notified
        /\ x \in usage'[p].notified
    BY <2>1, <2>2, <2>3
  <2>5. TypeOK'
    BY <1>0, <1>6, <2>4 DEF Inv, TypeOK, MarkNotified
  <2>6. /\ \A v \in Counters \ {w} : counter'[v] = counter[v]
        /\ counter'[w].at = "idle" /\ UNCHANGED <<told, undone>>
    BY <1>0, <1>6 DEF MarkNotified
  <2>7. Marks'
    <3>1. \A v \in Counters : counter'[v].at \in {"mail", "mark"} =>
            counter'[v].period \in DOMAIN usage'
      BY <2>4, <2>6 DEF Inv, Marks
    <3>2. ThresholdToldOnce'
      BY <2>6 DEF Inv, Marks, ThresholdToldOnce, Threshold
    <3>3. ASSUME NEW v \in Counters, NEW t \in told[v]
          PROVE  \/ t[1] \in DOMAIN usage' /\ t[2] \in usage'[t[1]].notified
                 \/ counter'[v].at = "mark" /\ Threshold(v)' = t
                 \/ t \in undone'
      <4>1. \/ t[1] \in DOMAIN usage /\ t[2] \in usage[t[1]].notified
            \/ counter[v].at = "mark" /\ Threshold(v) = t
            \/ t \in undone
        BY DEF Inv, Marks
      <4>2. CASE v = w /\ Threshold(v) = t
        <5>1. t[1] = p /\ t[2] = x
          BY <4>2 DEF Threshold
        <5> QED BY <2>1, <2>4, <5>1
      <4>3. CASE v # w
        BY <2>4, <2>6, <4>1, <4>3 DEF Threshold
      <4>4. CASE Threshold(v) # t
        BY <2>4, <2>6, <4>1, <4>4
      <4> QED BY <4>2, <4>3, <4>4
    <3> QED BY <2>6, <3>1, <3>2, <3>3 DEF Marks
  <2> QED BY <1>6, <2>4, <2>5, <2>7, CountFrame DEF Inv, MarkNotified, Tables
<1> QED BY <1>1, <1>2, <1>3, <1>4, <1>5, <1>6 DEF Count

LEMMA DayStep ==
  ASSUME Inv, DayPasses
  PROVE  Inv'
<1>1. today \in Nat /\ today < LastDay
  BY TodayIsDay DEF Inv, DayPasses
<1>2. today' \in {d \in Days : d > today}
  BY <1>1, NextDayExists DEF DayPasses
<1>3. today' \in Days /\ today' \in Nat /\ today' > today
  BY <1>2, CalendarAssumption
<1>4. TypeOK'
  BY <1>3 DEF Inv, TypeOK, DayPasses
<1>5. Periods'
  <2>1. \A s \in Schedulers : rollover[s].at = "write" => rollover[s].read.periodEnd \in 1..today'
    BY <1>1, <1>3 DEF Inv, Periods
  <2> QED BY <2>1 DEF Inv, Periods, DayPasses
<1> QED BY <1>3, <1>4, <1>5, MarksFrame, TrialFrame DEF Inv, DayPasses, Tables

LEMMA NextInv == Inv /\ [Next]_vars => Inv'
<1> SUFFICES ASSUME Inv, [Next]_vars PROVE Inv'
  OBVIOUS
<1>1. ASSUME NEW a \in Admins, Confirm(a) PROVE Inv'
  BY <1>1, ChangeStep
<1>2. ASSUME NEW s \in Schedulers, RolloverStep(s) PROVE Inv'
  BY <1>2, RolloverInv
<1>3. ASSUME NEW s \in Schedulers, TrialStep(s) \/ CloserStops(s) \/ TrialMailLost(s) PROVE Inv'
  BY <1>3, TrialInv
<1>4. ASSUME NEW w \in Counters, Count(w) PROVE Inv'
  BY <1>4, CountStep
<1>5. CASE DayPasses
  BY <1>5, DayStep
<1>6. CASE UNCHANGED vars
  <2>1. TypeOK'
    BY <1>6 DEF Inv, TypeOK, vars
  <2> QED BY <1>6, <2>1, MarksFrame, TrialFrame DEF Inv, vars, Tables, Periods
<1> QED BY <1>1, <1>2, <1>3, <1>4, <1>5, <1>6 DEF Next

LEMMA InvAlways == Spec => []Inv
BY InitInv, NextInv, PTL DEF Spec

-----------------------------------------------------------------------------
(* The theorems *)

(* Every reachable state has its type.                                      *)
THEOREM TypeCorrect == Spec => []TypeOK
BY InvAlways, PTL DEF Inv

(* Whichever instances close the trial, one mails its end, unless it stops  *)
(* before it does (closeExpiredTrials).                                     *)
THEOREM TrialEndMailed == Spec => []TrialEndMailedOnce
BY InvAlways, PTL DEF Inv

(* A worker tells a threshold of a period once unless a mail or a mark      *)
(* failed, for any number of workers and periods                            *)
(* (checkTransactionThreshold).                                             *)
THEOREM ThresholdsTold == Spec => []ThresholdToldOnce
BY InvAlways, PTL DEF Inv, Marks

(* Only the rollover and the change that leaves the trial write a period's  *)
(* start.                                                                   *)
LEMMA StartMoves ==
  ASSUME Inv, [Next]_vars, subscription.periodStart # subscription'.periodStart
  PROVE  \/ \E a \in Admins : subscription' = Upgraded(a) /\ subscription'.periodStart = today
         \/ \E s \in Schedulers : rollover[s].at = "write"
                                 /\ subscription'.periodStart = rollover[s].read.periodEnd
<1>1. ASSUME NEW a \in Admins, Confirm(a)
      PROVE  subscription' = Upgraded(a) /\ subscription'.periodStart = today
  BY <1>1, UpgradeWrites, DeferralWrites DEF Confirm, ReadForChange, CommitChange
<1>2. ASSUME NEW s \in Schedulers, RolloverStep(s)
      PROVE  rollover[s].at = "write" /\ subscription'.periodStart = rollover[s].read.periodEnd
  BY <1>2, RolloverWrites DEF RolloverStep, ReadDue, WriteRollover
<1>3. ASSUME NEW s \in Schedulers, TrialStep(s) \/ CloserStops(s) \/ TrialMailLost(s) PROVE FALSE
  BY <1>3 DEF TrialStep, ReadExpired, CloseTrial, MailTrialEnd, CloserStops, TrialMailLost, Inv,
              TypeOK, Subscription
<1>4. ASSUME NEW w \in Counters, Count(w) PROVE FALSE
  BY <1>4 DEF Count, ReadPeriod, UpsertUsage, CheckThreshold, MailThreshold, MailFails, MarkNotified
<1>5. CASE DayPasses
  BY <1>5 DEF DayPasses
<1>6. CASE UNCHANGED vars
  BY <1>6 DEF vars
<1> QED BY <1>1, <1>2, <1>3, <1>4, <1>5, <1>6 DEF Next

(* No day between two paid periods is left out, for any number of changes   *)
(* and instances, any cycles and however late the rollover runs.            *)
THEOREM PeriodsFollow == Spec => NoGapBetweenPeriods
<1>1. Inv => (subscription.status = "ACTIVE" => subscription.periodStart < subscription.periodEnd)
  BY DEF Inv, Periods
<1>2. Inv /\ [Next]_vars =>
        [subscription.status = "ACTIVE" /\ subscription.periodStart # subscription'.periodStart
          => \/ subscription'.periodStart <= subscription.periodEnd
             \/ subscription'.periodStart = today /\ subscription' \in {Upgraded(a) : a \in Admins}]_vars
  BY StartMoves DEF Inv, Periods
<1> QED BY <1>1, <1>2, InvAlways, PTL DEF Spec, NoGapBetweenPeriods
=============================================================================
