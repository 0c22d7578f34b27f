--------------------------- MODULE Subscriptions ----------------------------
(***************************************************************************)
(* One tenant's subscription after its registration: the changes of plan a *)
(* platform administrator confirms, the nightly rollover of periods, the   *)
(* closing of trials whose 72 hours have passed, and the usage counters of *)
(* each period with their 80 % and 100 % mails.                            *)
(*                                                                         *)
(* Every one of them reads the subscription in one statement and writes it *)
(* by id in a later one, so each is split there.  Only the closing of a    *)
(* trial repeats its condition in the write.  Dates are day numbers of a   *)
(* calendar without leap years.                                            *)
(***************************************************************************)
EXTENDS Integers, FiniteSetsExt, Functions

CONSTANTS
  Admins,        \* platform administrators confirming changes
  Schedulers,    \* API instances: each runs both schedulers
  Counters,      \* parsing workers counting transactions
  Days,          \* bound: the days on which something happens
  RegisteredOn,  \* those on which the tenant may have registered
  Offered,       \* the plans that administrators apply
  Cycles,        \* the billing cycles they apply
  MonthlyLimit,  \* limits.transactions_per_month, or Unlimited, by plan
  TrialDays,     \* limits.trial_duration_hours of TRIAL, in days
  MaxChanges,    \* bound: confirmed changes
  MaxCounted,    \* bound: transactions counted
  MaxMailFaults, \* bound: threshold mails that fail, or workers that stop at one
  MaxLost        \* bound: instances that stop between a close and its mail

Plans == {"TRIAL", "FREE", "NEGOCIO", "COMERCIO"}
SortOrder == [TRIAL |-> 0, FREE |-> 1, NEGOCIO |-> 2, COMERCIO |-> 3]
Months == [MONTHLY |-> 1, SEMIANNUAL |-> 6, ANNUAL |-> 12]
Unlimited == -1
NoPlan == "none"
NoCycle == "none"
Percentages == {80, 100}

-----------------------------------------------------------------------------
(* The calendar *)

MonthLength(m) ==
  LET inYear == ((m - 1) % 12) + 1
  IN  IF inYear = 2 THEN 28 ELSE IF inYear \in {4, 6, 9, 11} THEN 30 ELSE 31

LastDay == Max(Days)
(* The horizon: what can be reached from LastDay by two more cycles.        *)
Horizon == LastDay \div 28 + 26
MonthStart[m \in 1..Horizon] ==
  IF m = 1 THEN 1 ELSE MonthStart[m - 1] + MonthLength(m - 1)
MonthOf(d) == CHOOSE m \in 1..(Horizon - 1) : MonthStart[m] <= d /\ d < MonthStart[m + 1]
DayOf(d) == d - MonthStart[MonthOf(d)] + 1

(* setUTCMonth keeps the day of the month, and a day that the month does    *)
(* not have runs over into the next one.                                    *)
AddBillingCycle(d, cycle) == MonthStart[MonthOf(d) + Months[cycle]] + DayOf(d) - 1

ASSUME CalendarAssumption ==
  /\ IsFiniteSet(Days) /\ Days \subseteq Nat \ {0}
  /\ RegisteredOn \subseteq Days /\ RegisteredOn # {}
ASSUME CatalogAssumption ==
  /\ Offered \subseteq Plans
  /\ Cycles \subseteq DOMAIN Months
  /\ MonthlyLimit \in [Plans -> Nat \cup {Unlimited}]
  /\ {TrialDays, MaxChanges, MaxCounted, MaxMailFaults, MaxLost} \subseteq Nat

VARIABLES
  today,        \* the day
  subscription, \* the tenant's subscription row
  usage,        \* usage_periods, by period_start: a DATE
  admin,        \* [Admins -> applyConfirmedChange's local state]
  rollover,     \* [Schedulers -> rolloverDuePeriods' local state]
  closer,       \* [Schedulers -> closeExpiredTrials' step; it keeps the row's id]
  counter,      \* [Counters -> UsageCounterService's local state]
  trialMails,   \* how often the end of the trial was mailed
  told,         \* history: [Counters -> thresholds of periods it mailed]
  undone,       \* history: thresholds of which a mail or its mark failed
  spent         \* changes confirmed, transactions begun, mails failed or lost

vars == <<today, subscription, usage, admin, rollover, closer,
          counter, trialMails, told, undone, spent>>

-----------------------------------------------------------------------------
(* Types *)

Statuses == {"PENDING_TRIAL", "TRIALING", "ACTIVE"}

Subscription ==
  [plan : Plans, cycle : DOMAIN Months, status : Statuses,
   pendingPlan : Plans \cup {NoPlan}, pendingCycle : DOMAIN Months \cup {NoCycle},
   periodStart : Nat, periodEnd : Nat,
   trialEndsAt : Nat, trialEnded : BOOLEAN]

(* A row of usage_periods.                                                  *)
Usage == [transactions : Nat, notified : SUBSET Percentages]
NewUsage == [transactions |-> 0, notified |-> {}]

Registered(d, status) ==
  [plan |-> "TRIAL", cycle |-> "MONTHLY", status |-> status,
   pendingPlan |-> NoPlan, pendingCycle |-> NoCycle,
   periodStart |-> d, periodEnd |-> d,
   trialEndsAt |-> IF status = "TRIALING" THEN d + TrialDays ELSE 0,
   trialEnded |-> FALSE]

(* Of the row they read, what each of them uses.                            *)
ForChange(row) == [plan |-> row.plan, status |-> row.status]
ForRollover(row) == [cycle |-> row.cycle, periodEnd |-> row.periodEnd,
                     pendingPlan |-> row.pendingPlan, pendingCycle |-> row.pendingCycle]

NoRow == Registered(0, "PENDING_TRIAL")
IdleAdmin == [at |-> "idle", read |-> ForChange(NoRow), toPlan |-> "TRIAL", toCycle |-> "MONTHLY"]
IdleReader == [at |-> "idle", read |-> ForRollover(NoRow)]
IdleCounter == [at |-> "idle", period |-> 0, percentage |-> 100]

Admin == [at : {"idle", "commit"}, read : [plan : Plans, status : Statuses],
          toPlan : Plans, toCycle : DOMAIN Months]
Reader == [at : {"idle", "write"},
           read : [cycle : DOMAIN Months, periodEnd : Nat, pendingPlan : Plans \cup {NoPlan},
                   pendingCycle : DOMAIN Months \cup {NoCycle}]]
Closer == {"idle", "write", "mail"}
Thresholds == Nat \X Percentages
Counter == [at : {"idle", "upsert", "check", "mail", "mark"}, period : Nat,
            percentage : Percentages]

TypeOK ==
  /\ today \in Nat
  /\ subscription \in Subscription
  /\ subscription.pendingPlan = NoPlan <=> subscription.pendingCycle = NoCycle
  /\ \A p \in DOMAIN usage : p \in Nat /\ usage[p] \in Usage
  /\ admin \in [Admins -> Admin]
  /\ rollover \in [Schedulers -> Reader]
  /\ closer \in [Schedulers -> Closer]
  /\ counter \in [Counters -> Counter]
  /\ trialMails \in Nat
  /\ told \in [Counters -> SUBSET Thresholds]
  /\ undone \subseteq Thresholds
  /\ spent \in [changes : Nat, counts : Nat, mails : Nat, lost : Nat]

(* AuthService.register, and the first payment of the trial, if it came.    *)
Init ==
  /\ \E d \in RegisteredOn, s \in {"PENDING_TRIAL", "TRIALING"} :
       /\ today = d
       /\ subscription = Registered(d, s)
  /\ usage = [p \in {} |-> NewUsage]
  /\ admin = [a \in Admins |-> IdleAdmin]
  /\ rollover = [s \in Schedulers |-> IdleReader]
  /\ closer = [s \in Schedulers |-> "idle"]
  /\ counter = [w \in Counters |-> IdleCounter]
  /\ trialMails = 0
  /\ told = [w \in Counters |-> {}]
  /\ undone = {}
  /\ spent = [changes |-> 0, counts |-> 0, mails |-> 0, lost |-> 0]

-----------------------------------------------------------------------------
(* Confirmed changes: applyConfirmedChange *)

ReadForChange(a, plan, cycle) ==
  /\ admin[a].at = "idle"
  /\ spent.changes < MaxChanges
  /\ admin' = [admin EXCEPT ![a] = [at |-> "commit", read |-> ForChange(subscription),
                                    toPlan |-> plan, toCycle |-> cycle]]
  /\ spent' = [spent EXCEPT !.changes = @ + 1]
  /\ UNCHANGED <<today, subscription, usage, rollover, closer,
                 counter, trialMails, told, undone>>

IsUpgrade(a) == SortOrder[admin[a].toPlan] > SortOrder[admin[a].read.plan]
IsLeavingTrial(a) == admin[a].read.status \in {"PENDING_TRIAL", "TRIALING"}

Upgraded(a) ==
  LET changed == [subscription EXCEPT
                    !.plan = admin[a].toPlan, !.cycle = admin[a].toCycle,
                    !.pendingPlan = NoPlan, !.pendingCycle = NoCycle]
  IN  IF IsLeavingTrial(a)
      THEN [changed EXCEPT !.status = "ACTIVE", !.periodStart = today,
                           !.periodEnd = AddBillingCycle(today, admin[a].toCycle)]
      ELSE changed

Deferred(a) == [subscription EXCEPT !.pendingPlan = admin[a].toPlan,
                                    !.pendingCycle = admin[a].toCycle]

CommitChange(a) ==
  /\ admin[a].at = "commit"
  /\ subscription' = IF IsUpgrade(a) THEN Upgraded(a) ELSE Deferred(a)
  /\ admin' = [admin EXCEPT ![a] = IdleAdmin]
  /\ UNCHANGED <<today, usage, rollover, closer, counter, trialMails, told, undone, spent>>

-----------------------------------------------------------------------------
(* The end of a period: rolloverDuePeriods, for this tenant's row *)

(* A mutant: a period that ends today is not over.                          *)
IsDueLater == subscription.status = "ACTIVE" /\ subscription.periodEnd < today

IsDue == subscription.status = "ACTIVE" /\ subscription.periodEnd <= today

(* The cron is daily: whoever still holds the period that ended has written *)
(* before the next one is read.                                             *)
PeriodIsWritten ==
  \A s \in Schedulers :
    rollover[s].at = "write" => rollover[s].read.periodEnd = subscription.periodEnd

ReadDue(s) ==
  /\ rollover[s].at = "idle"
  /\ PeriodIsWritten
  /\ IsDue
  /\ rollover' = [rollover EXCEPT ![s] = [at |-> "write", read |-> ForRollover(subscription)]]
  /\ UNCHANGED <<today, subscription, usage, admin, closer, counter,
                 trialMails, told, undone, spent>>

(* A mutant: the period starts on the day the scheduler runs.               *)
NextStartToday(read) == today

NextStart(read) == read.periodEnd
NextCycle(read) == IF read.pendingCycle # NoCycle THEN read.pendingCycle ELSE read.cycle

(* The row as it is, with what the scheduler decided on what it had read.   *)
RolledOver(read) ==
  LET opened == [subscription EXCEPT
                   !.periodStart = NextStart(read),
                   !.periodEnd = AddBillingCycle(NextStart(read), NextCycle(read))]
  IN  IF read.pendingPlan = NoPlan THEN opened
      ELSE [opened EXCEPT !.plan = read.pendingPlan, !.cycle = NextCycle(read),
                          !.pendingPlan = NoPlan, !.pendingCycle = NoCycle]

WriteRollover(s) ==
  /\ rollover[s].at = "write"
  /\ subscription' = RolledOver(rollover[s].read)
  /\ rollover' = [rollover EXCEPT ![s] = IdleReader]
  /\ UNCHANGED <<today, usage, admin, closer, counter, trialMails, told, undone, spent>>

-----------------------------------------------------------------------------
(* The end of the trial: closeExpiredTrials *)

TrialIsOver(row) ==
  row.status = "TRIALING" /\ row.trialEndsAt <= today /\ ~row.trialEnded

ReadExpired(s) ==
  /\ closer[s] = "idle"
  /\ TrialIsOver(subscription)
  /\ closer' = [closer EXCEPT ![s] = "write"]
  /\ UNCHANGED <<today, subscription, usage, admin, rollover, counter,
                 trialMails, told, undone, spent>>

(* A mutant: the write is by id only.                                       *)
StillOverAnyway(s) == TRUE

(* updateMany with the condition of the read: its count decides the mail.   *)
StillOver(s) == TrialIsOver(subscription)

CloseTrial(s) ==
  /\ closer[s] = "write"
  /\ IF StillOver(s)
     THEN /\ subscription' = [subscription EXCEPT !.trialEnded = TRUE]
          /\ closer' = [closer EXCEPT ![s] = "mail"]
     ELSE /\ closer' = [closer EXCEPT ![s] = "idle"]
          /\ UNCHANGED subscription
  /\ UNCHANGED <<today, usage, admin, rollover, counter, trialMails, told, undone, spent>>

(* The recipients are read, and mailed, after the close is committed.       *)
MailTrialEnd(s) ==
  /\ closer[s] = "mail"
  /\ trialMails' = trialMails + 1
  /\ closer' = [closer EXCEPT ![s] = "idle"]
  /\ UNCHANGED <<today, subscription, usage, admin, rollover, counter, told, undone, spent>>

(* The instance stops, or a statement fails: the next run reads again.      *)
CloserStops(s) ==
  /\ closer[s] = "write"
  /\ closer' = [closer EXCEPT ![s] = "idle"]
  /\ UNCHANGED <<today, subscription, usage, admin, rollover, counter,
                 trialMails, told, undone, spent>>

(* The same after the close: no run reads a trial that has ended.           *)
TrialMailLost(s) ==
  /\ closer[s] = "mail"
  /\ spent.lost < MaxLost
  /\ spent' = [spent EXCEPT !.lost = @ + 1]
  /\ closer' = [closer EXCEPT ![s] = "idle"]
  /\ UNCHANGED <<today, subscription, usage, admin, rollover, counter,
                 trialMails, told, undone>>

-----------------------------------------------------------------------------
(* Usage counters: incrementTransactions *)

ReadPeriod(w) ==
  /\ counter[w].at = "idle"
  /\ spent.counts < MaxCounted
  /\ counter' = [counter EXCEPT ![w] = [@ EXCEPT !.at = "upsert",
                                                 !.period = subscription.periodStart]]
  /\ spent' = [spent EXCEPT !.counts = @ + 1]
  /\ UNCHANGED <<today, subscription, usage, admin, rollover, closer,
                 trialMails, told, undone>>

UsageOf(p) == IF p \in DOMAIN usage THEN usage[p] ELSE NewUsage
WithUsage(p, row) == [q \in DOMAIN usage \cup {p} |-> IF q = p THEN row ELSE usage[q]]

(* INSERT .. ON CONFLICT DO UPDATE SET transactions_count = .. + 1          *)
AddOne(w) == UsageOf(counter[w].period).transactions + 1

UpsertUsage(w) ==
  /\ counter[w].at = "upsert"
  /\ usage' = WithUsage(counter[w].period,
                        [UsageOf(counter[w].period) EXCEPT !.transactions = AddOne(w)])
  /\ counter' = [counter EXCEPT ![w] = [@ EXCEPT !.at = "check", !.period = 0]]
  /\ UNCHANGED <<today, subscription, admin, rollover, closer, trialMails, told, undone, spent>>

(* A mutant: the mark of one threshold is taken for the other's.            *)
ReachedSwapped(row, limit) ==
  {p \in Percentages : row.transactions * 100 >= limit * p /\ (180 - p) \notin row.notified}

(* The threshold to tell of: 100 % before 80 %, each until it is marked.    *)
Reached(row, limit) ==
  {p \in Percentages : row.transactions * 100 >= limit * p /\ p \notin row.notified}

Threshold(w) == <<counter[w].period, counter[w].percentage>>

(* The check reads the subscription again: the period may be another one.   *)
CheckThreshold(w) ==
  LET period == subscription.periodStart
      limit == MonthlyLimit[subscription.plan]
      due == IF limit = Unlimited \/ period \notin DOMAIN usage THEN {}
             ELSE Reached(usage[period], limit)
  IN  /\ counter[w].at = "check"
      /\ counter' = [counter EXCEPT
           ![w] = IF due = {} THEN IdleCounter
                  ELSE [at |-> "mail", period |-> period,
                        percentage |-> IF 100 \in due THEN 100 ELSE 80]]
      /\ UNCHANGED <<today, subscription, usage, admin, rollover,
                     closer, trialMails, told, undone, spent>>

MailThreshold(w) ==
  /\ counter[w].at = "mail"
  /\ counter' = [counter EXCEPT ![w].at = "mark"]
  /\ told' = [told EXCEPT ![w] = @ \cup {Threshold(w)}]
  /\ UNCHANGED <<today, subscription, usage, admin, rollover, closer,
                 trialMails, undone, spent>>

(* A mail fails, or the mark, or the worker stops: nothing is marked.       *)
MailFails(w) ==
  /\ counter[w].at \in {"mail", "mark"}
  /\ spent.mails < MaxMailFaults
  /\ spent' = [spent EXCEPT !.mails = @ + 1]
  /\ undone' = undone \cup {Threshold(w)}
  /\ counter' = [counter EXCEPT ![w] = IdleCounter]
  /\ UNCHANGED <<today, subscription, usage, admin, rollover, closer,
                 trialMails, told>>

(* notifiedAt80 or notifiedAt100, once its mails are sent.                  *)
Marked(row, percentage) == [row EXCEPT !.notified = @ \cup {percentage}]

MarkNotified(w) ==
  /\ counter[w].at = "mark"
  /\ usage' = [usage EXCEPT ![counter[w].period] = Marked(@, counter[w].percentage)]
  /\ counter' = [counter EXCEPT ![w] = IdleCounter]
  /\ UNCHANGED <<today, subscription, admin, rollover, closer,
                 trialMails, told, undone, spent>>

-----------------------------------------------------------------------------
(* The clock: the next of the days on which something happens, once the     *)
(* transactions of changes, seconds long, are over.                         *)
DayPasses ==
  /\ today < LastDay
  /\ \A a \in Admins : admin[a].at = "idle"
  /\ today' = Min({d \in Days : d > today})
  /\ UNCHANGED <<subscription, usage, admin, rollover, closer, counter,
                 trialMails, told, undone, spent>>

Confirm(a) ==
  \/ \E plan \in Offered, cycle \in Cycles : ReadForChange(a, plan, cycle)
  \/ CommitChange(a)

RolloverStep(s) == ReadDue(s) \/ WriteRollover(s)
TrialStep(s) == ReadExpired(s) \/ CloseTrial(s) \/ MailTrialEnd(s)

Count(w) ==
  \/ ReadPeriod(w)
  \/ UpsertUsage(w)
  \/ CheckThreshold(w)
  \/ MailThreshold(w)
  \/ MailFails(w)
  \/ MarkNotified(w)

Next ==
  \/ \E a \in Admins : Confirm(a)
  \/ \E s \in Schedulers : RolloverStep(s) \/ TrialStep(s) \/ CloserStops(s) \/ TrialMailLost(s)
  \/ \E w \in Counters : Count(w)
  \/ DayPasses

Spec == Init /\ [][Next]_vars

(* Time passes, the rollover runs on its cron, and a change that has begun  *)
(* is committed.  No property needs the closing of trials to go on.         *)
Fairness ==
  /\ WF_vars(DayPasses)
  /\ \A a \in Admins : WF_vars(CommitChange(a))
  /\ \A s \in Schedulers : WF_vars(RolloverStep(s))

FairSpec == Spec /\ Fairness

-----------------------------------------------------------------------------
(* Safety *)

(* No day between two paid periods is left out: an active subscription has  *)
(* a period with days in it, and a period starts no later than the one      *)
(* before it ended, though changes cross as the trial is left, and the      *)
(* scheduler runs days late, twice or on what it read before                *)
(* (applyConfirmedChange, rolloverDuePeriods).                              *)
NoGapBetweenPeriods ==
  /\ [](subscription.status = "ACTIVE" => subscription.periodStart < subscription.periodEnd)
  /\ [][subscription.status = "ACTIVE" /\ subscription.periodStart # subscription'.periodStart
         => \/ subscription'.periodStart <= subscription.periodEnd
            \/ subscription'.periodStart = today /\ subscription' \in {Upgraded(a) : a \in Admins}]_vars

(* Whichever instances close the trial at once, its end is mailed once: it  *)
(* was, or the one instance that closed it is about to, or that one stopped *)
(* before it did; and never while the trial is open (closeExpiredTrials'    *)
(* guarded write).                                                          *)
Mailing == {s \in Schedulers : closer[s] = "mail"}
TrialEndMailedOnce ==
  IF subscription.trialEnded
  THEN \/ trialMails + spent.lost = 1 /\ Mailing = {}
       \/ trialMails + spent.lost = 0 /\ \E s \in Schedulers : Mailing = {s}
  ELSE trialMails + spent.lost = 0 /\ Mailing = {}

(* "disparar el aviso por correo una sola vez": a trial that was closed was  *)
(* mailed, or an instance is about to.                                      *)
EndedIsMailed == subscription.trialEnded /\ trialMails = 0 => Mailing # {}

(* A worker that mailed a threshold of a period never mails it again, though *)
(* others check, mail and mark at once and the period changes in between,   *)
(* unless a mail of it or its mark failed: a threshold is mailed at most    *)
(* once by each worker that read it before the first mark                   *)
(* (checkTransactionThreshold).                                             *)
ThresholdToldOnce ==
  \A w \in Counters :
    counter[w].at = "mail" /\ Threshold(w) \in told[w] => Threshold(w) \in undone

(* "un solo aviso por umbral por periodo", whichever worker sends it.       *)
OneMailPerThreshold ==
  \A v, w \in Counters : told[v] \cap told[w] \subseteq undone \/ v = w

(* What a confirmed change gave is lowered only by a change that the row    *)
(* still holds as pending, when a period starts ("el nuevo plan solo debe   *)
(* regir a partir del periodo siguiente, nunca antes").                     *)
LoweredOnlyAsAgreed ==
  [][SortOrder[subscription'.plan] < SortOrder[subscription.plan]
       => /\ subscription'.plan = subscription.pendingPlan
          /\ subscription'.periodStart = subscription.periodEnd]_vars

-----------------------------------------------------------------------------
(* Liveness *)

(* A deferred change is applied when the period ends, replaced or           *)
(* overtaken, unless the clock stops before.                                *)
PendingTakesEffect ==
  \A plan \in Offered :
    subscription.status = "ACTIVE" /\ subscription.pendingPlan = plan
      ~> subscription.pendingPlan # plan \/ subscription.periodEnd > LastDay
=============================================================================
