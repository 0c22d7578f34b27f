----------------------------- MODULE DayWindow -----------------------------
(***************************************************************************)
(* EntitlementService.resolveDayWindow: the tenant's local day, in UTC.    *)
(* Its start names the row of usage_buckets that holds the day's quota, so *)
(* every call on one local day must come to the same start (IngestPipeline *)
(* counts days by today, quotaWindow and dayUsed).                         *)
(*                                                                         *)
(* Instants and offsets are milliseconds.  A zone is seen around one of    *)
(* its transitions: the clock is "before" ahead of UTC until "at", and     *)
(* "after" ahead of UTC from then on.                                      *)
(***************************************************************************)
EXTENDS Integers

Second == 1000
Hour == 3600 * Second
DayLength == 24 * Hour

(* Offsets are whole seconds.                                               *)
Offsets == {Second * n : n \in Int}
Zones == [at : Int, before : Offsets, after : Offsets]

ClockAt(z, t) == t + (IF t < z.at THEN z.before ELSE z.after)

(* Intl.DateTimeFormat: the clock's date, and its time to the second.       *)
DayOf(z, t) == ClockAt(z, t) \div DayLength
TruncatedTo(unit, t) == (t \div unit) * unit

OffsetMsAt(z, t) == TruncatedTo(Second, ClockAt(z, t)) - TruncatedTo(Second, t)

LocalMidnightAsUtc(z, t) == DayOf(z, t) * DayLength

(* The offset at the guess may be another than at t.                        *)
InitialGuess(z, t) == LocalMidnightAsUtc(z, t) - OffsetMsAt(z, t)

ZonedMidnight(z, t) == LocalMidnightAsUtc(z, t) - OffsetMsAt(z, InitialGuess(z, t))

WindowStart(z, t) == ZonedMidnight(z, t)
WindowEnd(z, t) == ZonedMidnight(z, WindowStart(z, t) + 25 * Hour)

-----------------------------------------------------------------------------
(* Of the instants S that one local day has, all are in one window: what    *)
(* the comment on offsetMsAt asks for, so that they contend for one row.    *)
OneWindowPerDay(z, S) ==
  \A t, u \in S : DayOf(z, t) = DayOf(z, u) => WindowStart(z, t) = WindowStart(z, u)

(* The clock is put back to the midnight it has just passed, or before it:  *)
(* the day begins twice.                                                    *)
RepeatsMidnight(z) == z.at + z.after <= TruncatedTo(DayLength, z.at + z.before - 1)

(* The windows of two days that follow each other leave nothing between     *)
(* them: what the comment on the 25 hours promises.                         *)
WindowsFollow(z, S) ==
  \A t, u \in S : DayOf(z, u) = DayOf(z, t) + 1 => WindowEnd(z, t) = WindowStart(z, u)

(* By an hour at most, as the comment assumes.                              *)
ShiftsByAnHour(z) == z.after - z.before \in -Hour..Hour
=============================================================================
