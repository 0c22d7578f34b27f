-------------------------- MODULE MCIngestPipeline --------------------------
(***************************************************************************)
(* Model-checking instances of IngestPipeline.  Notifications, workers and *)
(* requests are interchangeable, so the runs without a liveness property   *)
(* use their permutations as symmetries.                                   *)
(*                                                                         *)
(* DayWindow has no state: TLC evaluates its facts here, on half hours     *)
(* around a transition.                                                    *)
(***************************************************************************)
EXTENDS IngestPipeline, DayWindow, TLC

Symmetry == Permutations(Notifications) \cup Permutations(Requests)
              \cup Permutations(Workers) \cup Permutations(Admins)

HalfHours(a, b) == {n * (Hour \div 2) : n \in a..b}

(* Transitions of up to an hour and a half around the midnight at 24 hours. *)
ZonesNear == [at : HalfHours(46, 52), before : {0, Hour}, after : HalfHours(-3, 4)]
InstantsNear == HalfHours(36, 60)

(* A local day has one window exactly when its midnight comes once.         *)
ASSUME OneWindowNear ==
  \A z \in ZonesNear : OneWindowPerDay(z, InstantsNear) <=> ~RepeatsMidnight(z)

(* A day ends where the next begins.                                        *)
ASSUME DaysFollowNear ==
  \A z \in ZonesNear :
    ShiftsByAnHour(z) /\ ~RepeatsMidnight(z) => WindowsFollow(z, InstantsNear)

(* Both conditions are needed: a day of 26 hours, and one that begins twice.*)
ASSUME DaysMayNotFollow ==
  /\ \E z \in ZonesNear : ~RepeatsMidnight(z) /\ ~WindowsFollow(z, InstantsNear)
  /\ \E z \in ZonesNear : ShiftsByAnHour(z) /\ ~WindowsFollow(z, InstantsNear)
=============================================================================
