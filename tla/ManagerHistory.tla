--------------------------- MODULE ManagerHistory ---------------------------
(***************************************************************************)
(* Manager with two history variables that count what the supervisor has   *)
(* met: `misses', the heartbeats that failed since the last one that       *)
(* succeeded on this connection, and `streak', the dials that failed since *)
(* the last one that succeeded (counted to MaxMisses and MaxStreak).       *)
(***************************************************************************)
EXTENDS Manager, Sequences

VARIABLES misses, streak

histVars == <<misses, streak>>

MaxMisses == 4   \* one more than supervise forgives
MaxStreak == 7   \* the failures after which the wait stays the same

OneMore(n, bound) == IF n < bound THEN n + 1 ELSE bound

HInit == Init /\ misses = 0 /\ streak = 0

DialFailed == ConnectFailed \/ SignInFailed \/ UseFailed

HNext ==
  /\ Next
  /\ misses' = IF HeartbeatFailed THEN OneMore(misses, MaxMisses)
               ELSE IF Install \/ ((Ping \/ Upsert) /\ sup' = "select") THEN 0
               ELSE misses
  /\ streak' = IF DialFailed THEN OneMore(streak, MaxStreak)
               ELSE IF Install THEN 0
               ELSE streak

HSpec == HInit /\ [][HNext]_<<vars, histVars>> /\ Fairness

(***************************************************************************)
(* supervise gives a connection up after exactly three heartbeats missed   *)
(* in a row on it, or because the Manager is cancelled: misses counted     *)
(* before a good heartbeat, or on an earlier connection, do not count.     *)
(***************************************************************************)
GivenUpAfterThreeMisses ==
  /\ sup \in {"select", "refresh", "ping", "upsert"} => misses < 3
  /\ sup = "teardown" => cancelled \/ misses = 3

\* The wait after the n-th failed dial in a row: 1, 2, 4, 8, 16, 30, 30, ... s.
BackoffFollowsSchedule ==
  sup = "backoff" => backoff = <<1, 2, 4, 8, 16, 30, 30>>[streak]
=============================================================================
