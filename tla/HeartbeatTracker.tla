-------------------------- MODULE HeartbeatTracker --------------------------
(***************************************************************************)
(* The last_timestamp column and the /status report of                     *)
(* src/slack/chat_server.cpp.  A write stores timePointToSQL(now): the     *)
(* time truncated to whole seconds and formatted as local wall-clock time  *)
(* without a zone.  /status parses it back with parseSQLTime, whose tm has *)
(* tm_isdst = 0, and reports a user online iff                             *)
(* duration_cast<seconds>(now - parsed) <= 10 s.                           *)
(*                                                                         *)
(* Time is counted in ticks of 1/Sub second.  Wall-clock seconds are       *)
(* counted from the same origin in standard time, so local time in         *)
(* daylight saving time is one hour (3600 s) ahead.                        *)
(***************************************************************************)
EXTENDS Integers

CONSTANTS
    Users,        \* user rows (model values)
    Sub,          \* ticks per second
    Window,       \* the window of the online test, in seconds (10)
    Horizon,      \* bound on the clock, in ticks
    DST,          \* whether local time is daylight saving time
    MaxStepBack,  \* the most ticks the system clock may be set back (0: never)
    NoRow,        \* a user with no row yet
    NoReport      \* no /status report computed yet

VARIABLES
    now,      \* system_clock::now(), in ticks
    lastTs,   \* the stored last_timestamp, in wall-clock seconds, or NoRow
    beat,     \* the time of the write that stored it, in ticks (history)
    report    \* the online flag of each user in the last /status response

vars == <<now, lastTs, beat, report>>

LocalOffset == IF DST THEN 3600 ELSE 0
MaxWall     == Horizon \div Sub + LocalOffset

(* A variant that rounds to the nearest second instead of truncating.     *)
TimePointToSQLRounded(t) == (t + Sub \div 2) \div Sub + LocalOffset

(* timePointToSQL: to_time_t truncates to whole seconds, localtime_r and   *)
(* strftime("%F %T") write the local wall-clock time.                       *)
TimePointToSQL(t) == t \div Sub + LocalOffset

(* parseSQLTime: get_time fills tm with tm_isdst left 0, so mktime reads   *)
(* the wall-clock time as standard time; the result in ticks.              *)
ParseSQLTime(wall) == wall * Sub

(* duration_cast<seconds>: truncation toward zero. *)
TruncSeconds(d) == IF d >= 0 THEN d \div Sub ELSE -((-d) \div Sub)

(* A variant of the test with < for <=. *)
IsOnlineStrict(t, wall) == TruncSeconds(t - ParseSQLTime(wall)) < Window

(* /status: diff <= seconds(10) => online. *)
IsOnline(t, wall) == TruncSeconds(t - ParseSQLTime(wall)) <= Window

Init ==
    /\ now = 0
    /\ lastTs = [u \in Users |-> NoRow]
    /\ beat = [u \in Users |-> 0]
    /\ report = [u \in Users |-> NoReport]

(* The heartbeat upsert of onmessage, and the insert of /createUser: both  *)
(* set last_timestamp to timePointToSQL(now) under dbMutex.                 *)
Touch(u) ==
    /\ lastTs' = [lastTs EXCEPT ![u] = TimePointToSQL(now)]
    /\ beat' = [beat EXCEPT ![u] = now]
    /\ UNCHANGED <<now, report>>

(* /status: under dbMutex read every row, then take now and test each.     *)
Status ==
    /\ report' = [u \in Users |-> IF lastTs[u] = NoRow THEN NoReport
                                  ELSE IsOnline(now, lastTs[u])]
    /\ UNCHANGED <<now, lastTs, beat>>

Elapse ==
    /\ now < Horizon
    /\ now' = now + 1
    /\ UNCHANGED <<lastTs, beat, report>>

(* system_clock is the wall clock: an administrator or NTP may set it back. *)
StepBack ==
    /\ \E k \in 1..MaxStepBack : k <= now /\ now' = now - k
    /\ UNCHANGED <<lastTs, beat, report>>

Next ==
    \/ \E u \in Users : Touch(u)
    \/ Status
    \/ Elapse
    \/ StepBack

Spec == Init /\ [][Next]_vars

-----------------------------------------------------------------------------

TypeOK ==
    /\ now \in 0..Horizon
    /\ lastTs \in [Users -> 0..MaxWall \cup {NoRow}]
    /\ beat \in [Users -> 0..Horizon]
    /\ report \in [Users -> BOOLEAN \cup {NoReport}]

(* Spec 8: a /status report shows a user online when the last heartbeat   *)
(* is at most Window seconds old, and offline once it is Window + 1        *)
(* seconds old.  The whole-second truncations of timePointToSQL and        *)
(* duration_cast, the local-time round trip of parseSQLTime, and a clock   *)
(* set back between heartbeat and report must not move the boundary past   *)
(* that one-second margin.                                                 *)
StatusWithinGrace ==
    [][Status => \A u \in Users : lastTs[u] # NoRow =>
            /\ now - beat[u] <= Window * Sub => report'[u] = TRUE
            /\ now - beat[u] >= (Window + 1) * Sub => report'[u] = FALSE]_vars

=============================================================================
