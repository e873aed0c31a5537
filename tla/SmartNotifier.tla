--------------------------- MODULE SmartNotifier ---------------------------
(***************************************************************************)
(* The sweep of smart notifications (smart_notifier_service): ten checks   *)
(* over a user's tasks and focus sessions, each looking first for what it  *)
(* already stored, then the morning push (morning_push_service), in one    *)
(* transaction committed at the end.  Several processes run it under a     *)
(* Redis lock.  Users are independent: the model has one.  Time is counted *)
(* in parts of a day and the thresholds are the code's, scaled.            *)
(***************************************************************************)
EXTENDS Integers, FiniteSets, Sequences

CONSTANTS Procs, Ids, Sessions,
          Parts,      \* of a day; the second is the hour from seven to eight
          Week,       \* days of a week, the first a Monday
          Offset,     \* of the user's time zone
          End,        \* bound: the last instant
          StreakDays, PeakCount, GoalCount, BreakMinutes, ShieldCount,
          Thresholds, \* of _ACHIEVEMENTS
          MaxActs,    \* bound: what the user does
          MaxFaults,  \* bound: failing checks and commits, slow sweeps, Redis going away
          Nil

VARIABLES clock,
          tasks, sessions,  \* Postgres
          notes,       \* Postgres: the notifications
          lock,        \* Redis: lock:notifier:smart_notifications is held
          mornings,    \* Redis: push:morning:<user>:<day>
          redis,       \* FALSE: Redis is down
          run,         \* the sweep of each process
          pushes,      \* history: morning pushes sent, by local day
          repeated,    \* history: a notification was stored beside one of its period
          overlapped,  \* history: two sweeps were under way at once
          acts, faults \* still to come

vars == <<clock, tasks, sessions, notes, repeated, lock, mornings, redis, run, pushes,
          overlapped, acts, faults>>
user == <<tasks, sessions, acts>>

DayOf(t) == t \div Parts
StartOfDay(t) == t - (t % Parts)
MondayOf(t) == t - (t % (Week * Parts))
IsMonday(t) == DayOf(t) % Week = 0
LocalDay(t) == (t + Offset) \div Parts
LocalMorning(t) == (t + Offset) % Parts = 1
Ever == -(2 * Week * Parts)

Checks == <<"overdue", "streak", "daily_summary", "golden_hours", "low_productivity",
            "weekly_goal", "success", "break_reminder", "focus_shield", "achievement">>
Achievements == {"early_bird", "focus_master", "task_machine", "zero_distractions", "week_warrior"}
Keys == Ids \cup Sessions \cup Achievements \cup {Nil}
Note == [type : {Checks[i] : i \in DOMAIN Checks}, key : Keys, at : 0..End]

Idle == [at |-> 0,        \* now, as the sweep started
         step |-> "idle",
         adds |-> {},     \* added to the session
         broken |-> FALSE] \* a statement failed: Postgres refuses the next ones
Status == {"Todo", "Done", "completed"}   \* the last one from older data
Task == [status : Status, due : Ever..End, done : (Ever..End) \cup {Nil}, high : BOOLEAN]
Session == [from : 0..End, to : 0..End, minutes : Nat, ok : BOOLEAN, distractions : Nat]

TypeOK ==
    /\ clock \in 0..End /\ redis \in BOOLEAN /\ lock \in BOOLEAN /\ overlapped \in BOOLEAN
    /\ repeated \in BOOLEAN
    /\ \A t \in Ids : tasks[t] = Nil \/ tasks[t] \in Task
    /\ \A s \in Sessions : sessions[s] = Nil \/ sessions[s] \in Session
    /\ notes \subseteq Note
    /\ \A p \in Procs : run[p].step \in {"idle", "checks", "morning", "commit"}
                     /\ run[p].adds \subseteq Note

-----------------------------------------------------------------------------
(* What the checks look at *)

Present == {t \in Ids : tasks[t] # Nil}
Row(t) == tasks[t]
\* Task.status.in_(["completed", "Completed"])
Completed == {t \in Present : Row(t).status = "completed"}
\* Task.status.notin_(["completed", "Completed", "cancelled"])
Pending == Present \ Completed
CompletedSince(t0) == {t \in Completed : Row(t).done # Nil /\ Row(t).done >= t0}
DueOn(d) == {t \in Present : DayOf(Row(t).due) = d}
Held == {s \in Sessions : sessions[s] # Nil}
HeldSince(t0) == {s \in Held : sessions[s].to >= t0}
Total(S, Field(_)) ==
    LET sum[T \in SUBSET S] ==
        IF T = {} THEN 0 ELSE LET s == CHOOSE x \in T : TRUE IN Field(s) + sum[T \ {s}]
    IN sum[S]
Minutes(s) == sessions[s].minutes
Distracted(s) == sessions[s].distractions

-----------------------------------------------------------------------------
(* The checks: the keys each one would notify about now *)

Alone(condition) == IF condition THEN {Nil} ELSE {}

\* 1. _check_overdue_tasks
Overdue(now) == {t \in Pending : Row(t).due < now /\ Row(t).due >= now - Parts}

\* 2. _check_productivity_streak: the days before today, up to seven, on which
\* everything that was due is completed.
GoodDay(d) == DueOn(d) # {} /\ DueOn(d) \subseteq Completed
Streak(now) ==
    Alone(\E n \in StreakDays..7 : \A back \in 1..n : GoodDay(DayOf(now) - back))

\* 3. _check_daily_summary
DailySummary(now) == Alone(now % Parts = 1 /\ Pending \cap DueOn(DayOf(now)) # {})

\* 4. _check_golden_hours: the busiest hour of the last week, on Mondays.
GoldenHours(now) ==
    Alone(IsMonday(now) /\ \E hour \in 0..(Parts - 1) :
        Cardinality({t \in Present : Row(t).done # Nil /\ Row(t).done >= now - Week * Parts
                                     /\ Row(t).done % Parts = hour}) >= PeakCount)

\* 5. _check_weekly_low_productivity
LowProductivity(now) ==
    LET today == StartOfDay(now)
        InWeek(n) == Cardinality({t \in CompletedSince(today - n * Week * Parts) :
                                    Row(t).done < today - (n - 1) * Week * Parts})
    IN Alone(IsMonday(now) /\ InWeek(2) > 0 /\ 10 * InWeek(1) < 6 * InWeek(2))

\* 6. _check_weekly_goal
WeeklyGoal(now) == Alone(Cardinality(CompletedSince(MondayOf(now))) >= GoalCount)

\* 7. _check_completed_focus_sessions: those that ended within the hour.
Success(now) == {s \in Held : sessions[s].ok /\ sessions[s].to = now}

\* 8. _check_break_reminder
HadBreak(S) ==
    \E a, b \in S : /\ sessions[a].to < sessions[b].from
                    /\ ~\E c \in S : sessions[a].to < sessions[c].from
                                     /\ sessions[c].from < sessions[b].from
BreakReminder(now) ==
    LET today == HeldSince(StartOfDay(now)) IN
    Alone(Total(today, Minutes) >= BreakMinutes /\ ~HadBreak(today))

\* 9. _check_focus_shield
FocusShield(now) == Alone(Total(HeldSince(StartOfDay(now)), Distracted) > ShieldCount)

\* 12. _check_achievements
Count(a, now) ==
    Cardinality(
      CASE a = "early_bird" -> {t \in Completed : Row(t).done # Nil /\ Row(t).done % Parts <= 1}
        [] a = "focus_master" -> {s \in Held : sessions[s].ok}
        [] a = "task_machine" -> Completed
        [] a = "zero_distractions" ->
             {s \in Held : sessions[s].ok /\ sessions[s].distractions = 0}
        [] a = "week_warrior" -> CompletedSince(MondayOf(now)))
Unlocked(now) == {a \in Achievements : Count(a, now) >= Thresholds[a]}

Owed(check, now) ==
    CASE check = "overdue" -> Overdue(now)
      [] check = "streak" -> Streak(now)
      [] check = "daily_summary" -> DailySummary(now)
      [] check = "golden_hours" -> GoldenHours(now)
      [] check = "low_productivity" -> LowProductivity(now)
      [] check = "weekly_goal" -> WeeklyGoal(now)
      [] check = "success" -> Success(now)
      [] check = "break_reminder" -> BreakReminder(now)
      [] check = "focus_shield" -> FocusShield(now)
      [] check = "achievement" -> Unlocked(now)

\* How far back each check looks for what it stored.
Since(check, now) ==
    CASE check \in {"overdue", "success", "achievement"} -> Ever
      [] check = "weekly_goal" -> MondayOf(now)
      [] OTHER -> StartOfDay(now)

\* Slip: what was stored as the period began is missed.
AfterIt(type, key, since) ==
    \E n \in notes : n.type = type /\ n.key = key /\ n.at > since

\* _already_notified, _already_notified_for_task: the sessions have no autoflush, so
\* only what is committed counts.
AlreadyNotified(type, key, since) ==
    \E n \in notes : n.type = type /\ n.key = key /\ n.at >= since

-----------------------------------------------------------------------------
(* The sweep *)

Init ==
    /\ clock = 0
    /\ tasks \in [Ids -> {Nil} \cup
            [status : {"Todo"}, due : {Parts}, done : {Nil}, high : {FALSE}] \cup
            {[status |-> "completed", due |-> d, done |-> d, high |-> TRUE] :
                d \in {-1, -(Week * Parts)}}]
    /\ sessions = [s \in Sessions |-> Nil]
    /\ notes = {} /\ repeated = FALSE /\ lock = FALSE /\ mornings = {} /\ redis = TRUE
    /\ run = [p \in Procs |-> Idle]
    /\ pushes = [d \in 0..LocalDay(End) |-> 0]
    /\ overlapped = FALSE /\ acts = MaxActs /\ faults = MaxFaults

\* How long a notification keeps its check from another one.
SamePeriod(a, b) ==
    CASE a.type \in {"overdue", "success", "achievement"} -> TRUE
      [] a.type = "weekly_goal" -> MondayOf(a.at) = MondayOf(b.at)
      [] OTHER -> StartOfDay(a.at) = StartOfDay(b.at)

\* The notifications as rows.
Store(adds) ==
    /\ notes' = notes \cup adds
    /\ repeated' = (repeated \/ \E a \in adds, b \in notes :
                      a.type = b.type /\ a.key = b.key /\ SamePeriod(a, b))

Sweeping == {p \in Procs : run[p].step # "idle"}
Set(p, r) == run' = [run EXCEPT ![p] = r]
Fault == faults > 0 /\ faults' = faults - 1

\* run_exclusively
Start(p) ==
    /\ run[p].step = "idle" /\ (redis => ~lock)
    /\ lock' = redis
    /\ Set(p, [Idle EXCEPT !.at = clock, !.step = "checks"])
    /\ overlapped' = (overlapped \/ Sweeping # {})
    /\ UNCHANGED <<clock, user, notes, repeated, mornings, redis, pushes, faults>>

\* The lock expires a little before the next sweep is due; before the sweep
\* under way has ended only when that one is slow.
Expire ==
    /\ lock /\ lock' = FALSE
    /\ IF Sweeping = {} THEN UNCHANGED faults ELSE Fault
    /\ UNCHANGED <<clock, user, notes, repeated, mornings, redis, run, pushes, overlapped>>

\* What the i-th check adds.  (The ten run in one step: what others commit
\* between two of them only matters to sweeps that overlap.)
Added(p, i) ==
    LET type == Checks[i]  now == run[p].at IN
    {[type |-> type, key |-> k, at |-> now] :
        k \in {x \in Owed(type, now) : ~AlreadyNotified(type, x, Since(type, now))}}

CheckAll(p) ==
    /\ run[p].step = "checks"
    /\ Set(p, [run[p] EXCEPT !.step = "morning",
                             !.adds = UNION {Added(p, i) : i \in DOMAIN Checks}])
    /\ UNCHANGED <<clock, user, notes, repeated, lock, mornings, redis, pushes, overlapped, faults>>

\* A check raises: it is logged and the next ones run, in vain if what failed was
\* a statement.
CheckFails(p, i) ==
    /\ run[p].step = "checks" /\ Fault
    /\ \E statement \in BOOLEAN :
        Set(p, [run[p] EXCEPT !.step = "morning", !.broken = statement,
                              !.adds = UNION {Added(p, j) : j \in
                                  {k \in DOMAIN Checks : k < i \/ (k > i /\ ~statement)}}])
    /\ UNCHANGED <<clock, user, notes, repeated, lock, mornings, redis, pushes, overlapped>>

\* Slip: without Redis the push goes out all the same.
NobodyElse(day) == ~redis \/ day \notin mornings

\* Taken by this sweep, not held by another, not Redis being down.
MorningIsFree(day) == redis /\ day \notin mornings

\* send_morning_pushes: the day is taken before it is known if there is anything
\* to say.  A device that is gone is forgotten, which commits what the checks added.
Morning(p) ==
    /\ run[p].step = "morning"
    /\ LET r == run[p]
           day == LocalDay(r.at)
           sends == LocalMorning(r.at) /\ ~r.broken /\ MorningIsFree(day)
           today == {t \in Present : Row(t).status \notin {"Done", "Archived"}
                                     /\ LocalDay(Row(t).due) = day}
       IN /\ mornings' = IF sends THEN mornings \cup {day} ELSE mornings
          /\ pushes' = IF sends /\ today # {} THEN [pushes EXCEPT ![day] = @ + 1] ELSE pushes
          /\ \E gone \in {FALSE, sends /\ today # {}} :
              /\ IF gone THEN Store(r.adds) ELSE UNCHANGED <<notes, repeated>>
              /\ Set(p, [r EXCEPT !.step = "commit", !.adds = IF gone THEN {} ELSE @])
    /\ UNCHANGED <<clock, user, lock, redis, overlapped, faults>>

\* The commit of a transaction a statement failed in rolls back.
Commit(p) ==
    /\ run[p].step = "commit"
    /\ IF run[p].broken THEN UNCHANGED <<notes, repeated>> ELSE Store(run[p].adds)
    /\ Set(p, Idle)
    /\ UNCHANGED <<clock, user, lock, mornings, redis, pushes, overlapped, faults>>

CommitFails(p) ==
    /\ run[p].step = "commit" /\ Fault
    /\ Set(p, Idle)
    /\ UNCHANGED <<clock, user, notes, repeated, lock, mornings, redis, pushes, overlapped>>

RedisGoes ==
    /\ redis /\ Fault
    /\ redis' = FALSE /\ lock' = FALSE
    /\ UNCHANGED <<clock, user, notes, repeated, mornings, run, pushes, overlapped>>

\* Back, with the keys that had not expired.
RedisReturns ==
    /\ ~redis /\ redis' = TRUE
    /\ UNCHANGED <<clock, user, notes, repeated, lock, mornings, run, pushes, overlapped, faults>>

-----------------------------------------------------------------------------
(* The user, and time *)

Act == acts > 0 /\ acts' = acts - 1

Finish(t) ==
    /\ Act /\ tasks[t] # Nil /\ tasks[t].status = "Todo"
    /\ tasks' = [tasks EXCEPT ![t].status = "Done", ![t].done = clock]
    /\ UNCHANGED <<clock, sessions, notes, repeated, lock, mornings, redis, run, pushes, overlapped, faults>>

Focus(s) ==
    /\ Act /\ sessions[s] = Nil
    /\ \E ok \in BOOLEAN, n \in {0, ShieldCount + 1} :
        sessions' = [sessions EXCEPT ![s] = [from |-> clock, to |-> clock, minutes |-> BreakMinutes,
                                             ok |-> ok, distractions |-> n]]
    /\ UNCHANGED <<clock, tasks, notes, repeated, lock, mornings, redis, run, pushes, overlapped, faults>>

\* delete_notification, delete_all_notifications: what was told is forgotten, and the
\* next sweep tells it again while it is due.
Delete ==
    /\ Act /\ notes # {}
    /\ \E gone \in {{n} : n \in notes} \cup {notes} : notes' = notes \ gone
    /\ UNCHANGED <<clock, tasks, sessions, repeated, lock, mornings, redis, run, pushes, overlapped, faults>>

Tick ==
    /\ clock < End /\ Sweeping = {} /\ clock' = clock + 1
    /\ UNCHANGED <<user, notes, repeated, lock, mornings, redis, run, pushes, overlapped, faults>>

Next ==
    \/ \E p \in Procs : \/ Start(p) \/ CheckAll(p) \/ Morning(p)
                        \/ Commit(p) \/ CommitFails(p)
                        \/ \E i \in DOMAIN Checks : CheckFails(p, i)
    \/ \E t \in Ids : Finish(t)
    \/ \E s \in Sessions : Focus(s)
    \/ Delete \/ Expire \/ RedisGoes \/ RedisReturns \/ Tick

Spec == Init /\ [][Next]_vars

-----------------------------------------------------------------------------
(* Properties *)

\* "Each check includes anti-duplicate logic": as long as no two sweeps overlap (the
\* checks see only what is committed), nothing is stored that the list already has
\* for its task, session or achievement, its day or its week, whatever fails.  What
\* the user deleted from the list is told again: the list is all a check knows.
ToldOnce == overlapped \/ ~repeated

\* The morning push goes out once a local day at most, even when sweeps overlap,
\* fail, or lose Redis in between ("once a day per user, across sweeps and
\* replicas").
OneMorning == \A d \in DOMAIN pushes : pushes[d] <= 1
=============================================================================
