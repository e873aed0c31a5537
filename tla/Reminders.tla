----------------------------- MODULE Reminders -----------------------------
(***************************************************************************)
(* The reminders of tasks about to start.  Every process that runs the     *)
(* notification loops sweeps once a minute, under a Redis lock that        *)
(* expires a little before the next minute (run_exclusively): the tasks of *)
(* the five-minute window, then those of the one-minute window, each       *)
(* emitted to the user's browsers, stored as a notification and marked on  *)
(* its row; one commit; then the web pushes (task_notifier_service,        *)
(* push_service).  Users move and finish tasks meanwhile.                  *)
(***************************************************************************)
EXTENDS Integers, FiniteSets

CONSTANTS Procs,     \* processes running the loop: web replicas and the worker
          Ids,       \* tasks
          Starts,    \* instants at which a task can start
          End,       \* bound: the last instant
          Period,    \* a minute
          Ttl,       \* 55 seconds
          SweepSpan, \* a sweep ends before it is this long, or is a slow one
          Devices,   \* push endpoints
          Users,     \* accounts; Owner's are the tasks
          Owner,
          MaxMoves,  \* bound: edits of tasks and sign-ins
          MaxFaults, \* bound: failed commits, crashes, Redis going away, slow sweeps
          Nil

VARIABLES clock,
          rows,    \* Postgres: start, notified, lastMinuteNotified, finished
          notes,   \* Postgres: the notifications ever stored (a sweep does not read them,
                   \* so what users delete of them makes no difference)
          subs,    \* Postgres: PushSubscription, the owner of each endpoint
          lock,    \* Redis: when lock:notifier:task_reminders expires, or 0
          redis,   \* FALSE: Redis is down
          sweep,   \* each process's loop
          sent,    \* history: how often each reminder was emitted since an edit
                   \* last set its task's dates (two is many)
          pushed,  \* history: the reminders pushed, and to whose device
          since,   \* history: when each task's dates were set
          calm,    \* history: nothing failed, no task got new dates under a sweep
                   \* and no edit wrote an older copy's marks
          moves, faults  \* still to come

vars == <<clock, rows, notes, subs, lock, redis, sweep, sent, pushed, since, calm,
          moves, faults>>

Windows == {"five", "one"}
\* What a reminder is about: a task, a start, a window.
Reminder == [task : Ids, start : Starts, window : Windows]

Asleep(t) == [step |-> "asleep", wake |-> t,
              at |-> t,       \* when the lock was taken
              window |-> "five",
              found |-> {},   \* rows of the window, loaded and not yet handled
              writes |-> {},  \* reminders stored and marked, not committed
              pushes |-> {}]  \* reminders to push
Steps == {"asleep", "query", "remind", "commit", "push"}

TypeOK ==
    /\ clock \in 0..End /\ lock \in 0..(End + Ttl) /\ redis \in BOOLEAN
    /\ rows \in [Ids -> [start : Starts, five : BOOLEAN, one : BOOLEAN, open : BOOLEAN]]
    /\ notes \subseteq Reminder /\ subs \in [Devices -> Users \cup {Nil}]
    /\ \A p \in Procs :
        /\ sweep[p].step \in Steps /\ sweep[p].window \in Windows
        /\ sweep[p].wake \in 0..(End + Period)
        /\ sweep[p].found \subseteq Reminder
        /\ sweep[p].writes \subseteq Reminder /\ sweep[p].pushes \subseteq Reminder
    /\ sent \in [Reminder -> 0..2]
    /\ since \in [Ids -> 0..End]
    /\ calm \in BOOLEAN /\ moves \in 0..MaxMoves /\ faults \in 0..MaxFaults

\* The processes started at different times.
Init ==
    /\ clock = 0 /\ lock = 0 /\ redis = TRUE
    /\ rows \in [Ids -> [start : Starts, five : {FALSE}, one : {FALSE}, open : {TRUE}]]
    /\ notes = {} /\ subs \in [Devices -> {Owner, Nil}]
    /\ \E w \in [Procs -> 0..(Period - 1)] : sweep = [p \in Procs |-> Asleep(w[p])]
    /\ sent = [r \in Reminder |-> 0] /\ pushed = {}
    /\ since = [t \in Ids |-> 0]
    /\ calm = TRUE /\ moves = MaxMoves /\ faults = MaxFaults

At(p, step) == sweep[p].step = step
Set(p, s) == sweep' = [sweep EXCEPT ![p] = s]
Sweeping == {p \in Procs : ~At(p, "asleep")}

\* A row somebody has written and not committed.
Locked(p, t) == \E q \in Procs \ {p} : \E r \in sweep[q].writes : r.task = t

-----------------------------------------------------------------------------
(* The lock *)

\* Slip: the lock is not looked at.
Always == TRUE

\* acquire_lock: SET NX EX.  None when Redis is down: sweep all the same.
Taken == redis => lock <= clock

\* run_exclusively.  The loop sleeps a minute after what it did.
Skip(p) ==
    /\ At(p, "asleep") /\ sweep[p].wake <= clock /\ ~Taken
    /\ Set(p, Asleep(clock + Period))
    /\ UNCHANGED <<clock, rows, notes, subs, lock, redis, sent, pushed, since, calm, moves, faults>>

Wake(p) ==
    /\ At(p, "asleep") /\ sweep[p].wake <= clock /\ Taken
    /\ lock' = IF redis THEN clock + Ttl ELSE lock
    /\ Set(p, [sweep[p] EXCEPT !.step = "query", !.at = clock])
    /\ UNCHANGED <<clock, rows, notes, subs, redis, sent, pushed, since, calm, moves, faults>>

-----------------------------------------------------------------------------
(* _check_and_notify_once *)

\* Slip: the last window is as long as the interval between sweeps.
ShortWindow(window, start) == clock <= start /\ start < clock + Period

\* Four to six minutes ahead, or none to two.
InWindow(window, start) ==
    IF window = "five" THEN clock + 4 * Period <= start /\ start <= clock + 6 * Period
    ELSE clock <= start /\ start <= clock + 2 * Period

\* get_tasks_for_warning: not finished, not marked for this window.
Unmarked(row, window) == row.open /\ ~row[window]

Due(window) ==
    {[task |-> t, start |-> rows[t].start, window |-> window] :
        t \in {u \in Ids : Unmarked(rows[u], window) /\ InWindow(window, rows[u].start)}}

\* The next window when a window has nothing left; nothing found, nothing committed.
After(s) ==
    IF s.found # {} THEN [s EXCEPT !.step = "remind"]
    ELSE IF s.window = "five" THEN [s EXCEPT !.step = "query", !.window = "one"]
    ELSE IF s.writes # {} THEN [s EXCEPT !.step = "commit"]
    ELSE Asleep(clock + Period)

Query(p) ==
    /\ At(p, "query")
    /\ Set(p, After([sweep[p] EXCEPT !.found = Due(sweep[p].window)]))
    /\ UNCHANGED <<clock, rows, notes, subs, lock, redis, sent, pushed, since, calm, moves, faults>>

\* Emitted first, then the notification and the mark, flushed.
Remind(p, r) ==
    /\ r \in sweep[p].found /\ ~Locked(p, r.task)
    /\ sent' = [sent EXCEPT ![r] = IF @ = 0 THEN 1 ELSE 2]
    /\ Set(p, After([sweep[p] EXCEPT !.found = @ \ {r}, !.writes = @ \cup {r}]))
    /\ UNCHANGED <<clock, rows, notes, subs, lock, redis, pushed, since, calm, moves, faults>>

\* The UPDATE of the marks: only the columns that changed.
Marked(row, ws) == [row EXCEPT !.five = @ \/ \E r \in ws : r.window = "five",
                               !.one = @ \/ \E r \in ws : r.window = "one"]

Commit(p) ==
    /\ At(p, "commit")
    /\ LET ws == sweep[p].writes IN
       /\ rows' = [t \in Ids |-> Marked(rows[t], {r \in ws : r.task = t})]
       /\ notes' = notes \cup ws
       /\ Set(p, [sweep[p] EXCEPT !.step = "push", !.writes = {}, !.pushes = ws])
    /\ UNCHANGED <<clock, subs, lock, redis, sent, pushed, since, calm, moves, faults>>

\* The sweep fails, whatever it emitted: run_task_notifier_loop logs it and sleeps.
Fail(p) ==
    /\ sweep[p].step \in {"query", "remind", "commit"} /\ faults > 0
    /\ Set(p, Asleep(clock + Period))
    /\ faults' = faults - 1 /\ calm' = FALSE
    /\ UNCHANGED <<clock, rows, notes, subs, lock, redis, sent, pushed, since, moves>>

\* Slip: pushed as they are found.
AtOnce(p) == sweep[p].writes

\* What goes out as a web push: what was committed.
Outbox(p) == IF At(p, "push") THEN sweep[p].pushes ELSE {}

\* send_to_user, for one device: accepted, refused, or gone for good (forgotten).
Push(p, r) ==
    /\ r \in Outbox(p)
    /\ LET mine == {d \in Devices : subs[d] = Owner} IN
       /\ pushed' = IF mine = {} THEN pushed ELSE pushed \cup {r}
       /\ \E gone \in SUBSET mine : subs' = [d \in Devices |-> IF d \in gone THEN Nil ELSE subs[d]]
    /\ Set(p, IF sweep[p].pushes \subseteq {r} THEN Asleep(clock + Period)
              ELSE [sweep[p] EXCEPT !.pushes = @ \ {r}])
    /\ UNCHANGED <<clock, rows, notes, lock, redis, sent, since, calm, moves, faults>>

\* A deploy: the transaction is rolled back, the loop starts over at once.
Restart(p) ==
    /\ faults > 0
    /\ Set(p, Asleep(clock))
    /\ faults' = faults - 1 /\ calm' = FALSE
    /\ UNCHANGED <<clock, rows, notes, subs, lock, redis, sent, pushed, since, moves>>

RedisDown ==
    /\ redis /\ faults > 0
    /\ redis' = FALSE /\ lock' = 0
    /\ faults' = faults - 1 /\ calm' = FALSE
    /\ UNCHANGED <<clock, rows, notes, subs, sweep, sent, pushed, since, moves>>

-----------------------------------------------------------------------------
(* Users and time *)

Found(t) == \E p \in Procs : \E r \in sweep[p].found : r.task = t

\* TasksService.update and the planner: a new start gets its own reminders.  A new
\* deadline does too where the start is the estimated one, which stays: then start is
\* the old one, and what was sent for it is to be sent again.
Move(t, start) ==
    /\ moves > 0 /\ ~Locked(Nil, t)
    /\ rows' = [rows EXCEPT ![t].start = start, ![t].five = FALSE, ![t].one = FALSE]
    /\ since' = [since EXCEPT ![t] = clock]
    /\ sent' = [r \in Reminder |-> IF r.task = t THEN 0 ELSE sent[r]]
    /\ calm' = (calm /\ ~Found(t)) /\ moves' = moves - 1
    /\ UNCHANGED <<clock, notes, subs, lock, redis, sweep, pushed, faults>>

\* TasksRepository.save of a copy that is older than the row writes its marks: one read
\* before a sweep marked the task or, once a sweep has failed, one that it marked in
\* Redis although its commit never was.
MergeCopy(t, five, one) ==
    /\ moves > 0 /\ ~Locked(Nil, t)
    /\ \/ faults < MaxFaults
       \/ (five => rows[t].five) /\ (one => rows[t].one)
    /\ <<five, one>> # <<rows[t].five, rows[t].one>>
    /\ rows' = [rows EXCEPT ![t].five = five, ![t].one = one]
    /\ calm' = FALSE /\ moves' = moves - 1
    /\ UNCHANGED <<clock, notes, subs, lock, redis, sweep, sent, pushed, since, faults>>

Finish(t) ==
    /\ moves > 0 /\ rows[t].open /\ ~Locked(Nil, t)
    /\ rows' = [rows EXCEPT ![t].open = FALSE] /\ moves' = moves - 1
    /\ UNCHANGED <<clock, notes, subs, lock, redis, sweep, sent, pushed, since, calm, faults>>

\* save_subscription: a browser belongs to the account that signed in last.
Subscribe(d, u) ==
    /\ moves > 0 /\ subs[d] # u
    /\ subs' = [subs EXCEPT ![d] = u] /\ moves' = moves - 1
    /\ UNCHANGED <<clock, rows, notes, lock, redis, sweep, sent, pushed, since, calm, faults>>

\* remove_subscription: only by its owner.
Unsubscribe(d, u) ==
    /\ moves > 0 /\ subs[d] = u
    /\ subs' = [subs EXCEPT ![d] = Nil] /\ moves' = moves - 1
    /\ UNCHANGED <<clock, rows, notes, lock, redis, sweep, sent, pushed, since, calm, faults>>

\* Who is to wake does, and who sweeps goes on sweeping, within the span or slow.
Tick ==
    /\ clock < End
    /\ \A p \in Procs : At(p, "asleep") => sweep[p].wake > clock
    /\ LET slow == \E p \in Sweeping : clock + 1 >= sweep[p].at + SweepSpan IN
       /\ slow => faults > 0
       /\ faults' = IF slow THEN faults - 1 ELSE faults
       /\ calm' = (calm /\ ~slow)
    /\ clock' = clock + 1
    /\ lock' = IF lock <= clock' THEN 0 ELSE lock
    /\ UNCHANGED <<rows, notes, subs, redis, sweep, sent, pushed, since, moves>>

Finished == clock = End /\ UNCHANGED vars

Next ==
    \/ \E p \in Procs :
        \/ Skip(p) \/ Wake(p) \/ Commit(p) \/ Fail(p) \/ Restart(p) \/ Query(p)
        \/ \E r \in Reminder : Remind(p, r) \/ Push(p, r)
    \/ \E t \in Ids : \/ Finish(t)
                     \/ \E start \in Starts : Move(t, start)
                     \/ \E five, one \in BOOLEAN : MergeCopy(t, five, one)
    \/ \E d \in Devices, u \in Users : Subscribe(d, u) \/ Unsubscribe(d, u)
    \/ RedisDown \/ Tick \/ Finished

Spec == Init /\ [][Next]_vars

-----------------------------------------------------------------------------
(* Properties *)

\* "Nobody gets a reminder twice" (sweep_lock.py), however many processes run
\* the loop, as long as nothing fails and no edit writes an older copy's marks: a
\* sweep that starts when the lock expires sees the marks of the one before it.
\* Twice is since an edit last set the task's start or its deadline: a new deadline
\* takes the marks back although the start it announces is the same.
RemindedOnce == calm => \A r \in Reminder : sent[r] <= 1

\* Nobody misses one either: a task whose dates were set two minutes before its start
\* has had its last reminder when it starts, whatever the processes' phases, where
\* two sweeps take hardly more than the interval between them.
RemindedInTime ==
    calm => \A t \in Ids :
        LET row == rows[t] IN
        (row.open /\ clock > row.start /\ since[t] + 2 * Period < row.start)
        => sent[[task |-> t, start |-> row.start, window |-> "one"]] > 0

\* A reminder that reached a device is in the user's list too, whatever fails.
PushedIsStored == pushed \subseteq notes
=============================================================================
