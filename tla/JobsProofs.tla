---------------------------- MODULE JobsProofs ----------------------------
(***************************************************************************)
(* What runs beside the requests of users.  Reminders: nobody is reminded  *)
(* twice, nobody misses the last reminder, and what reached a device is    *)
(* stored, for any number of processes, tasks, moves, devices and          *)
(* failures, whatever the intervals.  Smart notifications: each is stored  *)
(* once in its period and a local day has one morning push, for any        *)
(* lengths of days and weeks and any thresholds.  The calendar's           *)
(* synchronisation: a stored token claims nothing that the tasks do not    *)
(* show, and a date whose push failed is not overwritten by Google's old   *)
(* one, for any number of events, syncs, changes and failures.             *)
(***************************************************************************)
EXTENDS MCServices, TLAPS

Sweep == [step : R!Steps, wake : 0..(LastInstant + Period), at : 0..(LastInstant + Period), window : R!Windows,
          found : SUBSET R!Reminder, writes : SUBSET R!Reminder, pushes : SUBSET R!Reminder]
SweepsOK == sweep \in [Procs -> Sweep]

\* What a sweep holds at each of its steps.
Orderly(s) ==
    /\ s.found # {} => s.step = "remind"
    /\ s.writes # {} => s.step \in {"query", "remind", "commit"}
    /\ s.pushes # {} => s.step = "push"
    /\ s.step = "asleep" => s.window = "five"
    /\ s.step = "query" => \A r \in s.writes : r.window # s.window
    /\ s.window = "five" => \A r \in s.writes : r.window = "five"
    /\ \A r \in s.found : r.window = s.window /\ r \notin s.writes
OrderInv == \A p \in Procs : Orderly(sweep[p])

\* What is to be pushed is committed.
StoredInv == pushed \subseteq notes /\ \A p \in Procs : sweep[p].pushes \subseteq notes

\* The lock outlives the sweep that took it, so there is one at a time.
KeepsLock(p) == lock = sweep[p].at + Ttl /\ clock < lock
AloneInv ==
    calm => /\ redis
            /\ \A p \in Procs : ~R!At(p, "asleep") => KeepsLock(p)
            /\ \A p, q \in Procs : ~R!At(p, "asleep") /\ ~R!At(q, "asleep") => p = q

\* What was emitted is marked, or is about to be by the sweep that emitted it;
\* what a sweep has found and not handled was not.
Emitted(r) == starts[r.task][r.window] \/ \E p \in Procs : r \in sweep[p].writes
OnceInv ==
    calm => /\ \A r \in R!Reminder : sent[r] <= 1
            /\ \A r \in R!Reminder : sent[r] > 0 => Emitted(r)
            /\ \A p \in Procs : \A r \in sweep[p].found : sent[r] = 0

RemindersInv == R!TypeOK /\ SweepsOK /\ OrderInv /\ StoredInv /\ AloneInv /\ OnceInv

-----------------------------------------------------------------------------
(* The reminders: the sweep's records *)

LEMMA AsleepOK ==
  ASSUME NEW t \in 0..(LastInstant + Period)
  PROVE  R!Asleep(t) \in Sweep /\ Orderly(R!Asleep(t)) /\ R!Asleep(t).step = "asleep"
         /\ R!Asleep(t).writes = {} /\ R!Asleep(t).found = {} /\ R!Asleep(t).pushes = {}
  BY DEF R!Asleep, Sweep, Orderly, R!Steps, R!Windows, R!Reminder

LEMMA LaterOK ==
  ASSUME clock \in 0..LastInstant
  PROVE  clock + Period \in 0..(LastInstant + Period) /\ clock \in 0..(LastInstant + Period)
         /\ 0..(Period - 1) \subseteq 0..(LastInstant + Period)
  BY RemindersAssumption

\* What a sweep does next keeps what it wrote, and forgets nothing it found.
LEMMA AfterOK ==
  ASSUME clock \in 0..LastInstant, NEW s \in Sweep,
         s.step \in {"query", "remind"}, s.pushes = {},
         s.window = "five" => \A r \in s.writes : r.window = "five",
         \A r \in s.found : r.window = s.window /\ r \notin s.writes
  PROVE  /\ R!After(s) \in Sweep
         /\ Orderly(R!After(s))
         /\ R!After(s).found = s.found
         /\ R!After(s).writes = s.writes
         /\ R!After(s).pushes = {}
         /\ IF R!After(s).step = "asleep" THEN R!After(s).wake = clock + Period
            ELSE R!After(s).at = s.at
         /\ s.found # {} => R!After(s).step = "remind" /\ R!After(s).window = s.window
         /\ s.found = {} /\ s.window = "five" => R!After(s).step = "query"
  <1>1. CASE s.found # {}
    BY <1>1 DEF R!After, Sweep, Orderly, R!Steps
  <1>2. CASE s.found = {} /\ s.window = "five"
    BY <1>2 DEF R!After, Sweep, Orderly, R!Steps, R!Windows
  <1>3. CASE s.found = {} /\ s.window # "five" /\ s.writes # {}
    BY <1>3 DEF R!After, Sweep, Orderly, R!Steps, R!Windows
  <1>4. CASE s.found = {} /\ s.window # "five" /\ s.writes = {}
    <2>1. R!After(s) = R!Asleep(clock + Period)
      BY <1>4 DEF R!After
    <2>2. R!After(s).wake = clock + Period
      BY <2>1 DEF R!Asleep
    <2>3. QED
      BY <1>4, <2>1, <2>2, AsleepOK, LaterOK
  <1>5. QED
    BY <1>1, <1>2, <1>3, <1>4

-----------------------------------------------------------------------------
(* Types, and the order in which a sweep proceeds *)

\* A step of one process replaces its sweep by one in good order.
LEMMA Resweeps ==
  ASSUME SweepsOK, OrderInv, NEW p \in Procs, NEW s, R!Set(p, s), s \in Sweep, Orderly(s)
  PROVE  SweepsOK' /\ OrderInv' /\ sweep'[p] = s /\ \A q \in Procs : q # p => sweep'[q] = sweep[q]
  <1>1. sweep' = [sweep EXCEPT ![p] = s] /\ sweep \in [Procs -> Sweep]
    BY DEF R!Set, SweepsOK
  <1>2. sweep' \in [Procs -> Sweep] /\ sweep'[p] = s /\ \A q \in Procs : q # p => sweep'[q] = sweep[q]
    BY <1>1
  <1>3. \A q \in Procs : Orderly(sweep[q])
    BY DEF OrderInv
  <1>4. \A q \in Procs : Orderly(sweep'[q])
    BY <1>2, <1>3
  <1>5. OrderInv'
    BY <1>4 DEF OrderInv
  <1>6. QED
    BY <1>2, <1>5 DEF SweepsOK

\* The types of the sweeps are all that R!TypeOK says of them.
LEMMA SweepTypes ==
  ASSUME SweepsOK
  PROVE  \A p \in Procs :
           /\ sweep[p].step \in R!Steps /\ sweep[p].window \in R!Windows
           /\ sweep[p].wake \in 0..(LastInstant + Period)
           /\ sweep[p].found \subseteq R!Reminder
           /\ sweep[p].writes \subseteq R!Reminder /\ sweep[p].pushes \subseteq R!Reminder
  BY DEF SweepsOK, Sweep

\* The sweep that a step leaves behind.
Kept(p) == SweepsOK' /\ OrderInv' /\ \A q \in Procs : q # p => sweep'[q] = sweep[q]

LEMMA SkipKeeps ==
  ASSUME RemindersInv, NEW p \in Procs, R!Skip(p)
  PROVE  Kept(p) /\ sweep'[p] = R!Asleep(clock + Period)
  <1>1. clock \in 0..LastInstant /\ SweepsOK /\ OrderInv
    BY DEF RemindersInv, R!TypeOK
  <1>2. R!Asleep(clock + Period) \in Sweep /\ Orderly(R!Asleep(clock + Period))
    BY <1>1, LaterOK, AsleepOK
  <1>3. QED
    BY <1>1, <1>2, Resweeps DEF R!Skip, Kept

LEMMA FailKeeps ==
  ASSUME RemindersInv, NEW p \in Procs, R!Fail(p)
  PROVE  Kept(p) /\ sweep'[p] = R!Asleep(clock + Period)
  <1>1. clock \in 0..LastInstant /\ SweepsOK /\ OrderInv
    BY DEF RemindersInv, R!TypeOK
  <1>2. R!Asleep(clock + Period) \in Sweep /\ Orderly(R!Asleep(clock + Period))
    BY <1>1, LaterOK, AsleepOK
  <1>3. QED
    BY <1>1, <1>2, Resweeps DEF R!Fail, Kept

LEMMA RestartKeeps ==
  ASSUME RemindersInv, NEW p \in Procs, R!Restart(p)
  PROVE  Kept(p) /\ sweep'[p] = R!Asleep(clock)
  <1>1. clock \in 0..LastInstant /\ SweepsOK /\ OrderInv
    BY DEF RemindersInv, R!TypeOK
  <1>2. R!Asleep(clock) \in Sweep /\ Orderly(R!Asleep(clock))
    BY <1>1, LaterOK, AsleepOK
  <1>3. QED
    BY <1>1, <1>2, Resweeps DEF R!Restart, Kept

LEMMA WakeKeeps ==
  ASSUME RemindersInv, NEW p \in Procs, R!Wake(p)
  PROVE  Kept(p) /\ sweep'[p] = [sweep[p] EXCEPT !.step = "query", !.at = clock]
  <1> DEFINE s == [sweep[p] EXCEPT !.step = "query", !.at = clock]
  <1>1. /\ clock \in 0..LastInstant /\ SweepsOK /\ OrderInv /\ sweep[p] \in Sweep
        /\ Orderly(sweep[p]) /\ sweep[p].step = "asleep" /\ clock \in 0..(LastInstant + Period)
    BY LaterOK DEF RemindersInv, R!TypeOK, SweepsOK, OrderInv, R!Wake, R!At
  <1>2. s \in Sweep /\ Orderly(s)
    BY <1>1 DEF Sweep, Orderly, R!Steps
  <1>3. R!Set(p, s)
    BY DEF R!Wake
  <1> HIDE DEF s
  <1>4. Kept(p) /\ sweep'[p] = s
    BY <1>1, <1>2, <1>3, Resweeps DEF Kept
  <1>5. QED
    BY <1>4 DEF s

LEMMA QueryKeeps ==
  ASSUME RemindersInv, NEW p \in Procs, R!Query(p)
  PROVE  /\ Kept(p)
         /\ sweep'[p].found = R!Due(sweep[p].window)
         /\ sweep'[p].writes = sweep[p].writes
         /\ sweep'[p].pushes = {}
         /\ IF sweep'[p].step = "asleep" THEN sweep'[p].wake = clock + Period
            ELSE sweep'[p].at = sweep[p].at
         /\ sweep'[p].found # {} => /\ sweep'[p].step = "remind"
                                    /\ sweep'[p].window = sweep[p].window
         /\ sweep'[p].found = {} /\ sweep[p].window = "five" => sweep'[p].step = "query"
  <1> DEFINE s == [sweep[p] EXCEPT !.found = R!Due(sweep[p].window)]
  <1>1. /\ clock \in 0..LastInstant /\ SweepsOK /\ OrderInv /\ sweep[p] \in Sweep
        /\ Orderly(sweep[p]) /\ sweep[p].step = "query" /\ sweep[p].window \in R!Windows
        /\ starts \in [Reminded -> [start : Starts, five : BOOLEAN, one : BOOLEAN, open : BOOLEAN]]
    BY DEF RemindersInv, R!TypeOK, SweepsOK, OrderInv, R!Query, R!At
  <1>2. R!Due(sweep[p].window) \subseteq R!Reminder
        /\ \A r \in R!Due(sweep[p].window) : r.window = sweep[p].window
    BY <1>1 DEF R!Due, R!Reminder
  <1>3. s \in Sweep /\ s.step = "query" /\ s.pushes = {} /\ s.window = sweep[p].window
        /\ s.writes = sweep[p].writes /\ s.found = R!Due(sweep[p].window) /\ s.at = sweep[p].at
    BY <1>1, <1>2 DEF Sweep, Orderly
  <1>4. /\ s.window = "five" => \A r \in s.writes : r.window = "five"
        /\ \A r \in s.found : r.window = s.window /\ r \notin s.writes
    BY <1>1, <1>2, <1>3 DEF Orderly
  <1>5. R!Set(p, R!After(s))
    BY DEF R!Query
  <1> HIDE DEF s
  <1>6. R!After(s) \in Sweep /\ Orderly(R!After(s)) /\ R!After(s).found = s.found
        /\ R!After(s).writes = s.writes /\ R!After(s).pushes = {}
        /\ (IF R!After(s).step = "asleep" THEN R!After(s).wake = clock + Period
            ELSE R!After(s).at = s.at)
        /\ (s.found # {} => R!After(s).step = "remind" /\ R!After(s).window = s.window)
        /\ (s.found = {} /\ s.window = "five" => R!After(s).step = "query")
    BY <1>1, <1>3, <1>4, AfterOK
  <1>7. Kept(p) /\ sweep'[p] = R!After(s)
    BY <1>1, <1>5, <1>6, Resweeps DEF Kept
  <1>8. QED
    BY <1>3, <1>6, <1>7

LEMMA RemindKeeps ==
  ASSUME RemindersInv, NEW p \in Procs, NEW r \in R!Reminder, R!Remind(p, r)
  PROVE  /\ Kept(p)
         /\ sweep'[p].found = sweep[p].found \ {r}
         /\ sweep'[p].writes = sweep[p].writes \cup {r}
         /\ sweep'[p].pushes = {}
         /\ sweep[p].step = "remind"
         /\ IF sweep'[p].step = "asleep" THEN sweep'[p].wake = clock + Period
            ELSE sweep'[p].at = sweep[p].at
         /\ sweep'[p].found # {} => /\ sweep'[p].step = "remind"
                                    /\ sweep'[p].window = sweep[p].window
         /\ sweep'[p].found = {} /\ sweep[p].window = "five" => sweep'[p].step = "query"
  <1> DEFINE s == [sweep[p] EXCEPT !.found = @ \ {r}, !.writes = @ \cup {r}]
  <1>1. /\ clock \in 0..LastInstant /\ SweepsOK /\ OrderInv /\ sweep[p] \in Sweep
        /\ Orderly(sweep[p]) /\ r \in sweep[p].found
    BY DEF RemindersInv, R!TypeOK, SweepsOK, OrderInv, R!Remind
  <1>2. sweep[p].step = "remind" /\ sweep[p].pushes = {} /\ r.window = sweep[p].window
    BY <1>1 DEF Orderly
  <1>3. s \in Sweep /\ s.step = "remind" /\ s.pushes = {} /\ s.window = sweep[p].window
        /\ s.writes = sweep[p].writes \cup {r} /\ s.found = sweep[p].found \ {r}
        /\ s.at = sweep[p].at
    BY <1>1, <1>2 DEF Sweep
  <1>4. /\ s.window = "five" => \A x \in s.writes : x.window = "five"
        /\ \A x \in s.found : x.window = s.window /\ x \notin s.writes
    BY <1>1, <1>2, <1>3 DEF Orderly
  <1>5. R!Set(p, R!After(s))
    BY DEF R!Remind
  <1> HIDE DEF s
  <1>6. R!After(s) \in Sweep /\ Orderly(R!After(s)) /\ R!After(s).found = s.found
        /\ R!After(s).writes = s.writes /\ R!After(s).pushes = {}
        /\ (IF R!After(s).step = "asleep" THEN R!After(s).wake = clock + Period
            ELSE R!After(s).at = s.at)
        /\ (s.found # {} => R!After(s).step = "remind" /\ R!After(s).window = s.window)
        /\ (s.found = {} /\ s.window = "five" => R!After(s).step = "query")
    BY <1>1, <1>3, <1>4, AfterOK
  <1>7. Kept(p) /\ sweep'[p] = R!After(s)
    BY <1>1, <1>5, <1>6, Resweeps DEF Kept
  <1>8. QED
    BY <1>2, <1>3, <1>6, <1>7

LEMMA CommitKeeps ==
  ASSUME RemindersInv, NEW p \in Procs, R!Commit(p)
  PROVE  /\ Kept(p)
         /\ sweep'[p] = [sweep[p] EXCEPT !.step = "push", !.writes = {}, !.pushes = sweep[p].writes]
         /\ sweep[p].found = {} /\ sweep[p].step = "commit"
  <1> DEFINE s == [sweep[p] EXCEPT !.step = "push", !.writes = {}, !.pushes = sweep[p].writes]
  <1>1. /\ SweepsOK /\ OrderInv /\ sweep[p] \in Sweep
        /\ Orderly(sweep[p]) /\ sweep[p].step = "commit"
    BY DEF RemindersInv, SweepsOK, OrderInv, R!Commit, R!At
  <1>2. s \in Sweep /\ Orderly(s)
    BY <1>1 DEF Sweep, Orderly, R!Steps
  <1>3. R!Set(p, s)
    BY DEF R!Commit
  <1> HIDE DEF s
  <1>4. Kept(p) /\ sweep'[p] = s
    BY <1>1, <1>2, <1>3, Resweeps DEF Kept
  <1>5. QED
    BY <1>1, <1>4 DEF s, Orderly

LEMMA PushKeeps ==
  ASSUME RemindersInv, NEW p \in Procs, NEW r \in R!Reminder, R!Push(p, r)
  PROVE  /\ Kept(p)
         /\ sweep'[p].found = {} /\ sweep'[p].writes = {} /\ sweep[p].writes = {}
         /\ sweep'[p].pushes \subseteq sweep[p].pushes
         /\ sweep[p].step = "push" /\ r \in sweep[p].pushes
         /\ IF sweep'[p].step = "asleep" THEN sweep'[p].wake = clock + Period
            ELSE sweep'[p].at = sweep[p].at
  <1> DEFINE s == [sweep[p] EXCEPT !.pushes = @ \ {r}]
  <1>1. /\ clock \in 0..LastInstant /\ SweepsOK /\ OrderInv /\ sweep[p] \in Sweep
        /\ Orderly(sweep[p]) /\ sweep[p].step = "push" /\ r \in sweep[p].pushes
    BY DEF RemindersInv, R!TypeOK, SweepsOK, OrderInv, R!Push, R!Outbox, R!At
  <1>2. sweep[p].writes = {} /\ sweep[p].found = {}
    BY <1>1 DEF Orderly
  <1>3. CASE R!Set(p, R!Asleep(clock + Period))
    <2>1. R!Asleep(clock + Period) \in Sweep /\ Orderly(R!Asleep(clock + Period))
          /\ R!Asleep(clock + Period).writes = {} /\ R!Asleep(clock + Period).found = {}
          /\ R!Asleep(clock + Period).pushes = {} /\ R!Asleep(clock + Period).step = "asleep"
          /\ R!Asleep(clock + Period).wake = clock + Period
      BY <1>1, LaterOK, AsleepOK DEF R!Asleep
    <2>2. Kept(p) /\ sweep'[p] = R!Asleep(clock + Period)
      BY <1>1, <1>3, <2>1, Resweeps DEF Kept
    <2>3. QED
      BY <1>1, <1>2, <2>1, <2>2
  <1>4. CASE R!Set(p, s)
    <2>1. s \in Sweep /\ Orderly(s) /\ s.writes = {} /\ s.found = {} /\ s.at = sweep[p].at
          /\ s.step = "push" /\ s.pushes \subseteq sweep[p].pushes
      BY <1>1, <1>2 DEF Sweep, Orderly
    <2> HIDE DEF s
    <2>2. Kept(p) /\ sweep'[p] = s
      BY <1>1, <1>4, <2>1, Resweeps DEF Kept
    <2>3. QED
      BY <1>1, <1>2, <2>1, <2>2
  <1>5. QED
    BY <1>3, <1>4 DEF R!Push

-----------------------------------------------------------------------------
(* What a step leaves to the invariants *)

\* The sweeps keep their order whatever happens.
LEMMA StepKeepsOrder ==
  ASSUME RemindersInv, [R!Next]_R!vars
  PROVE  SweepsOK' /\ OrderInv'
  <1>1. SweepsOK /\ OrderInv
    BY DEF RemindersInv
  <1>2. ASSUME UNCHANGED sweep PROVE SweepsOK' /\ OrderInv'
    BY <1>1, <1>2 DEF SweepsOK, OrderInv
  <1>3. ASSUME NEW p \in Procs, Kept(p) PROVE SweepsOK' /\ OrderInv'
    BY <1>3 DEF Kept
  <1>4. ASSUME NEW p \in Procs,
               \/ R!Skip(p) \/ R!Wake(p) \/ R!Commit(p) \/ R!Fail(p) \/ R!Restart(p) \/ R!Query(p)
               \/ \E r \in R!Reminder : R!Remind(p, r) \/ R!Push(p, r)
        PROVE  Kept(p)
    BY <1>4, SkipKeeps, WakeKeeps, CommitKeeps, FailKeeps, RestartKeeps, QueryKeeps,
       RemindKeeps, PushKeeps
  <1>5. ASSUME NEW t \in Reminded, \/ R!Finish(t)
                                   \/ \E start \in Starts : R!Move(t, start)
                                   \/ \E five, one \in BOOLEAN : R!MergeCopy(t, five, one)
        PROVE  UNCHANGED sweep
    BY <1>5 DEF R!Finish, R!Move, R!MergeCopy
  <1>6. ASSUME NEW d \in Devices, NEW u \in People, R!Subscribe(d, u) \/ R!Unsubscribe(d, u)
        PROVE  UNCHANGED sweep
    BY <1>6 DEF R!Subscribe, R!Unsubscribe
  <1>7. CASE R!RedisDown \/ R!Tick \/ R!Finished \/ UNCHANGED R!vars
    BY <1>2, <1>7 DEF R!RedisDown, R!Tick, R!Finished, R!vars
  <1>8. QED
    BY <1>2, <1>3, <1>4, <1>5, <1>6, <1>7 DEF R!Next

-----------------------------------------------------------------------------
(* Types *)

\* The part of R!TypeOK that is not about the sweeps.
StateOK ==
    /\ clock \in 0..LastInstant /\ lock \in 0..(LastInstant + Ttl) /\ redis \in BOOLEAN
    /\ starts \in [Reminded -> [start : Starts, five : BOOLEAN, one : BOOLEAN, open : BOOLEAN]]
    /\ notes \subseteq R!Reminder /\ subs \in [Devices -> People \cup {Nil}]
    /\ sent \in [R!Reminder -> 0..2]
    /\ since \in [Reminded -> 0..LastInstant]
    /\ calm \in BOOLEAN /\ moves \in 0..MaxMoves /\ rFaults \in 0..SweepFaults

LEMMA TypesOfState ==
  ASSUME SweepsOK
  PROVE  R!TypeOK <=> StateOK
  BY SweepTypes DEF R!TypeOK, StateOK

LEMMA MarkedOK ==
  ASSUME NEW row \in [start : Starts, five : BOOLEAN, one : BOOLEAN, open : BOOLEAN], NEW ws
  PROVE  /\ R!Marked(row, ws) \in [start : Starts, five : BOOLEAN, one : BOOLEAN, open : BOOLEAN]
         /\ \A w \in R!Windows : row[w] => R!Marked(row, ws)[w]
         /\ \A r \in ws : r.window \in R!Windows => R!Marked(row, ws)[r.window]
  BY DEF R!Marked, R!Windows

LEMMA StepKeepsState ==
  ASSUME RemindersInv, [R!Next]_R!vars
  PROVE  StateOK'
  <1>1. SweepsOK /\ OrderInv /\ StateOK
    BY TypesOfState DEF RemindersInv
  <1>2. ASSUME NEW p \in Procs PROVE sweep[p] \in Sweep
    BY <1>1 DEF SweepsOK
  <1>3. ASSUME NEW p \in Procs, R!Skip(p) PROVE StateOK'
    BY <1>1, <1>3 DEF StateOK, R!Skip
  <1>4. ASSUME NEW p \in Procs, R!Wake(p) PROVE StateOK'
    BY <1>1, <1>4, RemindersAssumption DEF StateOK, R!Wake
  <1>5. ASSUME NEW p \in Procs, R!Query(p) PROVE StateOK'
    BY <1>1, <1>5 DEF StateOK, R!Query
  <1>6. ASSUME NEW p \in Procs, NEW r \in R!Reminder, R!Remind(p, r) PROVE StateOK'
    BY <1>1, <1>6 DEF StateOK, R!Remind
  <1>7. ASSUME NEW p \in Procs, R!Commit(p) PROVE StateOK'
    <2>1. sweep[p].writes \subseteq R!Reminder
      BY <1>2 DEF Sweep
    <2>2. starts' \in [Reminded -> [start : Starts, five : BOOLEAN, one : BOOLEAN, open : BOOLEAN]]
      BY <1>1, <1>7, MarkedOK DEF StateOK, R!Commit
    <2>3. notes' \subseteq R!Reminder
      BY <1>1, <1>7, <2>1 DEF StateOK, R!Commit
    <2>4. QED
      BY <1>1, <1>7, <2>2, <2>3 DEF StateOK, R!Commit
  <1>8. ASSUME NEW p \in Procs, R!Fail(p) \/ R!Restart(p) PROVE StateOK'
    <2>1. rFaults > 0 /\ rFaults' = rFaults - 1 /\ rFaults \in 0..SweepFaults
      BY <1>1, <1>8 DEF StateOK, R!Fail, R!Restart
    <2>2. rFaults' \in 0..SweepFaults
      BY <2>1, RemindersAssumption
    <2>3. UNCHANGED <<clock, starts, notes, subs, lock, redis, sent, since, moves>> /\ calm' = FALSE
      BY <1>8 DEF R!Fail, R!Restart
    <2>4. QED
      BY <1>1, <2>2, <2>3 DEF StateOK
  <1>9. ASSUME NEW p \in Procs, NEW r \in R!Reminder, R!Push(p, r) PROVE StateOK'
    <2>1. subs' \in [Devices -> People \cup {Nil}]
      BY <1>1, <1>9 DEF StateOK, R!Push
    <2>2. UNCHANGED <<clock, starts, notes, lock, redis, sent, since, calm, moves, rFaults>>
      BY <1>9 DEF R!Push
    <2>3. QED
      BY <1>1, <2>1, <2>2 DEF StateOK
  <1>10. CASE R!RedisDown
    <2>1. rFaults > 0 /\ rFaults' = rFaults - 1 /\ rFaults \in 0..SweepFaults
      BY <1>1, <1>10 DEF StateOK, R!RedisDown
    <2>2. rFaults' \in 0..SweepFaults
      BY <2>1, RemindersAssumption
    <2>3. UNCHANGED <<clock, starts, notes, subs, sent, since, moves>> /\ calm' = FALSE
          /\ lock' = 0 /\ redis' = FALSE
      BY <1>10 DEF R!RedisDown
    <2>4. 0 \in 0..(LastInstant + Ttl)
      BY RemindersAssumption
    <2>5. QED
      BY <1>1, <2>2, <2>3, <2>4 DEF StateOK
  <1>11. ASSUME NEW t \in Reminded, NEW start \in Starts, R!Move(t, start) PROVE StateOK'
    <2>1. moves' \in 0..MaxMoves
      BY <1>1, <1>11, RemindersAssumption DEF StateOK, R!Move
    <2>2. starts' \in [Reminded -> [start : Starts, five : BOOLEAN, one : BOOLEAN, open : BOOLEAN]]
      BY <1>1, <1>11 DEF StateOK, R!Move
    <2>3. sent' \in [R!Reminder -> 0..2]
      BY <1>1, <1>11 DEF StateOK, R!Move
    <2>4. since' \in [Reminded -> 0..LastInstant]
      BY <1>1, <1>11 DEF StateOK, R!Move
    <2>5. UNCHANGED <<clock, notes, subs, lock, redis, rFaults>> /\ calm' \in BOOLEAN
      BY <1>11 DEF R!Move
    <2>6. QED
      BY <1>1, <2>1, <2>2, <2>3, <2>4, <2>5 DEF StateOK
  <1>12. ASSUME NEW t \in Reminded, R!Finish(t) PROVE StateOK'
    <2>1. moves' \in 0..MaxMoves
      BY <1>1, <1>12, RemindersAssumption DEF StateOK, R!Finish
    <2>2. starts' \in [Reminded -> [start : Starts, five : BOOLEAN, one : BOOLEAN, open : BOOLEAN]]
      BY <1>1, <1>12 DEF StateOK, R!Finish
    <2>3. UNCHANGED <<clock, notes, subs, lock, redis, sent, since, calm, rFaults>>
      BY <1>12 DEF R!Finish
    <2>4. QED
      BY <1>1, <2>1, <2>2, <2>3 DEF StateOK
  <1>13. ASSUME NEW d \in Devices, NEW u \in People, R!Subscribe(d, u) \/ R!Unsubscribe(d, u)
         PROVE  StateOK'
    BY <1>1, <1>13, RemindersAssumption DEF StateOK, R!Subscribe, R!Unsubscribe
  <1>14. CASE R!Tick
    <2>1. clock' \in 0..LastInstant /\ rFaults' \in 0..SweepFaults
      BY <1>1, <1>14, RemindersAssumption DEF StateOK, R!Tick
    <2>2. lock' \in 0..(LastInstant + Ttl)
      BY <1>1, <1>14, RemindersAssumption DEF StateOK, R!Tick
    <2>3. calm' \in BOOLEAN
      BY <1>14 DEF R!Tick
    <2>4. QED
      BY <1>1, <1>14, <2>1, <2>2, <2>3 DEF StateOK, R!Tick
  <1>15. CASE R!Finished \/ UNCHANGED R!vars
    BY <1>1, <1>15 DEF StateOK, R!Finished, R!vars
  <1>16. ASSUME NEW t \in Reminded, NEW five \in BOOLEAN, NEW one \in BOOLEAN,
                R!MergeCopy(t, five, one)
         PROVE  StateOK'
    <2>1. moves' \in 0..MaxMoves
      BY <1>1, <1>16, RemindersAssumption DEF StateOK, R!MergeCopy
    <2>2. starts' \in [Reminded -> [start : Starts, five : BOOLEAN, one : BOOLEAN, open : BOOLEAN]]
      BY <1>1, <1>16 DEF StateOK, R!MergeCopy
    <2>3. UNCHANGED <<clock, notes, subs, lock, redis, sent, since, rFaults>> /\ calm' = FALSE
      BY <1>16 DEF R!MergeCopy
    <2>4. QED
      BY <1>1, <2>1, <2>2, <2>3 DEF StateOK
  <1>17. QED
    BY <1>3, <1>4, <1>5, <1>6, <1>7, <1>8, <1>9, <1>10, <1>11, <1>12, <1>13, <1>14, <1>15, <1>16
       DEF R!Next

-----------------------------------------------------------------------------
(* What was pushed is stored *)

LEMMA StepKeepsStored ==
  ASSUME RemindersInv, [R!Next]_R!vars
  PROVE  StoredInv'
  <1>1. StoredInv /\ SweepsOK /\ clock \in 0..LastInstant
    BY DEF RemindersInv, R!TypeOK
  <1>2. ASSUME UNCHANGED <<sweep, notes, pushed>> PROVE StoredInv'
    BY <1>1, <1>2 DEF StoredInv
  <1>3. ASSUME NEW p \in Procs, Kept(p), UNCHANGED <<notes, pushed>>, sweep'[p].pushes \subseteq notes
        PROVE  StoredInv'
    BY <1>1, <1>3 DEF StoredInv, Kept
  <1>4. R!Asleep(clock).pushes = {} /\ R!Asleep(clock + Period).pushes = {}
    BY DEF R!Asleep
  <1>5. ASSUME NEW p \in Procs, R!Skip(p) \/ R!Fail(p) \/ R!Restart(p) PROVE StoredInv'
    <2>1. Kept(p) /\ sweep'[p].pushes = {}
      BY <1>4, <1>5, SkipKeeps, FailKeeps, RestartKeeps
    <2>2. QED
      BY <1>3, <1>5, <2>1 DEF R!Skip, R!Fail, R!Restart
  <1>6. ASSUME NEW p \in Procs, R!Wake(p) PROVE StoredInv'
    <2>1. Kept(p) /\ sweep'[p].pushes = sweep[p].pushes
      BY <1>1, <1>6, WakeKeeps DEF SweepsOK, Sweep
    <2>2. QED
      BY <1>1, <1>3, <1>6, <2>1 DEF R!Wake, StoredInv
  <1>7. ASSUME NEW p \in Procs, R!Query(p) PROVE StoredInv'
    BY <1>3, <1>7, QueryKeeps DEF R!Query
  <1>8. ASSUME NEW p \in Procs, NEW r \in R!Reminder, R!Remind(p, r) PROVE StoredInv'
    BY <1>3, <1>8, RemindKeeps DEF R!Remind
  <1>9. ASSUME NEW p \in Procs, R!Commit(p) PROVE StoredInv'
    <2>1. Kept(p) /\ sweep'[p].pushes = sweep[p].writes
      <3>1. sweep[p] \in Sweep
        BY <1>1 DEF SweepsOK
      <3>2. sweep'[p] = [sweep[p] EXCEPT !.step = "push", !.writes = {},
                                          !.pushes = sweep[p].writes]
        BY <1>9, CommitKeeps
      <3>3. QED
        BY <1>9, <3>1, <3>2, CommitKeeps DEF Sweep
    <2>2. notes' = notes \cup sweep[p].writes /\ pushed' = pushed
      BY <1>9 DEF R!Commit
    <2>3. QED
      BY <1>1, <2>1, <2>2 DEF StoredInv, Kept
  <1>10. ASSUME NEW p \in Procs, NEW r \in R!Reminder, R!Push(p, r) PROVE StoredInv'
    <2>1. Kept(p) /\ sweep'[p].pushes \subseteq sweep[p].pushes /\ r \in sweep[p].pushes
      BY <1>10, PushKeeps
    <2>2. pushed' \subseteq pushed \cup {r} /\ notes' = notes
      BY <1>10 DEF R!Push
    <2>3. QED
      BY <1>1, <2>1, <2>2 DEF StoredInv, Kept
  <1>11. ASSUME NEW t \in Reminded, \/ R!Finish(t)
                                    \/ \E start \in Starts : R!Move(t, start)
                                    \/ \E five, one \in BOOLEAN : R!MergeCopy(t, five, one)
         PROVE  StoredInv'
    BY <1>2, <1>11 DEF R!Finish, R!Move, R!MergeCopy
  <1>12. ASSUME NEW d \in Devices, NEW u \in People, R!Subscribe(d, u) \/ R!Unsubscribe(d, u)
         PROVE  StoredInv'
    BY <1>2, <1>12 DEF R!Subscribe, R!Unsubscribe
  <1>13. CASE R!RedisDown \/ R!Tick \/ R!Finished \/ UNCHANGED R!vars
    BY <1>2, <1>13 DEF R!RedisDown, R!Tick, R!Finished, R!vars
  <1>14. QED
    BY <1>5, <1>6, <1>7, <1>8, <1>9, <1>10, <1>11, <1>12, <1>13 DEF R!Next

-----------------------------------------------------------------------------
(* One sweep at a time *)

\* A lock that is held is not taken.
LEMMA TakenWhenFree ==
  ASSUME RemindersInv, calm, R!Taken
  PROVE  \A p \in Procs : R!At(p, "asleep")
  <1>1. clock \in Int /\ lock \in Int /\ redis /\ lock <= clock
    BY DEF RemindersInv, R!TypeOK, AloneInv, R!Taken
  <1>2. QED
    BY <1>1 DEF RemindersInv, AloneInv, KeepsLock

LEMMA StepKeepsAlone ==
  ASSUME RemindersInv, [R!Next]_R!vars
  PROVE  AloneInv'
  <1> SUFFICES ASSUME calm' PROVE AloneInv'
    BY DEF AloneInv
  <1>1. /\ AloneInv /\ SweepsOK /\ clock \in 0..LastInstant /\ lock \in Nat /\ redis \in BOOLEAN
        /\ calm \in BOOLEAN
    BY RemindersAssumption DEF RemindersInv, R!TypeOK
  <1>2. ASSUME calm, UNCHANGED <<sweep, lock, clock, redis>> PROVE AloneInv'
    BY <1>1, <1>2 DEF AloneInv, KeepsLock, R!At
  <1>3. ASSUME NEW p \in Procs, calm, UNCHANGED <<lock, clock, redis>>, Kept(p),
               sweep'[p].step # "asleep" => ~R!At(p, "asleep") /\ sweep'[p].at = sweep[p].at
        PROVE  AloneInv'
    BY <1>1, <1>3 DEF AloneInv, KeepsLock, R!At, Kept
  <1>4. ASSUME NEW p \in Procs, R!Skip(p) PROVE AloneInv'
    <2>1. Kept(p) /\ sweep'[p].step = "asleep"
      BY <1>4, SkipKeeps DEF R!Asleep
    <2>2. calm /\ UNCHANGED <<lock, clock, redis>>
      BY <1>4 DEF R!Skip
    <2>3. QED
      BY <1>3, <2>1, <2>2
  <1>5. ASSUME NEW p \in Procs, R!Wake(p) PROVE AloneInv'
    <2>1. calm /\ R!Taken /\ redis /\ UNCHANGED <<clock, redis>> /\ lock' = clock + Ttl
      BY <1>1, <1>5 DEF R!Wake, AloneInv
    <2>2. \A q \in Procs : R!At(q, "asleep")
      BY <2>1, TakenWhenFree
    <2>3. Kept(p) /\ sweep'[p].at = clock
      BY <1>1, <1>5, WakeKeeps DEF SweepsOK, Sweep
    <2>4. clock < clock + Ttl
      BY <1>1, RemindersAssumption
    <2>5. QED
      BY <2>1, <2>2, <2>3, <2>4 DEF AloneInv, KeepsLock, R!At, Kept
  <1>6. ASSUME NEW p \in Procs, R!Query(p) PROVE AloneInv'
    <2>1. calm /\ UNCHANGED <<lock, clock, redis>> /\ ~R!At(p, "asleep")
      BY <1>6 DEF R!Query, R!At
    <2>2. Kept(p) /\ (sweep'[p].step # "asleep" => sweep'[p].at = sweep[p].at)
      BY <1>6, QueryKeeps
    <2>3. QED
      BY <1>3, <2>1, <2>2
  <1>7. ASSUME NEW p \in Procs, NEW r \in R!Reminder, R!Remind(p, r) PROVE AloneInv'
    <2>1. calm /\ UNCHANGED <<lock, clock, redis>>
      BY <1>7 DEF R!Remind
    <2>2. Kept(p) /\ (sweep'[p].step # "asleep" => sweep'[p].at = sweep[p].at)
          /\ ~R!At(p, "asleep")
      BY <1>7, RemindKeeps DEF R!At
    <2>3. QED
      BY <1>3, <2>1, <2>2
  <1>8. ASSUME NEW p \in Procs, R!Commit(p) PROVE AloneInv'
    <2>1. calm /\ UNCHANGED <<lock, clock, redis>> /\ ~R!At(p, "asleep")
      BY <1>8 DEF R!Commit, R!At
    <2>2. sweep[p] \in Sweep
      BY <1>1 DEF SweepsOK
    <2>3. sweep'[p] = [sweep[p] EXCEPT !.step = "push", !.writes = {},
                                        !.pushes = sweep[p].writes]
      BY <1>8, CommitKeeps
    <2>4. Kept(p) /\ sweep'[p].at = sweep[p].at
      BY <1>8, <2>2, <2>3, CommitKeeps DEF Sweep
    <2>5. QED
      BY <1>3, <2>1, <2>4
  <1>9. ASSUME NEW p \in Procs, NEW r \in R!Reminder, R!Push(p, r) PROVE AloneInv'
    <2>1. calm /\ UNCHANGED <<lock, clock, redis>>
      BY <1>9 DEF R!Push
    <2>2. Kept(p) /\ (sweep'[p].step # "asleep" => sweep'[p].at = sweep[p].at)
          /\ ~R!At(p, "asleep")
      BY <1>9, PushKeeps DEF R!At
    <2>3. QED
      BY <1>3, <2>1, <2>2
  <1>10. ASSUME NEW p \in Procs, R!Fail(p) \/ R!Restart(p) PROVE FALSE
    BY <1>10 DEF R!Fail, R!Restart
  <1>11. ASSUME NEW t \in Reminded, \/ R!Finish(t)
                                    \/ \E start \in Starts : R!Move(t, start)
                                    \/ \E five, one \in BOOLEAN : R!MergeCopy(t, five, one)
         PROVE  AloneInv'
    BY <1>2, <1>11 DEF R!Finish, R!Move, R!MergeCopy
  <1>12. ASSUME NEW d \in Devices, NEW u \in People, R!Subscribe(d, u) \/ R!Unsubscribe(d, u)
         PROVE  AloneInv'
    BY <1>2, <1>12 DEF R!Subscribe, R!Unsubscribe
  <1>13. CASE R!Tick
    <2>1. calm /\ clock' = clock + 1 /\ UNCHANGED <<redis, sweep>>
      BY <1>13 DEF R!Tick
    <2>2. ASSUME NEW p \in Procs, ~R!At(p, "asleep") PROVE clock + 1 < sweep[p].at + Ttl
      <3>1. ~ (clock + 1 >= sweep[p].at + SweepSpan)
        BY <1>13, <2>2 DEF R!Tick, R!Sweeping
      <3>2. sweep[p].at \in Int
        BY <1>1 DEF SweepsOK, Sweep
      <3>3. QED
        BY <1>1, <3>1, <3>2, RemindersAssumption
    <2>3. ASSUME NEW p \in Procs, ~R!At(p, "asleep") PROVE KeepsLock(p)'
      <3>1. KeepsLock(p) /\ clock + 1 < lock
        BY <1>1, <2>1, <2>2, <2>3 DEF AloneInv, KeepsLock
      <3>2. lock' = lock
        BY <1>1, <1>13, <2>1, <3>1 DEF R!Tick
      <3>3. QED
        BY <2>1, <3>1, <3>2 DEF KeepsLock
    <2>4. QED
      BY <1>1, <2>1, <2>3 DEF AloneInv, R!At
  <1>14. CASE R!Finished \/ UNCHANGED R!vars
    BY <1>2, <1>14 DEF R!Finished, R!vars
  <1>15. ~R!RedisDown
    BY DEF R!RedisDown
  <1>16. QED
    BY <1>4, <1>5, <1>6, <1>7, <1>8, <1>9, <1>10, <1>11, <1>12, <1>13, <1>14, <1>15 DEF R!Next

-----------------------------------------------------------------------------
(* Nobody is reminded twice *)

\* The steps that leave alone what was emitted, marked, found and written.
LEMMA NothingEmitted ==
  ASSUME OnceInv, calm' => calm, UNCHANGED sent,
         \A t \in Reminded : \A w \in R!Windows : starts[t][w] => starts'[t][w],
         \A p \in Procs : sweep[p].writes \subseteq sweep'[p].writes
                          /\ sweep'[p].found \subseteq sweep[p].found
  PROVE  OnceInv'
  <1> SUFFICES ASSUME calm' PROVE OnceInv'
    BY DEF OnceInv
  <1>1. \A r \in R!Reminder : Emitted(r) => Emitted(r)'
    BY DEF Emitted, R!Reminder
  <1>2. QED
    BY <1>1 DEF OnceInv

LEMMA StepKeepsOnce ==
  ASSUME RemindersInv, [R!Next]_R!vars
  PROVE  OnceInv'
  <1> SUFFICES ASSUME calm' PROVE OnceInv'
    BY DEF OnceInv
  <1>1. /\ OnceInv /\ AloneInv /\ OrderInv /\ SweepsOK /\ StateOK
    BY TypesOfState DEF RemindersInv
  <1>2. ASSUME NEW p \in Procs PROVE sweep[p] \in Sweep /\ Orderly(sweep[p])
    BY <1>1 DEF SweepsOK, OrderInv
  <1>3. ASSUME calm, UNCHANGED <<sweep, starts, sent>> PROVE OnceInv'
    BY <1>1, <1>3, NothingEmitted
  <1>4. ASSUME NEW p \in Procs, R!Skip(p) PROVE OnceInv'
    <2>1. Kept(p) /\ sweep'[p].found = {}
      BY <1>4, SkipKeeps DEF R!Asleep
    <2>2. sweep[p].writes = {}
      BY <1>2, <1>4 DEF R!Skip, R!At, Orderly
    <2>3. QED
      BY <1>1, <1>4, <2>1, <2>2, NothingEmitted DEF R!Skip, Kept
  <1>5. ASSUME NEW p \in Procs, R!Wake(p) PROVE OnceInv'
    <2>1. Kept(p) /\ sweep'[p].found = sweep[p].found /\ sweep'[p].writes = sweep[p].writes
      BY <1>2, <1>5, WakeKeeps DEF Sweep
    <2>2. QED
      BY <1>1, <1>5, <2>1, NothingEmitted DEF R!Wake, Kept
  <1>6. ASSUME NEW p \in Procs, R!Query(p) PROVE OnceInv'
    <2>1. calm /\ UNCHANGED <<starts, sent>> /\ ~R!At(p, "asleep") /\ sweep[p].step = "query"
      BY <1>6 DEF R!Query, R!At
    <2>2. Kept(p) /\ sweep'[p].found = R!Due(sweep[p].window) /\ sweep'[p].writes = sweep[p].writes
      BY <1>6, QueryKeeps
    <2>3. \A q \in Procs : q # p => sweep[q].writes = {}
      BY <1>1, <1>2, <2>1 DEF AloneInv, R!At, Orderly
    <2>4. ASSUME NEW r \in R!Due(sweep[p].window) PROVE r \in R!Reminder /\ sent[r] = 0
      <3>1. r \in R!Reminder /\ r.window = sweep[p].window /\ ~starts[r.task][r.window]
        BY <1>1, <1>2 DEF R!Due, R!Unmarked, R!Reminder, StateOK, Sweep
      <3>2. r \notin sweep[p].writes
        BY <1>2, <2>1, <3>1 DEF Orderly
      <3>3. ~Emitted(r)
        BY <2>3, <3>1, <3>2 DEF Emitted
      <3>4. sent[r] \in 0..2
        BY <1>1, <3>1 DEF StateOK
      <3>5. QED
        BY <1>1, <2>1, <3>1, <3>3, <3>4 DEF OnceInv
    <2>5. \A r \in R!Reminder : Emitted(r) => Emitted(r)'
      BY <2>1, <2>2 DEF Emitted, Kept
    <2>6. QED
      BY <1>1, <2>1, <2>2, <2>4, <2>5 DEF OnceInv, Kept
  <1>7. ASSUME NEW p \in Procs, NEW r \in R!Reminder, R!Remind(p, r) PROVE OnceInv'
    <2>1. calm /\ UNCHANGED starts /\ r \in sweep[p].found
          /\ sent' = [sent EXCEPT ![r] = IF @ = 0 THEN 1 ELSE 2]
      BY <1>7 DEF R!Remind
    <2>2. /\ Kept(p) /\ sweep[p].step = "remind"
          /\ sweep'[p].found = sweep[p].found \ {r}
          /\ sweep'[p].writes = sweep[p].writes \cup {r}
      BY <1>7, RemindKeeps
    <2>3. sent[r] = 0 /\ sent \in [R!Reminder -> 0..2]
      BY <1>1, <2>1 DEF OnceInv, StateOK
    <2>4. sent'[r] = 1 /\ \A x \in R!Reminder : x # r => sent'[x] = sent[x]
      BY <2>1, <2>3
    <2>5. ASSUME NEW q \in Procs, q # p PROVE sweep'[q].found = {}
      <3>1. sweep[q].step = "asleep"
        BY <1>1, <2>1, <2>2, <2>5 DEF AloneInv, R!At
      <3>2. sweep[q].found = {}
        BY <1>2, <3>1 DEF Orderly
      <3>3. QED
        BY <2>2, <2>5, <3>2 DEF Kept
    <2>6. \A x \in R!Reminder : Emitted(x) => Emitted(x)'
      BY <2>1, <2>2 DEF Emitted, Kept
    <2>7. Emitted(r)'
      BY <2>2 DEF Emitted
    <2>8. \A x \in sweep'[p].found : x \in R!Reminder /\ x # r /\ sent[x] = 0
      BY <1>1, <1>2, <2>1, <2>2 DEF OnceInv, Sweep
    <2>9. QED
      BY <1>1, <2>1, <2>4, <2>5, <2>6, <2>7, <2>8 DEF OnceInv
  <1>8. ASSUME NEW p \in Procs, R!Commit(p) PROVE OnceInv'
    <2>1. calm /\ UNCHANGED sent
          /\ starts' = [t \in Reminded |-> R!Marked(starts[t], {r \in sweep[p].writes : r.task = t})]
      BY <1>8 DEF R!Commit
    <2>2. Kept(p) /\ sweep'[p].found = {}
      <3>1. sweep'[p] = [sweep[p] EXCEPT !.step = "push", !.writes = {},
                                          !.pushes = sweep[p].writes]
        BY <1>8, CommitKeeps
      <3>2. QED
        BY <1>2, <1>8, <3>1, CommitKeeps DEF Sweep
    <2>3. ASSUME NEW r \in R!Reminder, Emitted(r) PROVE Emitted(r)'
      <3>1. r.task \in Reminded /\ r.window \in R!Windows
        BY DEF R!Reminder
      <3>2. starts[r.task] \in [start : Starts, five : BOOLEAN, one : BOOLEAN, open : BOOLEAN]
        BY <1>1, <3>1 DEF StateOK
      <3>3. CASE starts[r.task][r.window]
        BY <2>1, <3>1, <3>2, <3>3, MarkedOK DEF Emitted
      <3>4. CASE r \in sweep[p].writes
        BY <2>1, <3>1, <3>2, <3>4, MarkedOK DEF Emitted
      <3>5. CASE \E q \in Procs : q # p /\ r \in sweep[q].writes
        BY <2>2, <3>5 DEF Emitted, Kept
      <3>6. QED
        BY <2>3, <3>3, <3>4, <3>5 DEF Emitted
    <2>4. QED
      BY <1>1, <2>1, <2>2, <2>3 DEF OnceInv, Kept
  <1>9. ASSUME NEW p \in Procs, NEW r \in R!Reminder, R!Push(p, r) PROVE OnceInv'
    <2>1. Kept(p) /\ sweep'[p].found = {} /\ sweep[p].writes = {}
      BY <1>9, PushKeeps
    <2>2. QED
      BY <1>1, <1>9, <2>1, NothingEmitted DEF R!Push, Kept
  <1>10. ASSUME NEW p \in Procs, R!Fail(p) \/ R!Restart(p) PROVE FALSE
    BY <1>10 DEF R!Fail, R!Restart
  <1>11. ASSUME NEW t \in Reminded, NEW start \in Starts, R!Move(t, start) PROVE OnceInv'
    <2>1. /\ calm /\ UNCHANGED sweep
          /\ starts' = [starts EXCEPT ![t].start = start, ![t].five = FALSE, ![t].one = FALSE]
          /\ sent' = [r \in R!Reminder |-> IF r.task = t THEN 0 ELSE sent[r]]
      BY <1>11 DEF R!Move
    <2>2. \A r \in R!Reminder : r.task # t => starts'[r.task] = starts[r.task]
      BY <1>1, <2>1 DEF StateOK, R!Reminder
    <2>3. \A r \in R!Reminder : r.task # t /\ Emitted(r) => Emitted(r)'
      BY <2>1, <2>2 DEF Emitted
    <2>4. \A p \in Procs : sweep[p].found \subseteq R!Reminder
      BY <1>2 DEF Sweep
    <2>5. \A r \in R!Reminder : sent'[r] = IF r.task = t THEN 0 ELSE sent[r]
      BY <2>1
    <2>6. QED
      BY <1>1, <2>1, <2>3, <2>4, <2>5 DEF OnceInv
  <1>12. ASSUME NEW t \in Reminded, R!Finish(t) PROVE OnceInv'
    <2>1. calm /\ UNCHANGED <<sweep, sent>> /\ starts' = [starts EXCEPT ![t].open = FALSE]
      BY <1>12 DEF R!Finish
    <2>2. \A u \in Reminded : \A w \in R!Windows : starts'[u][w] = starts[u][w]
      BY <1>1, <2>1 DEF StateOK, R!Windows
    <2>3. QED
      BY <1>1, <2>1, <2>2, NothingEmitted
  <1>13. ASSUME NEW d \in Devices, NEW u \in People, R!Subscribe(d, u) \/ R!Unsubscribe(d, u)
         PROVE  OnceInv'
    BY <1>3, <1>13 DEF R!Subscribe, R!Unsubscribe
  <1>14. CASE R!Tick \/ R!Finished \/ UNCHANGED R!vars
    BY <1>3, <1>14 DEF R!Tick, R!Finished, R!vars
  <1>15. /\ ~R!RedisDown
        /\ \A m \in Reminded : \A five, one \in BOOLEAN : ~R!MergeCopy(m, five, one)
    BY DEF R!RedisDown, R!MergeCopy
  <1>16. QED
    BY <1>4, <1>5, <1>6, <1>7, <1>8, <1>9, <1>10, <1>11, <1>12, <1>13, <1>14, <1>15 DEF R!Next

-----------------------------------------------------------------------------
(* The theorems *)

LEMMA InitOK ==
  ASSUME R!Init
  PROVE  RemindersInv
  <1>1. PICK w \in [Procs -> 0..(Period - 1)] : sweep = [p \in Procs |-> R!Asleep(w[p])]
    BY DEF R!Init
  <1>2. ASSUME NEW p \in Procs
        PROVE  /\ sweep[p] = R!Asleep(w[p]) /\ sweep[p] \in Sweep /\ Orderly(sweep[p])
               /\ sweep[p].step = "asleep" /\ sweep[p].found = {} /\ sweep[p].writes = {}
               /\ sweep[p].pushes = {}
    <2>1. w[p] \in 0..(LastInstant + Period)
      BY <1>1, RemindersAssumption
    <2>2. QED
      BY <1>1, <2>1, AsleepOK
  <1>3. SweepsOK /\ OrderInv
    BY <1>1, <1>2 DEF SweepsOK, OrderInv
  <1>4. StateOK
    <2>1. starts \in [Reminded -> [start : Starts, five : BOOLEAN, one : BOOLEAN, open : BOOLEAN]]
      BY DEF R!Init
    <2>2. subs \in [Devices -> People \cup {Nil}]
      BY RemindersAssumption DEF R!Init
    <2>3. QED
      BY <2>1, <2>2, RemindersAssumption DEF R!Init, StateOK
  <1>5. StoredInv /\ AloneInv
    BY <1>2 DEF R!Init, StoredInv, AloneInv, R!At
  <1>6. OnceInv
    BY <1>2 DEF R!Init, OnceInv
  <1>7. QED
    BY <1>3, <1>4, <1>5, <1>6, TypesOfState DEF RemindersInv

LEMMA RemindersStep ==
  ASSUME RemindersInv, [R!Next]_R!vars
  PROVE  RemindersInv'
  <1>1. SweepsOK' /\ OrderInv'
    BY StepKeepsOrder
  <1>2. SweepsOK' => (R!TypeOK' <=> StateOK')
    BY SweepTypes DEF SweepsOK, Sweep, R!TypeOK, StateOK
  <1>3. QED
    BY <1>1, <1>2, StepKeepsState, StepKeepsStored, StepKeepsAlone, StepKeepsOnce
       DEF RemindersInv

\* The inductive invariant of the reminders: what a sweep holds at each step,
\* one sweep at a time while nothing fails, and what was emitted is marked or
\* about to be.
THEOREM RemindersInvariance == ServicesSpec => [](scene = "reminders" => RemindersInv)
  <1> DEFINE Inv == scene = "reminders" => RemindersInv
  <1>1. ServicesInit => Inv
    BY InitOK DEF ServicesInit
  <1>2. Inv /\ [ServicesNext]_all => Inv'
    <2> SUFFICES ASSUME Inv, [ServicesNext]_all, scene' = "reminders" PROVE RemindersInv'
      OBVIOUS
    <2>1. scene = "reminders"
      BY DEF ServicesNext, all
    <2>2. R!Next \/ UNCHANGED R!vars
      BY <2>1 DEF ServicesNext, all, rVars, R!vars
    <2>3. QED
      BY <2>1, <2>2, RemindersStep
  <1>3. QED
    BY <1>1, <1>2, PTL DEF ServicesSpec

\* Nobody gets a reminder twice while nothing fails, however many processes
\* run the loop (run_exclusively's lock and the marks on the rows).
THEOREM OneReminder == ServicesSpec => []RemindedOnce
  <1>1. (scene = "reminders" => RemindersInv) => RemindedOnce
    BY DEF RemindersInv, OnceInv, RemindedOnce, R!RemindedOnce
  <1>2. QED
    BY <1>1, RemindersInvariance, PTL

\* Whatever fails, what was pushed to a device is in the list of notifications
\* (the pushes go out after the commit).
THEOREM PushesAreStored == ServicesSpec => []PushedIsStored
  <1>1. (scene = "reminders" => RemindersInv) => PushedIsStored
    BY DEF RemindersInv, StoredInv, PushedIsStored, R!PushedIsStored
  <1>2. QED
    BY <1>1, RemindersInvariance, PTL


-----------------------------------------------------------------------------
(* Nobody misses the last reminder of a task *)

\* What the intervals have to be: somebody sweeps, the lock is over when the
\* process that took it sweeps again, and two sweeps that are not slow take
\* hardly more than the interval between them.
Timely == Procs # {} /\ Ttl <= Period /\ 2 * SweepSpan <= Period + 3

\* A process that sleeps wakes within the interval; a sweep is not too long.
PhaseInv == \A p \in Procs :
    IF R!At(p, "asleep") THEN clock <= sweep[p].wake /\ sweep[p].wake <= clock + Period
    ELSE sweep[p].at <= clock /\ (calm => clock < sweep[p].at + SweepSpan)
\* Somebody sweeps, or wakes and finds the lock free.
GoesOnInv == calm => \E p \in Procs : R!At(p, "asleep") => lock <= sweep[p].wake

\* A row is marked when its reminder was emitted; tasks under a sweep stay.
LastOf(t) == [task |-> t, start |-> starts[t].start, window |-> "one"]
MarksInv ==
    calm => /\ \A t \in Reminded : starts[t].one => sent[LastOf(t)] > 0
            /\ \A p \in Procs : \A r \in sweep[p].writes :
                  sent[r] > 0 /\ r.start = starts[r.task].start
            /\ \A p \in Procs : \A r \in sweep[p].found : r.start = starts[r.task].start

\* While the last reminder of a task is owed, a sweep that starts early enough
\* is under way and has not passed the task by, or a process wakes early enough
\* and finds the lock free.  A sweep that started before the window opened may
\* have passed it: the next one starts early enough.
OwedLast(t) == /\ starts[t].open /\ since[t] + 2 * Period < starts[t].start
               /\ sent[LastOf(t)] = 0
Opens(t) == starts[t].start - 2 * Period
Latest(t) == starts[t].start - SweepSpan + 1
ToCome(s) == s.step = "query" \/ (s.step = "remind" /\ s.window = "five")
Reaches(p, t) ==
    /\ ~R!At(p, "asleep") /\ sweep[p].at <= Latest(t)
    /\ sweep[p].at < Opens(t) \/ ToCome(sweep[p]) \/ LastOf(t) \in sweep[p].found
WakesFor(p, t) ==
    R!At(p, "asleep") /\ lock <= sweep[p].wake /\ sweep[p].wake <= Latest(t)
Attended(t) == \E p \in Procs : Reaches(p, t) \/ WakesFor(p, t)
InTimeInv == calm => \A t \in Reminded : OwedLast(t) => Attended(t)

TimelyInv == RemindersInv /\ PhaseInv /\ GoesOnInv /\ MarksInv /\ InTimeInv

\* Arithmetic: a sweep at c that began at a, and a task that starts at s.
LEMMA Intervals ==
  ASSUME Timely, NEW c \in Int, NEW a \in Int, NEW s \in Int, a <= c, c < a + SweepSpan
  PROVE  /\ a < s - 2 * Period => c + Period <= s - SweepSpan + 1
         /\ a <= s - SweepSpan + 1 => c <= s
         /\ a + Ttl <= c + Period
  <1>1. Period \in Int /\ SweepSpan \in Int /\ Ttl \in Int /\ Ttl <= Period
        /\ 2 * SweepSpan <= Period + 3
    BY RemindersAssumption DEF Timely
  <1>2. QED
    BY <1>1

LEMMA FarAhead ==
  ASSUME Timely, NEW c \in Int, NEW s \in Int, c + 2 * Period < s
  PROVE  /\ c < s - 2 * Period /\ c <= s - SweepSpan + 1
         /\ \A w \in Int : w <= c + Period => w <= s - SweepSpan + 1
  <1>1. Period \in Int /\ SweepSpan \in Int /\ Period >= 1 /\ SweepSpan >= 1
        /\ 2 * SweepSpan <= Period + 3
    BY RemindersAssumption DEF Timely
  <1>2. QED
    BY <1>1

LEMMA TimeTypes ==
  ASSUME RemindersInv
  PROVE  /\ clock \in Int /\ lock \in Nat /\ calm \in BOOLEAN
         /\ \A p \in Procs : /\ sweep[p] \in Sweep /\ sweep[p].at \in Int
                             /\ sweep[p].wake \in Nat
         /\ \A t \in Reminded : /\ starts[t].start \in Int /\ starts[t].one \in BOOLEAN
                                /\ since[t] \in Int /\ LastOf(t) \in R!Reminder
         /\ Period \in Int /\ SweepSpan \in Nat /\ SweepSpan >= 1 /\ SweepSpan <= Ttl
         /\ \A r \in R!Reminder : sent[r] \in Int /\ sent[r] >= 0
  <1>1. R!TypeOK /\ SweepsOK
    BY DEF RemindersInv
  <1>2. clock \in Int /\ lock \in Nat /\ calm \in BOOLEAN
        /\ \A r \in R!Reminder : sent[r] \in Int /\ sent[r] >= 0
    BY <1>1, RemindersAssumption DEF R!TypeOK
  <1>3. \A p \in Procs : sweep[p] \in Sweep /\ sweep[p].at \in Int /\ sweep[p].wake \in Nat
    BY <1>1, RemindersAssumption DEF SweepsOK, Sweep
  <1>4. ASSUME NEW t \in Reminded
        PROVE  starts[t].start \in Int /\ starts[t].one \in BOOLEAN
               /\ since[t] \in Int /\ LastOf(t) \in R!Reminder
    <2>1. starts[t] \in [start : Starts, five : BOOLEAN, one : BOOLEAN, open : BOOLEAN]
          /\ since[t] \in 0..LastInstant
      BY <1>1 DEF R!TypeOK
    <2>2. LastOf(t) \in R!Reminder
      BY <2>1 DEF LastOf, R!Reminder, R!Windows
    <2>3. /\ starts[t].start \in Starts /\ Starts \subseteq Int /\ starts[t].one \in BOOLEAN
          /\ LastInstant \in Int
      BY <2>1, RemindersAssumption
    <2>4. starts[t].start \in Int
      BY <2>3
    <2>5. since[t] \in Int
      BY <1>1, <2>3 DEF R!TypeOK
    <2>6. QED
      BY <2>2, <2>3, <2>4, <2>5
  <1>5. QED
    BY <1>2, <1>3, <1>4, RemindersAssumption

-----------------------------------------------------------------------------
(* A sweep that goes on *)

\* A step of a sweep under way: afterwards it is the same sweep, or over and its
\* process sleeps for the interval.
Proceeds(p) ==
    /\ ~R!At(p, "asleep") /\ Kept(p)
    /\ IF sweep'[p].step = "asleep" THEN sweep'[p].wake = clock + Period
       ELSE sweep'[p].at = sweep[p].at
    /\ UNCHANGED <<clock, lock, since, calm>>

LEMMA QueryProceeds ==
  ASSUME RemindersInv, NEW p \in Procs, R!Query(p)
  PROVE  Proceeds(p) /\ UNCHANGED <<starts, sent>>
  <1>1. ~R!At(p, "asleep") /\ UNCHANGED <<clock, lock, since, calm, starts, sent>>
    BY DEF R!Query, R!At
  <1>2. QED
    BY <1>1, QueryKeeps DEF Proceeds

LEMMA RemindProceeds ==
  ASSUME RemindersInv, NEW p \in Procs, NEW r \in R!Reminder, R!Remind(p, r)
  PROVE  /\ Proceeds(p) /\ UNCHANGED starts /\ sent'[r] > 0
         /\ \A x \in R!Reminder : sent[x] > 0 => sent'[x] > 0
  <1>1. UNCHANGED <<clock, lock, since, calm, starts>>
    BY DEF R!Remind
  <1>2. Kept(p) /\ sweep[p].step = "remind"
        /\ (IF sweep'[p].step = "asleep" THEN sweep'[p].wake = clock + Period
            ELSE sweep'[p].at = sweep[p].at)
    BY RemindKeeps
  <1>3. sent \in [R!Reminder -> 0..2] /\ sent' = [sent EXCEPT ![r] = IF @ = 0 THEN 1 ELSE 2]
    BY DEF R!Remind, RemindersInv, R!TypeOK
  <1>4. sent'[r] > 0 /\ \A x \in R!Reminder : sent[x] > 0 => sent'[x] > 0
    BY <1>3
  <1>5. QED
    BY <1>1, <1>2, <1>4 DEF Proceeds, R!At

LEMMA CommitProceeds ==
  ASSUME RemindersInv, NEW p \in Procs, R!Commit(p)
  PROVE  Proceeds(p) /\ UNCHANGED sent
  <1>1. ~R!At(p, "asleep") /\ UNCHANGED <<clock, lock, since, calm, sent>>
    BY DEF R!Commit, R!At
  <1>2. sweep[p] \in Sweep
    BY TimeTypes
  <1>3. Kept(p) /\ sweep'[p] = [sweep[p] EXCEPT !.step = "push", !.writes = {},
                                                !.pushes = sweep[p].writes]
    BY CommitKeeps
  <1>4. sweep'[p].step = "push" /\ sweep'[p].at = sweep[p].at
    BY <1>2, <1>3 DEF Sweep
  <1>5. QED
    BY <1>1, <1>3, <1>4 DEF Proceeds

LEMMA PushProceeds ==
  ASSUME RemindersInv, NEW p \in Procs, NEW r \in R!Reminder, R!Push(p, r)
  PROVE  Proceeds(p) /\ UNCHANGED <<starts, sent>>
  <1>1. UNCHANGED <<clock, lock, since, calm, starts, sent>>
    BY DEF R!Push
  <1>2. Kept(p) /\ sweep[p].step = "push"
        /\ (IF sweep'[p].step = "asleep" THEN sweep'[p].wake = clock + Period
            ELSE sweep'[p].at = sweep[p].at)
    BY PushKeeps
  <1>3. QED
    BY <1>1, <1>2 DEF Proceeds, R!At

LEMMA ProceedKeepsPhases ==
  ASSUME Timely, RemindersInv, PhaseInv, GoesOnInv, NEW p \in Procs, Proceeds(p)
  PROVE  PhaseInv' /\ GoesOnInv'
  <1>1. sweep[p].at <= clock /\ (calm => clock < sweep[p].at + SweepSpan)
        /\ ~R!At(p, "asleep")
    BY DEF PhaseInv, Proceeds
  <1>2. clock \in Int /\ Period \in Int /\ Period >= 0
    BY TimeTypes, RemindersAssumption
  <1>3. ASSUME NEW q \in Procs
        PROVE  IF sweep'[q].step = "asleep"
               THEN clock <= sweep'[q].wake /\ sweep'[q].wake <= clock + Period
               ELSE sweep'[q].at <= clock /\ (calm => clock < sweep'[q].at + SweepSpan)
    <2>1. CASE q = p
      BY <1>1, <1>2, <2>1 DEF Proceeds
    <2>2. CASE q # p
      BY <2>2 DEF Proceeds, Kept, PhaseInv, R!At
    <2>3. QED
      BY <2>1, <2>2
  <1>4. PhaseInv'
    BY <1>3 DEF PhaseInv, Proceeds, R!At
  <1>5. ASSUME calm' PROVE sweep'[p].step = "asleep" => lock' <= sweep'[p].wake
    <2>1. calm /\ lock' = lock /\ (sweep'[p].step = "asleep" => sweep'[p].wake = clock + Period)
      BY <1>5 DEF Proceeds
    <2>2. lock = sweep[p].at + Ttl
      BY <1>1, <2>1 DEF RemindersInv, AloneInv, KeepsLock
    <2>3. sweep[p].at + Ttl <= clock + Period
      BY <1>1, <2>1, TimeTypes, Intervals
    <2>4. QED
      BY <2>1, <2>2, <2>3
  <1>6. GoesOnInv'
    BY <1>5 DEF GoesOnInv, R!At
  <1>7. QED
    BY <1>4, <1>6

\* A sweep that began before the window opened is followed by one in time.
LEMMA EarlySweep ==
  ASSUME Timely, RemindersInv, PhaseInv, calm, NEW p \in Procs, Proceeds(p), NEW t \in Reminded,
         sweep[p].at <= Latest(t), sweep[p].at < Opens(t), starts'[t].start = starts[t].start
  PROVE  (Reaches(p, t) \/ WakesFor(p, t))'
  <1>1. sweep[p].at <= clock /\ clock < sweep[p].at + SweepSpan /\ ~R!At(p, "asleep")
    BY DEF PhaseInv, Proceeds
  <1>2. Latest(t)' = Latest(t) /\ Opens(t)' = Opens(t)
    BY DEF Latest, Opens
  <1>3. CASE sweep'[p].step = "asleep"
    <2>1. sweep'[p].wake = clock + Period /\ lock' = lock
      BY <1>3 DEF Proceeds
    <2>2. lock = sweep[p].at + Ttl
      BY <1>1 DEF RemindersInv, AloneInv, KeepsLock
    <2>3. clock + Period <= Latest(t) /\ sweep[p].at + Ttl <= clock + Period
      BY <1>1, TimeTypes, Intervals DEF Latest, Opens
    <2>4. QED
      BY <1>2, <1>3, <2>1, <2>2, <2>3 DEF WakesFor, R!At
  <1>4. CASE sweep'[p].step # "asleep"
    BY <1>2, <1>4 DEF Reaches, R!At, Proceeds
  <1>5. QED
    BY <1>3, <1>4

\* What is left to see, for each step of a sweep: that it does not pass by a
\* task whose window is open.
LEMMA ProceedAttends ==
  ASSUME Timely, RemindersInv, PhaseInv, InTimeInv, calm, NEW p \in Procs, Proceeds(p),
         NEW t \in Reminded, OwedLast(t), starts'[t].start = starts[t].start,
         /\ ~(sweep[p].at < Opens(t)) /\ sweep[p].at <= Latest(t)
         /\ ToCome(sweep[p]) \/ LastOf(t) \in sweep[p].found
         => Reaches(p, t)'
  PROVE  Attended(t)'
  <1>1. PICK q \in Procs : Reaches(q, t) \/ WakesFor(q, t)
    BY DEF InTimeInv, Attended
  <1>2. Latest(t)' = Latest(t) /\ Opens(t)' = Opens(t) /\ LastOf(t)' = LastOf(t) /\ lock' = lock
    BY DEF Latest, Opens, LastOf, Proceeds
  <1>3. CASE q # p
    <2>1. sweep'[q] = sweep[q]
      BY <1>3 DEF Proceeds, Kept
    <2>2. (Reaches(q, t) \/ WakesFor(q, t))'
      BY <1>1, <1>2, <2>1 DEF Reaches, WakesFor, R!At, ToCome
    <2>3. QED
      BY <2>2 DEF Attended
  <1>4. CASE q = p
    <2>1. Reaches(p, t)
      BY <1>1, <1>4 DEF WakesFor, Proceeds
    <2>2. CASE sweep[p].at < Opens(t)
      <3>1. (Reaches(p, t) \/ WakesFor(p, t))'
        BY <2>1, <2>2, EarlySweep DEF Reaches
      <3>2. QED
        BY <3>1 DEF Attended
    <2>3. CASE ~(sweep[p].at < Opens(t))
      <3>1. Reaches(p, t)'
        BY <2>1, <2>3 DEF Reaches
      <3>2. QED
        BY <3>1 DEF Attended
    <2>4. QED
      BY <2>2, <2>3
  <1>5. QED
    BY <1>3, <1>4

-----------------------------------------------------------------------------
(* Marks *)

\* The steps that emit nothing, mark nothing, and find and write nothing new.
LEMMA NothingMarked ==
  ASSUME RemindersInv, MarksInv, calm' => calm,
         \A r \in R!Reminder : sent[r] > 0 => sent'[r] > 0,
         \A t \in Reminded : starts'[t].start = starts[t].start
                             /\ (starts'[t].one => starts[t].one),
         \A p \in Procs : sweep'[p].writes \subseteq sweep[p].writes
                          /\ sweep'[p].found \subseteq sweep[p].found
  PROVE  MarksInv'
  <1> SUFFICES ASSUME calm' PROVE MarksInv'
    BY DEF MarksInv
  <1>1. \A p \in Procs : sweep[p].writes \subseteq R!Reminder /\ sweep[p].found \subseteq R!Reminder
    BY SweepTypes DEF RemindersInv
  <1>2. \A r \in R!Reminder : r.task \in Reminded
    BY DEF R!Reminder
  <1>4. ASSUME NEW t \in Reminded, starts'[t].one PROVE sent'[LastOf(t)'] > 0
    <2>1. LastOf(t)' = LastOf(t) /\ starts[t].one /\ LastOf(t) \in R!Reminder
      BY <1>4, TimeTypes DEF LastOf
    <2>2. sent[LastOf(t)] > 0
      BY <2>1 DEF MarksInv
    <2>3. QED
      BY <2>1, <2>2
  <1>5. ASSUME NEW p \in Procs, NEW r \in sweep'[p].writes
        PROVE  sent'[r] > 0 /\ r.start = starts'[r.task].start
    BY <1>1, <1>2 DEF MarksInv
  <1>6. ASSUME NEW p \in Procs, NEW r \in sweep'[p].found
        PROVE  r.start = starts'[r.task].start
    BY <1>1, <1>2 DEF MarksInv
  <1>7. QED
    BY <1>4, <1>5, <1>6 DEF MarksInv

LEMMA QueryMarks ==
  ASSUME RemindersInv, MarksInv, NEW p \in Procs, R!Query(p)
  PROVE  MarksInv'
  <1> SUFFICES ASSUME calm' PROVE MarksInv'
    BY DEF MarksInv
  <1>1. calm /\ UNCHANGED <<starts, sent>>
    BY DEF R!Query
  <1>2. Kept(p) /\ sweep'[p].found = R!Due(sweep[p].window) /\ sweep'[p].writes = sweep[p].writes
    BY QueryKeeps
  <1>3. \A r \in R!Due(sweep[p].window) : r.start = starts[r.task].start
    BY DEF R!Due
  <1>4. ASSUME NEW q \in Procs
        PROVE  /\ \A r \in sweep'[q].writes : sent[r] > 0 /\ r.start = starts[r.task].start
               /\ \A r \in sweep'[q].found : r.start = starts[r.task].start
    BY <1>1, <1>2, <1>3 DEF MarksInv, Kept
  <1>5. \A t \in Reminded : LastOf(t)' = LastOf(t)
    BY <1>1 DEF LastOf
  <1>6. QED
    BY <1>1, <1>4, <1>5 DEF MarksInv

LEMMA RemindMarks ==
  ASSUME RemindersInv, MarksInv, NEW p \in Procs, NEW r \in R!Reminder, R!Remind(p, r)
  PROVE  MarksInv'
  <1> SUFFICES ASSUME calm' PROVE MarksInv'
    BY DEF MarksInv
  <1>1. calm /\ UNCHANGED starts /\ r \in sweep[p].found
    BY DEF R!Remind
  <1>2. /\ Kept(p) /\ sweep'[p].found = sweep[p].found \ {r}
        /\ sweep'[p].writes = sweep[p].writes \cup {r}
    BY RemindKeeps
  <1>3. sent'[r] > 0
    BY RemindProceeds
  <1>4. \A x \in R!Reminder : sent[x] > 0 => sent'[x] > 0
    BY RemindProceeds
  <1>5. \A q \in Procs : sweep[q].writes \subseteq R!Reminder
    BY SweepTypes DEF RemindersInv
  <1>6. ASSUME NEW q \in Procs
        PROVE  /\ \A x \in sweep'[q].writes : sent'[x] > 0 /\ x.start = starts[x.task].start
               /\ \A x \in sweep'[q].found : x.start = starts[x.task].start
    <2>1. CASE q = p
      BY <1>1, <1>2, <1>3, <1>4, <1>5, <2>1 DEF MarksInv
    <2>2. CASE q # p
      BY <1>1, <1>2, <1>4, <1>5, <2>2 DEF MarksInv, Kept
    <2>3. QED
      BY <2>1, <2>2
  <1>7. \A t \in Reminded : LastOf(t)' = LastOf(t) /\ LastOf(t) \in R!Reminder
    BY <1>1, TimeTypes DEF LastOf
  <1>8. QED
    BY <1>1, <1>4, <1>6, <1>7 DEF MarksInv

LEMMA CommitMarks ==
  ASSUME RemindersInv, MarksInv, NEW p \in Procs, R!Commit(p)
  PROVE  MarksInv' /\ \A t \in Reminded : starts'[t].start = starts[t].start
                                          /\ starts'[t].open = starts[t].open
  <1> DEFINE marks(t) == {r \in sweep[p].writes : r.task = t}
  <1>1. /\ UNCHANGED <<sent, calm>>
        /\ starts' = [t \in Reminded |-> R!Marked(starts[t], marks(t))]
    BY DEF R!Commit
  <1>2. starts \in [Reminded -> [start : Starts, five : BOOLEAN, one : BOOLEAN, open : BOOLEAN]]
    BY DEF RemindersInv, R!TypeOK
  <1>3. ASSUME NEW t \in Reminded
        PROVE  /\ starts'[t].start = starts[t].start /\ starts'[t].open = starts[t].open
               /\ starts'[t].one => starts[t].one \/ \E r \in marks(t) : r.window = "one"
    BY <1>1, <1>2 DEF R!Marked
  <1>4. sweep[p].writes \subseteq R!Reminder /\ sweep[p] \in Sweep
    BY TimeTypes, SweepTypes DEF RemindersInv
  <1>5. \A q \in Procs : /\ sweep'[q].writes \subseteq sweep[q].writes
                         /\ sweep'[q].found \subseteq sweep[q].found
    <2>1. /\ Kept(p)
          /\ sweep'[p] = [sweep[p] EXCEPT !.step = "push", !.writes = {},
                                          !.pushes = sweep[p].writes]
      BY CommitKeeps
    <2>2. sweep'[p].writes = {} /\ sweep'[p].found = sweep[p].found
      BY <1>4, <2>1 DEF Sweep
    <2>3. QED
      BY <2>1, <2>2 DEF Kept
  <1>6. ASSUME calm PROVE MarksInv'
    <2>1. ASSUME NEW t \in Reminded, starts'[t].one PROVE sent[LastOf(t)] > 0
      <3>1. CASE starts[t].one
        BY <1>6, <3>1 DEF MarksInv
      <3>2. CASE \E r \in marks(t) : r.window = "one"
        <4>1. PICK r \in sweep[p].writes : r.task = t /\ r.window = "one"
          BY <3>2
        <4>2. sent[r] > 0 /\ r.start = starts[t].start
          BY <1>6, <4>1 DEF MarksInv
        <4>3. r = LastOf(t)
          BY <1>4, <4>1, <4>2 DEF R!Reminder, LastOf
        <4>4. QED
          BY <4>2, <4>3
      <3>3. QED
        BY <1>3, <2>1, <3>1, <3>2
    <2>2. \A t \in Reminded : LastOf(t)' = LastOf(t)
      BY <1>3 DEF LastOf
    <2>3. \A q \in Procs : sweep[q].writes \subseteq R!Reminder /\ sweep[q].found \subseteq R!Reminder
      BY SweepTypes DEF RemindersInv
    <2>4. \A r \in R!Reminder : r.task \in Reminded
      BY DEF R!Reminder
    <2>5. ASSUME NEW q \in Procs
          PROVE  /\ \A r \in sweep'[q].writes : sent[r] > 0 /\ r.start = starts'[r.task].start
                 /\ \A r \in sweep'[q].found : r.start = starts'[r.task].start
      BY <1>3, <1>5, <1>6, <2>3, <2>4 DEF MarksInv
    <2>6. QED
      BY <1>1, <2>1, <2>2, <2>5 DEF MarksInv
  <1>7. QED
    BY <1>1, <1>3, <1>6 DEF MarksInv

-----------------------------------------------------------------------------
(* The tasks *)

\* A start far enough ahead is attended to, whatever the processes are at.
LEMMA FarIsAttended ==
  ASSUME Timely, RemindersInv, PhaseInv, GoesOnInv, calm, NEW t \in Reminded, NEW s \in Int,
         clock + 2 * Period < s
  PROVE  \E p \in Procs :
            \/ /\ ~R!At(p, "asleep") /\ sweep[p].at <= s - SweepSpan + 1
               /\ sweep[p].at < s - 2 * Period
            \/ /\ R!At(p, "asleep") /\ lock <= sweep[p].wake
               /\ sweep[p].wake <= s - SweepSpan + 1
  <1>1. PICK p \in Procs : R!At(p, "asleep") => lock <= sweep[p].wake
    BY DEF GoesOnInv
  <1>2. /\ clock \in Int /\ sweep[p].at \in Int /\ sweep[p].wake \in Int /\ Period \in Int
        /\ SweepSpan \in Int
    BY TimeTypes
  <1>3. /\ clock < s - 2 * Period /\ clock <= s - SweepSpan + 1
        /\ \A w \in Int : w <= clock + Period => w <= s - SweepSpan + 1
    BY <1>2, FarAhead
  <1>4. CASE R!At(p, "asleep")
    BY <1>1, <1>2, <1>3, <1>4 DEF PhaseInv
  <1>5. CASE ~R!At(p, "asleep")
    <2>1. sweep[p].at <= clock
      BY <1>5 DEF PhaseInv
    <2>2. sweep[p].at <= s - SweepSpan + 1 /\ sweep[p].at < s - 2 * Period
      BY <1>2, <1>3, <2>1
    <2>3. QED
      BY <1>5, <2>2
  <1>6. QED
    BY <1>4, <1>5

\* An attended start is not past.
LEMMA AttendedIsAhead ==
  ASSUME Timely, RemindersInv, PhaseInv, calm, NEW t \in Reminded, Attended(t)
  PROVE  clock <= starts[t].start
  <1>1. PICK p \in Procs : Reaches(p, t) \/ WakesFor(p, t)
    BY DEF Attended
  <1>2. /\ clock \in Int /\ sweep[p].at \in Int /\ sweep[p].wake \in Int
        /\ starts[t].start \in Int /\ SweepSpan \in Int /\ SweepSpan >= 1
    BY TimeTypes
  <1>3. CASE Reaches(p, t)
    <2>1. sweep[p].at <= clock /\ clock < sweep[p].at + SweepSpan
          /\ sweep[p].at <= starts[t].start - SweepSpan + 1
      BY <1>3 DEF Reaches, PhaseInv, Latest
    <2>2. QED
      BY <1>2, <2>1
  <1>4. CASE WakesFor(p, t)
    <2>1. clock <= sweep[p].wake /\ sweep[p].wake <= starts[t].start - SweepSpan + 1
      BY <1>4 DEF WakesFor, PhaseInv, Latest
    <2>2. QED
      BY <1>2, <2>1
  <1>5. QED
    BY <1>1, <1>3, <1>4

\* What a move leaves of the other tasks, and of the sweeps.
LEMMA MoveLeaves ==
  ASSUME RemindersInv, NEW t \in Reminded, NEW start \in Starts, R!Move(t, start)
  PROVE  /\ \A u \in Reminded : u # t => starts'[u] = starts[u] /\ since'[u] = since[u]
         /\ starts'[t].start = start /\ ~starts'[t].one /\ since'[t] = clock
         /\ \A r \in R!Reminder : r.task # t => sent'[r] = sent[r]
         /\ \A p \in Procs : \A r \in sweep[p].writes : r.task # t
         /\ calm' => calm /\ \A p \in Procs : \A r \in sweep[p].found : r.task # t
         /\ UNCHANGED <<clock, lock, sweep>>
  <1>1. /\ starts \in [Reminded -> [start : Starts, five : BOOLEAN, one : BOOLEAN, open : BOOLEAN]]
        /\ since \in [Reminded -> 0..LastInstant] /\ calm \in BOOLEAN
    BY DEF RemindersInv, R!TypeOK
  <1>2. /\ starts' = [starts EXCEPT ![t].start = start, ![t].five = FALSE, ![t].one = FALSE]
        /\ since' = [since EXCEPT ![t] = clock]
        /\ sent' = [r \in R!Reminder |-> IF r.task = t THEN 0 ELSE sent[r]]
        /\ calm' = (calm /\ ~R!Found(t)) /\ ~R!Locked(Nil, t)
        /\ UNCHANGED <<clock, lock, sweep>>
    BY DEF R!Move
  <1>3. \A p \in Procs : \A r \in sweep[p].writes : r.task # t
    BY <1>2, RemindersAssumption DEF R!Locked
  <1>4. calm' => calm /\ \A p \in Procs : \A r \in sweep[p].found : r.task # t
    BY <1>1, <1>2 DEF R!Found
  <1>5. starts'[t].start = start /\ ~starts'[t].one
        /\ \A u \in Reminded : u # t => starts'[u] = starts[u]
    BY <1>1, <1>2
  <1>6. QED
    BY <1>1, <1>2, <1>3, <1>4, <1>5

LEMMA MoveMarks ==
  ASSUME RemindersInv, MarksInv, NEW t \in Reminded, NEW start \in Starts, R!Move(t, start)
  PROVE  MarksInv'
  <1> SUFFICES ASSUME calm' PROVE MarksInv'
    BY DEF MarksInv
  <1>1. /\ \A u \in Reminded : u # t => starts'[u] = starts[u]
        /\ ~starts'[t].one /\ calm /\ UNCHANGED sweep
        /\ \A r \in R!Reminder : r.task # t => sent'[r] = sent[r]
        /\ \A p \in Procs : \A r \in sweep[p].writes : r.task # t
        /\ \A p \in Procs : \A r \in sweep[p].found : r.task # t
    BY MoveLeaves
  <1>2. \A p \in Procs : sweep[p].writes \subseteq R!Reminder /\ sweep[p].found \subseteq R!Reminder
    BY SweepTypes DEF RemindersInv
  <1>3. \A r \in R!Reminder : r.task \in Reminded
    BY DEF R!Reminder
  <1>4. ASSUME NEW u \in Reminded, starts'[u].one PROVE sent'[LastOf(u)'] > 0
    <2>1. u # t /\ starts'[u] = starts[u]
      BY <1>1, <1>4
    <2>2. LastOf(u)' = LastOf(u) /\ LastOf(u) \in R!Reminder /\ LastOf(u).task = u
      BY <2>1, TimeTypes DEF LastOf
    <2>3. sent[LastOf(u)] > 0
      BY <1>1, <1>4, <2>1 DEF MarksInv
    <2>4. QED
      BY <1>1, <2>1, <2>2, <2>3
  <1>5. ASSUME NEW p \in Procs
        PROVE  /\ \A r \in sweep'[p].writes : sent'[r] > 0 /\ r.start = starts'[r.task].start
               /\ \A r \in sweep'[p].found : r.start = starts'[r.task].start
    BY <1>1, <1>2, <1>3 DEF MarksInv
  <1>6. QED
    BY <1>4, <1>5 DEF MarksInv

-----------------------------------------------------------------------------
(* Every step *)

LEMMA StepKeepsPhases ==
  ASSUME Timely, TimelyInv, [R!Next]_R!vars
  PROVE  PhaseInv' /\ GoesOnInv'
  <1>1. RemindersInv /\ PhaseInv /\ GoesOnInv /\ SweepsOK
    BY DEF TimelyInv, RemindersInv
  <1>2. /\ clock \in Int /\ lock \in Nat /\ calm \in BOOLEAN /\ Period \in Nat
        /\ SweepSpan \in Nat /\ SweepSpan >= 1
        /\ \A p \in Procs : sweep[p] \in Sweep /\ sweep[p].at \in Int /\ sweep[p].wake \in Nat
    BY <1>1, TimeTypes, RemindersAssumption
  <1>3. ASSUME UNCHANGED <<sweep, clock, lock>>, calm' => calm PROVE PhaseInv' /\ GoesOnInv'
    BY <1>1, <1>3 DEF PhaseInv, GoesOnInv, R!At
  <1>4. ASSUME NEW p \in Procs, NEW w \in Int, clock <= w, w <= clock + Period, Kept(p),
               sweep'[p] = R!Asleep(w), UNCHANGED clock, calm' => calm
        PROVE  PhaseInv'
    <2>1. sweep'[p].step = "asleep" /\ sweep'[p].wake = w
      BY <1>4 DEF R!Asleep
    <2>2. ASSUME NEW q \in Procs
          PROVE  IF sweep'[q].step = "asleep"
                 THEN clock <= sweep'[q].wake /\ sweep'[q].wake <= clock + Period
                 ELSE sweep'[q].at <= clock /\ (calm' => clock < sweep'[q].at + SweepSpan)
      BY <1>1, <1>4, <2>1 DEF Kept, PhaseInv, R!At
    <2>3. QED
      BY <1>4, <2>2 DEF PhaseInv, R!At
  <1>5. ASSUME NEW p \in Procs, R!Skip(p) PROVE PhaseInv' /\ GoesOnInv'
    <2>1. Kept(p) /\ sweep'[p] = R!Asleep(clock + Period)
      BY <1>1, <1>5, SkipKeeps
    <2>2. /\ R!At(p, "asleep") /\ sweep[p].wake <= clock /\ ~R!Taken
          /\ UNCHANGED <<clock, lock, calm>>
      BY <1>5 DEF R!Skip
    <2>3. PhaseInv'
      BY <1>2, <1>4, <2>1, <2>2
    <2>4. ASSUME calm PROVE \E q \in Procs : R!At(q, "asleep")' => lock' <= sweep'[q].wake
      <3>1. PICK q \in Procs : R!At(q, "asleep") => lock <= sweep[q].wake
        BY <1>1, <2>4 DEF GoesOnInv
      <3>2. lock > clock
        BY <1>2, <2>2 DEF R!Taken
      <3>3. q # p
        BY <1>2, <2>2, <3>1, <3>2
      <3>4. sweep'[q] = sweep[q]
        BY <2>1, <3>3 DEF Kept
      <3>5. QED
        BY <2>2, <3>1, <3>4 DEF R!At
    <2>5. GoesOnInv'
      BY <2>2, <2>4 DEF GoesOnInv
    <2>6. QED
      BY <2>3, <2>5
  <1>6. ASSUME NEW p \in Procs, R!Wake(p) PROVE PhaseInv' /\ GoesOnInv'
    <2>1. Kept(p) /\ sweep'[p] = [sweep[p] EXCEPT !.step = "query", !.at = clock]
      BY <1>1, <1>6, WakeKeeps
    <2>2. UNCHANGED <<clock, calm>>
      BY <1>6 DEF R!Wake
    <2>3. sweep'[p].step = "query" /\ sweep'[p].at = clock
      BY <1>2, <2>1 DEF Sweep
    <2>4. clock < clock + SweepSpan
      BY <1>2
    <2>5. ASSUME NEW q \in Procs
          PROVE  IF sweep'[q].step = "asleep"
                 THEN clock <= sweep'[q].wake /\ sweep'[q].wake <= clock + Period
                 ELSE sweep'[q].at <= clock /\ (calm => clock < sweep'[q].at + SweepSpan)
      <3>1. CASE q = p
        BY <1>2, <2>3, <2>4, <3>1
      <3>2. CASE q # p
        BY <1>1, <2>1, <3>2 DEF Kept, PhaseInv, R!At
      <3>3. QED
        BY <3>1, <3>2
    <2>6. PhaseInv'
      BY <2>2, <2>5 DEF PhaseInv, R!At
    <2>7. GoesOnInv'
      BY <2>3 DEF GoesOnInv, R!At
    <2>8. QED
      BY <2>6, <2>7
  <1>7. ASSUME NEW p \in Procs, Proceeds(p) PROVE PhaseInv' /\ GoesOnInv'
    BY <1>1, <1>7, ProceedKeepsPhases
  <1>8. ASSUME NEW p \in Procs,
               \/ R!Query(p) \/ R!Commit(p)
               \/ \E r \in R!Reminder : R!Remind(p, r) \/ R!Push(p, r)
        PROVE  Proceeds(p)
    BY <1>1, <1>8, QueryProceeds, CommitProceeds, RemindProceeds, PushProceeds
  <1>9. ASSUME NEW p \in Procs, R!Fail(p) PROVE PhaseInv' /\ GoesOnInv'
    <2>1. Kept(p) /\ sweep'[p] = R!Asleep(clock + Period) /\ ~calm' /\ UNCHANGED clock
      BY <1>1, <1>9, FailKeeps DEF R!Fail
    <2>2. PhaseInv'
      BY <1>2, <1>4, <2>1
    <2>3. QED
      BY <2>1, <2>2 DEF GoesOnInv
  <1>10. ASSUME NEW p \in Procs, R!Restart(p) PROVE PhaseInv' /\ GoesOnInv'
    <2>1. Kept(p) /\ sweep'[p] = R!Asleep(clock) /\ ~calm' /\ UNCHANGED clock
      BY <1>1, <1>10, RestartKeeps DEF R!Restart
    <2>2. PhaseInv'
      BY <1>2, <1>4, <2>1
    <2>3. QED
      BY <2>1, <2>2 DEF GoesOnInv
  <1>11. ASSUME NEW t \in Reminded, \/ R!Finish(t)
                                    \/ \E start \in Starts : R!Move(t, start)
                                    \/ \E five, one \in BOOLEAN : R!MergeCopy(t, five, one)
         PROVE  PhaseInv' /\ GoesOnInv'
    BY <1>2, <1>3, <1>11 DEF R!Finish, R!Move, R!MergeCopy
  <1>12. ASSUME NEW d \in Devices, NEW u \in People, R!Subscribe(d, u) \/ R!Unsubscribe(d, u)
         PROVE  PhaseInv' /\ GoesOnInv'
    BY <1>3, <1>12 DEF R!Subscribe, R!Unsubscribe
  <1>13. CASE R!RedisDown
    BY <1>1, <1>13 DEF R!RedisDown, PhaseInv, GoesOnInv, R!At
  <1>14. CASE R!Tick
    <2>1. /\ clock' = clock + 1 /\ UNCHANGED sweep
          /\ lock' = IF lock <= clock + 1 THEN 0 ELSE lock
          /\ \A p \in Procs : R!At(p, "asleep") => sweep[p].wake > clock
          /\ calm' => calm /\ ~\E p \in R!Sweeping : clock + 1 >= sweep[p].at + SweepSpan
      BY <1>2, <1>14 DEF R!Tick
    <2>2. ASSUME NEW p \in Procs, R!At(p, "asleep")
          PROVE  clock + 1 <= sweep[p].wake /\ sweep[p].wake <= clock + 1 + Period
      BY <1>1, <1>2, <2>1, <2>2 DEF PhaseInv
    <2>3. ASSUME NEW p \in Procs, ~R!At(p, "asleep")
          PROVE  sweep[p].at <= clock + 1 /\ (calm' => clock + 1 < sweep[p].at + SweepSpan)
      <3>1. sweep[p].at <= clock
        BY <1>1, <2>3 DEF PhaseInv
      <3>2. calm' => ~(clock + 1 >= sweep[p].at + SweepSpan)
        BY <2>1, <2>3 DEF R!Sweeping
      <3>3. QED
        BY <1>2, <3>1, <3>2
    <2>4. PhaseInv'
      BY <2>1, <2>2, <2>3 DEF PhaseInv, R!At
    <2>5. lock' <= lock
      BY <1>2, <2>1
    <2>6. \A p \in Procs : lock <= sweep[p].wake => lock' <= sweep[p].wake
      BY <1>2, <2>1
    <2>7. GoesOnInv'
      BY <1>1, <2>1, <2>6 DEF GoesOnInv, R!At
    <2>8. QED
      BY <2>4, <2>7
  <1>15. CASE R!Finished \/ UNCHANGED R!vars
    BY <1>3, <1>15 DEF R!Finished, R!vars
  <1>16. QED
    BY <1>5, <1>6, <1>7, <1>8, <1>9, <1>10, <1>11, <1>12, <1>13, <1>14, <1>15 DEF R!Next

LEMMA StepKeepsMarks ==
  ASSUME TimelyInv, [R!Next]_R!vars
  PROVE  MarksInv'
  <1>1. RemindersInv /\ MarksInv /\ calm \in BOOLEAN
    BY TimeTypes DEF TimelyInv
  <1>2. ASSUME UNCHANGED <<starts, sent, sweep>>, calm' => calm PROVE MarksInv'
    BY <1>1, <1>2, NothingMarked
  <1>3. ASSUME NEW p \in Procs, Kept(p), UNCHANGED <<starts, sent, calm>>,
               sweep'[p].writes \subseteq sweep[p].writes, sweep'[p].found \subseteq sweep[p].found
        PROVE  MarksInv'
    <2>1. \A q \in Procs : /\ sweep'[q].writes \subseteq sweep[q].writes
                           /\ sweep'[q].found \subseteq sweep[q].found
      BY <1>3 DEF Kept
    <2>2. QED
      BY <1>1, <1>3, <2>1, NothingMarked
  <1>4. ASSUME NEW p \in Procs, R!Skip(p) PROVE MarksInv'
    <2>1. Kept(p) /\ sweep'[p].writes = {} /\ sweep'[p].found = {}
      BY <1>1, <1>4, SkipKeeps DEF R!Asleep
    <2>2. UNCHANGED <<starts, sent, calm>>
      BY <1>4 DEF R!Skip
    <2>3. QED
      BY <1>3, <2>1, <2>2
  <1>5. ASSUME NEW p \in Procs, R!Wake(p) PROVE MarksInv'
    <2>1. Kept(p) /\ sweep'[p] = [sweep[p] EXCEPT !.step = "query", !.at = clock]
          /\ sweep[p] \in Sweep
      BY <1>1, <1>5, WakeKeeps, TimeTypes
    <2>2. sweep'[p].writes = sweep[p].writes /\ sweep'[p].found = sweep[p].found
      BY <2>1 DEF Sweep
    <2>3. UNCHANGED <<starts, sent, calm>>
      BY <1>5 DEF R!Wake
    <2>4. QED
      BY <1>3, <2>1, <2>2, <2>3
  <1>6. ASSUME NEW p \in Procs, NEW r \in R!Reminder, R!Push(p, r) PROVE MarksInv'
    <2>1. Kept(p) /\ sweep'[p].writes = {} /\ sweep'[p].found = {}
      BY <1>1, <1>6, PushKeeps
    <2>2. UNCHANGED <<starts, sent, calm>>
      BY <1>6 DEF R!Push
    <2>3. QED
      BY <1>3, <2>1, <2>2
  <1>7. ASSUME NEW p \in Procs, R!Fail(p) \/ R!Restart(p) PROVE MarksInv'
    BY <1>7 DEF R!Fail, R!Restart, MarksInv
  <1>8. ASSUME NEW t \in Reminded, R!Finish(t) PROVE MarksInv'
    <2>1. starts \in [Reminded -> [start : Starts, five : BOOLEAN, one : BOOLEAN, open : BOOLEAN]]
      BY <1>1 DEF RemindersInv, R!TypeOK
    <2>2. \A u \in Reminded : starts'[u].start = starts[u].start /\ starts'[u].one = starts[u].one
      BY <1>8, <2>1 DEF R!Finish
    <2>3. UNCHANGED <<sent, sweep, calm>>
      BY <1>8 DEF R!Finish
    <2>4. QED
      BY <1>1, <2>2, <2>3, NothingMarked
  <1>9. ASSUME NEW d \in Devices, NEW u \in People, R!Subscribe(d, u) \/ R!Unsubscribe(d, u)
        PROVE  MarksInv'
    BY <1>2, <1>9 DEF R!Subscribe, R!Unsubscribe
  <1>10. CASE \/ R!RedisDown
              \/ \E t \in Reminded : \E five, one \in BOOLEAN : R!MergeCopy(t, five, one)
    BY <1>10 DEF R!RedisDown, R!MergeCopy, MarksInv
  <1>11. CASE R!Tick
    BY <1>1, <1>2, <1>11 DEF R!Tick
  <1>12. CASE R!Finished \/ UNCHANGED R!vars
    BY <1>2, <1>12 DEF R!Finished, R!vars
  <1>13. ASSUME NEW p \in Procs,
                R!Query(p) \/ R!Commit(p) \/ \E r \in R!Reminder : R!Remind(p, r)
         PROVE  MarksInv'
    BY <1>1, <1>13, QueryMarks, CommitMarks, RemindMarks
  <1>14. ASSUME NEW t \in Reminded, NEW start \in Starts, R!Move(t, start) PROVE MarksInv'
    BY <1>1, <1>14, MoveMarks
  <1>15. QED
    BY <1>4, <1>5, <1>6, <1>7, <1>8, <1>9, <1>10, <1>11, <1>12, <1>13, <1>14 DEF R!Next

-----------------------------------------------------------------------------
(* A task is attended to until it was reminded of *)

LEMMA StaysOwed ==
  ASSUME RemindersInv, NEW t \in Reminded, OwedLast(t)',
         starts'[t].start = starts[t].start, starts'[t].open => starts[t].open,
         since'[t] = since[t], \A r \in R!Reminder : sent[r] > 0 => sent'[r] > 0
  PROVE  OwedLast(t)
  <1>1. LastOf(t) \in R!Reminder /\ LastOf(t)' = LastOf(t)
    BY TimeTypes DEF LastOf
  <1>2. sent[LastOf(t)] \in Int /\ sent[LastOf(t)] >= 0 /\ ~(sent'[LastOf(t)] > 0)
    BY <1>1, TimeTypes DEF OwedLast
  <1>3. sent[LastOf(t)] = 0
    BY <1>1, <1>2
  <1>4. QED
    BY <1>3 DEF OwedLast

LEMMA QueryAttends ==
  ASSUME Timely, TimelyInv, calm, NEW p \in Procs, R!Query(p), NEW t \in Reminded, OwedLast(t)
  PROVE  Attended(t)'
  <1>1. RemindersInv /\ PhaseInv /\ InTimeInv /\ MarksInv
    BY DEF TimelyInv
  <1>2. Proceeds(p) /\ UNCHANGED <<starts, sent, since, clock>> /\ sweep[p].step = "query"
    BY <1>1, QueryProceeds DEF R!Query, R!At
  <1>3. Latest(t)' = Latest(t) /\ Opens(t)' = Opens(t) /\ LastOf(t)' = LastOf(t)
    BY <1>2 DEF Latest, Opens, LastOf
  <1>4. /\ sweep'[p].found = R!Due(sweep[p].window)
        /\ IF sweep'[p].step = "asleep" THEN sweep'[p].wake = clock + Period
           ELSE sweep'[p].at = sweep[p].at
        /\ sweep'[p].found # {} => /\ sweep'[p].step = "remind"
                                   /\ sweep'[p].window = sweep[p].window
        /\ sweep'[p].found = {} /\ sweep[p].window = "five" => sweep'[p].step = "query"
    BY <1>1, QueryKeeps
  <1>5. ASSUME ~(sweep[p].at < Opens(t)), sweep[p].at <= Latest(t) PROVE Reaches(p, t)'
    <2>1. CASE sweep[p].window = "five"
      <3>1. ToCome(sweep'[p]) /\ sweep'[p].step # "asleep" /\ sweep'[p].at = sweep[p].at
        BY <1>4, <2>1 DEF ToCome
      <3>2. QED
        BY <1>3, <1>5, <3>1 DEF Reaches, R!At
    <2>2. CASE sweep[p].window = "one"
      <3>1. /\ sweep[p].at <= clock /\ clock < sweep[p].at + SweepSpan
        BY <1>1, <1>2 DEF PhaseInv, R!At
      <3>2. /\ clock \in Int /\ sweep[p].at \in Int /\ starts[t].start \in Int /\ Period \in Int
            /\ SweepSpan \in Int /\ starts[t].one \in BOOLEAN
        BY <1>1, TimeTypes
      <3>3. clock <= starts[t].start
        BY <1>5, <3>1, <3>2, Intervals DEF Latest
      <3>4. starts[t].start <= clock + 2 * Period
        BY <1>5, <3>1, <3>2 DEF Opens
      <3>5. ~starts[t].one
        BY <1>1 DEF MarksInv, OwedLast
      <3>6. starts[t].open
        BY DEF OwedLast
      <3>7. R!InWindow("one", starts[t].start) /\ R!Unmarked(starts[t], "one")
        BY <3>3, <3>4, <3>5, <3>6 DEF R!InWindow, R!Unmarked
      <3>8. LastOf(t) \in R!Due("one")
        BY <3>7 DEF R!Due, LastOf
      <3>9. LastOf(t) \in sweep'[p].found /\ sweep'[p].step = "remind"
            /\ sweep'[p].at = sweep[p].at
        BY <1>4, <2>2, <3>8
      <3>10. QED
        BY <1>3, <1>5, <3>9 DEF Reaches, R!At
    <2>3. sweep[p].window \in {"five", "one"}
      BY <1>1, SweepTypes DEF RemindersInv, R!Windows
    <2>4. QED
      BY <2>1, <2>2, <2>3
  <1>6. QED
    BY <1>1, <1>2, <1>5, ProceedAttends

LEMMA RemindAttends ==
  ASSUME Timely, TimelyInv, calm, NEW p \in Procs, NEW r \in R!Reminder, R!Remind(p, r),
         NEW t \in Reminded, OwedLast(t), OwedLast(t)'
  PROVE  Attended(t)'
  <1>1. RemindersInv /\ PhaseInv /\ InTimeInv
    BY DEF TimelyInv
  <1>2. Proceeds(p) /\ UNCHANGED starts /\ sent'[r] > 0
    BY <1>1, RemindProceeds
  <1>3. Latest(t)' = Latest(t) /\ Opens(t)' = Opens(t) /\ LastOf(t)' = LastOf(t)
    BY <1>2 DEF Latest, Opens, LastOf
  <1>4. /\ sweep[p].step = "remind" /\ sweep'[p].found = sweep[p].found \ {r}
        /\ IF sweep'[p].step = "asleep" THEN sweep'[p].wake = clock + Period
           ELSE sweep'[p].at = sweep[p].at
        /\ sweep'[p].found # {} => /\ sweep'[p].step = "remind"
                                   /\ sweep'[p].window = sweep[p].window
        /\ sweep'[p].found = {} /\ sweep[p].window = "five" => sweep'[p].step = "query"
    BY <1>1, RemindKeeps
  <1>5. r # LastOf(t)
    BY <1>2, <1>3 DEF OwedLast
  <1>6. ASSUME sweep[p].at <= Latest(t), ToCome(sweep[p]) \/ LastOf(t) \in sweep[p].found
        PROVE  Reaches(p, t)'
    <2>1. CASE LastOf(t) \in sweep[p].found
      <3>1. LastOf(t) \in sweep'[p].found /\ sweep'[p].step = "remind"
            /\ sweep'[p].at = sweep[p].at
        BY <1>4, <1>5, <2>1
      <3>2. QED
        BY <1>3, <1>6, <3>1 DEF Reaches, R!At
    <2>2. CASE ToCome(sweep[p])
      <3>1. sweep[p].window = "five"
        BY <1>4, <2>2 DEF ToCome
      <3>2. ToCome(sweep'[p]) /\ sweep'[p].step # "asleep" /\ sweep'[p].at = sweep[p].at
        BY <1>4, <3>1 DEF ToCome
      <3>3. QED
        BY <1>3, <1>6, <3>2 DEF Reaches, R!At
    <2>3. QED
      BY <1>6, <2>1, <2>2
  <1>7. QED
    BY <1>1, <1>2, <1>6, ProceedAttends

LEMMA CommitAttends ==
  ASSUME Timely, TimelyInv, calm, NEW p \in Procs, R!Commit(p), NEW t \in Reminded, OwedLast(t)
  PROVE  Attended(t)'
  <1>1. RemindersInv /\ PhaseInv /\ InTimeInv /\ MarksInv
    BY DEF TimelyInv
  <1>2. Proceeds(p) /\ starts'[t].start = starts[t].start
    BY <1>1, CommitProceeds, CommitMarks
  <1>3. sweep[p].found = {} /\ sweep[p].step = "commit"
    BY <1>1, CommitKeeps
  <1>4. ~(ToCome(sweep[p]) \/ LastOf(t) \in sweep[p].found)
    BY <1>3 DEF ToCome
  <1>5. QED
    BY <1>1, <1>2, <1>4, ProceedAttends

LEMMA PushAttends ==
  ASSUME Timely, TimelyInv, calm, NEW p \in Procs, NEW r \in R!Reminder, R!Push(p, r),
         NEW t \in Reminded, OwedLast(t)
  PROVE  Attended(t)'
  <1>1. RemindersInv /\ PhaseInv /\ InTimeInv
    BY DEF TimelyInv
  <1>2. Proceeds(p) /\ UNCHANGED starts
    BY <1>1, PushProceeds
  <1>3. sweep[p].step = "push" /\ Orderly(sweep[p])
    BY <1>1, PushKeeps DEF RemindersInv, OrderInv
  <1>4. ~(ToCome(sweep[p]) \/ LastOf(t) \in sweep[p].found)
    BY <1>3 DEF ToCome, Orderly
  <1>5. QED
    BY <1>1, <1>2, <1>4, ProceedAttends

LEMMA MoveAttends ==
  ASSUME Timely, TimelyInv, calm, NEW m \in Reminded, NEW start \in Starts, R!Move(m, start),
         NEW t \in Reminded, OwedLast(t)'
  PROVE  Attended(t)'
  <1>1. RemindersInv /\ PhaseInv /\ GoesOnInv /\ InTimeInv
    BY DEF TimelyInv
  <1>2. /\ \A u \in Reminded : u # m => starts'[u] = starts[u] /\ since'[u] = since[u]
        /\ starts'[m].start = start /\ since'[m] = clock
        /\ \A r \in R!Reminder : r.task # m => sent'[r] = sent[r]
        /\ UNCHANGED <<clock, lock, sweep>>
    BY <1>1, MoveLeaves
  <1>3. CASE t = m
    <2>1. start \in Int /\ clock + 2 * Period < start
      BY <1>2, <1>3, RemindersAssumption DEF OwedLast
    <2>2. PICK p \in Procs :
            \/ /\ ~R!At(p, "asleep") /\ sweep[p].at <= start - SweepSpan + 1
               /\ sweep[p].at < start - 2 * Period
            \/ /\ R!At(p, "asleep") /\ lock <= sweep[p].wake
               /\ sweep[p].wake <= start - SweepSpan + 1
      BY <1>1, <2>1, FarIsAttended
    <2>3. (Reaches(p, t) \/ WakesFor(p, t))'
      BY <1>2, <1>3, <2>2 DEF Reaches, WakesFor, Latest, Opens, R!At
    <2>4. QED
      BY <2>3 DEF Attended
  <1>4. CASE t # m
    <2>1. starts'[t] = starts[t] /\ since'[t] = since[t]
      BY <1>2, <1>4
    <2>2. LastOf(t) \in R!Reminder /\ LastOf(t).task # m /\ LastOf(t)' = LastOf(t)
          /\ Latest(t)' = Latest(t) /\ Opens(t)' = Opens(t)
      BY <1>1, <1>4, <2>1, TimeTypes DEF LastOf, Latest, Opens
    <2>3. OwedLast(t)
      BY <1>2, <2>1, <2>2 DEF OwedLast
    <2>4. PICK p \in Procs : Reaches(p, t) \/ WakesFor(p, t)
      BY <1>1, <2>3 DEF InTimeInv, Attended
    <2>5. (Reaches(p, t) \/ WakesFor(p, t))'
      BY <1>2, <2>2, <2>4 DEF Reaches, WakesFor, R!At
    <2>6. QED
      BY <2>5 DEF Attended
  <1>5. QED
    BY <1>3, <1>4

LEMMA StepKeepsInTime ==
  ASSUME Timely, TimelyInv, [R!Next]_R!vars
  PROVE  InTimeInv'
  <1>1. RemindersInv /\ PhaseInv /\ InTimeInv
    BY DEF TimelyInv
  <1> SUFFICES ASSUME calm', NEW t \in Reminded, OwedLast(t)' PROVE Attended(t)'
    BY DEF InTimeInv
  <1>2. /\ clock \in Int /\ lock \in Nat /\ calm \in BOOLEAN
        /\ \A p \in Procs : sweep[p] \in Sweep /\ sweep[p].at \in Int /\ sweep[p].wake \in Nat
        /\ LastOf(t) \in R!Reminder
    BY <1>1, TimeTypes
  <1>3. ASSUME calm, UNCHANGED <<sent, since>>,
               starts'[t].start = starts[t].start, starts'[t].open => starts[t].open
        PROVE  OwedLast(t) /\ \E p \in Procs : Reaches(p, t) \/ WakesFor(p, t)
    <2>1. OwedLast(t)
      BY <1>1, <1>3, StaysOwed
    <2>2. QED
      BY <1>1, <1>3, <2>1 DEF InTimeInv, Attended
  <1>4. ASSUME calm, UNCHANGED <<sent, since, sweep>>, lock' <= lock, lock' \in Int,
               starts'[t].start = starts[t].start, starts'[t].open => starts[t].open
        PROVE  Attended(t)'
    <2>1. PICK p \in Procs : Reaches(p, t) \/ WakesFor(p, t)
      BY <1>3, <1>4
    <2>2. LastOf(t)' = LastOf(t) /\ Latest(t)' = Latest(t) /\ Opens(t)' = Opens(t)
      BY <1>4 DEF LastOf, Latest, Opens
    <2>3. lock <= sweep[p].wake => lock' <= sweep[p].wake
      BY <1>2, <1>4
    <2>4. (Reaches(p, t) \/ WakesFor(p, t))'
      BY <1>4, <2>1, <2>2, <2>3 DEF Reaches, WakesFor, R!At
    <2>5. QED
      BY <2>4 DEF Attended
  <1>5. ASSUME NEW p \in Procs, R!Skip(p) PROVE Attended(t)'
    <2>1. Kept(p)
      BY <1>1, <1>5, SkipKeeps
    <2>2. /\ R!At(p, "asleep") /\ sweep[p].wake <= clock /\ ~R!Taken
          /\ UNCHANGED <<clock, lock, calm, starts, sent, since>>
      BY <1>5 DEF R!Skip
    <2>3. PICK q \in Procs : Reaches(q, t) \/ WakesFor(q, t)
      BY <1>3, <2>2
    <2>4. lock > clock
      BY <1>2, <2>2 DEF R!Taken
    <2>5. q # p
      BY <1>2, <2>2, <2>3, <2>4 DEF Reaches, WakesFor
    <2>6. sweep'[q] = sweep[q]
      BY <2>1, <2>5 DEF Kept
    <2>7. (Reaches(q, t) \/ WakesFor(q, t))'
      BY <2>2, <2>3, <2>6 DEF Reaches, WakesFor, R!At, LastOf, Latest, Opens
    <2>8. QED
      BY <2>7 DEF Attended
  <1>6. ASSUME NEW p \in Procs, R!Wake(p) PROVE Attended(t)'
    <2>1. Kept(p) /\ sweep'[p] = [sweep[p] EXCEPT !.step = "query", !.at = clock]
      BY <1>1, <1>6, WakeKeeps
    <2>2. R!Taken /\ UNCHANGED <<calm, starts, sent, since>>
      BY <1>6 DEF R!Wake
    <2>3. PICK q \in Procs : Reaches(q, t) \/ WakesFor(q, t)
      BY <1>3, <2>2
    <2>4. R!At(q, "asleep")
      BY <1>1, <2>2, TakenWhenFree
    <2>5. clock <= sweep[q].wake /\ sweep[q].wake <= Latest(t)
      BY <1>1, <2>3, <2>4 DEF Reaches, WakesFor, PhaseInv
    <2>6. Latest(t) \in Int /\ Latest(t)' = Latest(t)
      BY <1>1, <2>2, TimeTypes DEF Latest
    <2>7. clock <= Latest(t)
      BY <1>2, <2>5, <2>6
    <2>8. sweep'[p].step = "query" /\ sweep'[p].at = clock
      BY <1>2, <2>1 DEF Sweep
    <2>9. Reaches(p, t)'
      BY <2>6, <2>7, <2>8 DEF Reaches, R!At, ToCome
    <2>10. QED
      BY <2>9 DEF Attended
  <1>7. ASSUME NEW p \in Procs, R!Query(p) PROVE Attended(t)'
    <2>1. calm /\ UNCHANGED <<starts, sent, since>>
      BY <1>7 DEF R!Query
    <2>2. QED
      BY <1>3, <1>7, <2>1, QueryAttends
  <1>8. ASSUME NEW p \in Procs, NEW r \in R!Reminder, R!Remind(p, r) PROVE Attended(t)'
    <2>1. calm /\ UNCHANGED <<starts, since>> /\ \A x \in R!Reminder : sent[x] > 0 => sent'[x] > 0
      BY <1>1, <1>8, RemindProceeds DEF R!Remind
    <2>2. OwedLast(t)
      BY <1>1, <2>1, StaysOwed
    <2>3. QED
      BY <1>8, <2>1, <2>2, RemindAttends
  <1>9. ASSUME NEW p \in Procs, R!Commit(p) PROVE Attended(t)'
    <2>1. calm /\ UNCHANGED <<sent, since>>
      BY <1>9 DEF R!Commit
    <2>2. starts'[t].start = starts[t].start /\ starts'[t].open = starts[t].open
      BY <1>9, CommitMarks DEF TimelyInv
    <2>3. QED
      BY <1>3, <1>9, <2>1, <2>2, CommitAttends
  <1>10. ASSUME NEW p \in Procs, NEW r \in R!Reminder, R!Push(p, r) PROVE Attended(t)'
    <2>1. calm /\ UNCHANGED <<starts, sent, since>>
      BY <1>10 DEF R!Push
    <2>2. QED
      BY <1>3, <1>10, <2>1, PushAttends
  <1>11. ASSUME NEW p \in Procs, R!Fail(p) \/ R!Restart(p) PROVE FALSE
    BY <1>11 DEF R!Fail, R!Restart
  <1>12. ASSUME NEW m \in Reminded, R!Finish(m) PROVE Attended(t)'
    <2>1. starts \in [Reminded -> [start : Starts, five : BOOLEAN, one : BOOLEAN, open : BOOLEAN]]
      BY <1>1 DEF RemindersInv, R!TypeOK
    <2>2. starts'[t].start = starts[t].start /\ (starts'[t].open => starts[t].open)
      BY <1>12, <2>1 DEF R!Finish
    <2>3. calm /\ UNCHANGED <<sent, since, sweep, lock>>
      BY <1>12 DEF R!Finish
    <2>4. QED
      BY <1>2, <1>4, <2>2, <2>3
  <1>13. ASSUME NEW m \in Reminded, NEW start \in Starts, R!Move(m, start) PROVE Attended(t)'
    <2>1. calm
      BY <1>2, <1>13 DEF R!Move
    <2>2. QED
      BY <1>13, <2>1, MoveAttends
  <1>14. ASSUME NEW d \in Devices, NEW u \in People, R!Subscribe(d, u) \/ R!Unsubscribe(d, u)
         PROVE  Attended(t)'
    <2>1. calm /\ UNCHANGED <<starts, sent, since, sweep, lock>>
      BY <1>14 DEF R!Subscribe, R!Unsubscribe
    <2>2. QED
      BY <1>2, <1>4, <2>1
  <1>15. CASE R!Tick
    <2>1. /\ UNCHANGED <<starts, sent, since, sweep>> /\ calm
          /\ lock' = IF lock <= clock + 1 THEN 0 ELSE lock
      BY <1>2, <1>15 DEF R!Tick
    <2>2. lock' <= lock /\ lock' \in Int
      BY <1>2, <2>1
    <2>3. QED
      BY <1>4, <2>1, <2>2
  <1>16. CASE R!Finished \/ UNCHANGED R!vars
    <2>1. calm /\ UNCHANGED <<starts, sent, since, sweep, lock>>
      BY <1>16 DEF R!Finished, R!vars
    <2>2. QED
      BY <1>2, <1>4, <2>1
  <1>17. /\ ~R!RedisDown
        /\ \A m \in Reminded : \A five, one \in BOOLEAN : ~R!MergeCopy(m, five, one)
    BY DEF R!RedisDown, R!MergeCopy
  <1>18. QED
    BY <1>5, <1>6, <1>7, <1>8, <1>9, <1>10, <1>11, <1>12, <1>13, <1>14, <1>15, <1>16, <1>17
       DEF R!Next

LEMMA TimelyInit ==
  ASSUME Timely, R!Init
  PROVE  TimelyInv
  <1>1. RemindersInv
    BY InitOK
  <1>2. PICK w \in [Procs -> 0..(Period - 1)] : sweep = [p \in Procs |-> R!Asleep(w[p])]
    BY DEF R!Init
  <1>3. clock = 0 /\ lock = 0 /\ calm /\ Period \in Nat /\ Procs # {}
    BY RemindersAssumption DEF R!Init, Timely
  <1>4. ASSUME NEW p \in Procs
        PROVE  /\ sweep[p].step = "asleep" /\ sweep[p].wake \in 0..(Period - 1)
               /\ sweep[p].writes = {} /\ sweep[p].found = {}
    BY <1>2 DEF R!Asleep
  <1>5. PhaseInv /\ GoesOnInv
    BY <1>3, <1>4 DEF PhaseInv, GoesOnInv, R!At
  <1>6. \A t \in Reminded : ~starts[t].one /\ since[t] = 0
    BY DEF R!Init
  <1>7. MarksInv
    BY <1>4, <1>6 DEF MarksInv
  <1>8. ASSUME NEW t \in Reminded, OwedLast(t) PROVE Attended(t)
    <2>1. starts[t].start \in Int /\ clock + 2 * Period < starts[t].start
      BY <1>1, <1>3, <1>6, <1>8, TimeTypes DEF OwedLast
    <2>2. PICK p \in Procs :
            \/ /\ ~R!At(p, "asleep") /\ sweep[p].at <= starts[t].start - SweepSpan + 1
               /\ sweep[p].at < starts[t].start - 2 * Period
            \/ /\ R!At(p, "asleep") /\ lock <= sweep[p].wake
               /\ sweep[p].wake <= starts[t].start - SweepSpan + 1
      BY <1>1, <1>3, <1>5, <2>1, FarIsAttended
    <2>3. QED
      BY <2>2 DEF Attended, Reaches, WakesFor, Latest, Opens
  <1>9. QED
    BY <1>1, <1>5, <1>7, <1>8 DEF TimelyInv, InTimeInv

LEMMA TimelyIsInTime ==
  ASSUME Timely, TimelyInv
  PROVE  R!RemindedInTime
  <1>1. RemindersInv /\ PhaseInv /\ InTimeInv
    BY DEF TimelyInv
  <1> SUFFICES ASSUME calm, NEW t \in Reminded, starts[t].open, clock > starts[t].start,
                      since[t] + 2 * Period < starts[t].start
               PROVE  sent[LastOf(t)] > 0
    BY DEF R!RemindedInTime, LastOf
  <1>2. clock \in Int /\ starts[t].start \in Int /\ sent[LastOf(t)] \in Int /\ sent[LastOf(t)] >= 0
    BY <1>1, TimeTypes
  <1>3. ~Attended(t)
    BY <1>1, <1>2, AttendedIsAhead
  <1>4. sent[LastOf(t)] # 0
    BY <1>1, <1>3 DEF InTimeInv, OwedLast
  <1>5. QED
    BY <1>2, <1>4

\* Nobody misses the last reminder of a task whose start was set two minutes
\* ahead, while nothing fails (run_exclusively, _check_and_notify_once): for any
\* number of processes in any phases, where the lock of a sweep is over after a
\* minute and sweeps take little more than half a minute at most.
THEOREM NobodyMissesIt == Timely => (ServicesSpec => []RemindedInTime)
<1> SUFFICES ASSUME Timely PROVE ServicesSpec => []RemindedInTime
  OBVIOUS
<1> DEFINE Inv == scene = "reminders" => TimelyInv
<1>1. ServicesInit => Inv
  BY TimelyInit DEF ServicesInit
<1>2. Inv /\ [ServicesNext]_all => Inv'
  <2> SUFFICES ASSUME Inv, [ServicesNext]_all, scene' = "reminders" PROVE TimelyInv'
    OBVIOUS
  <2>1. scene = "reminders" /\ TimelyInv
    BY DEF ServicesNext, all
  <2>2. R!Next \/ UNCHANGED R!vars
    BY <2>1 DEF ServicesNext, all, rVars, R!vars
  <2>3. RemindersInv'
    BY <2>1, <2>2, RemindersStep DEF TimelyInv
  <2>4. QED
    BY <2>1, <2>2, <2>3, StepKeepsPhases, StepKeepsMarks, StepKeepsInTime DEF TimelyInv
<1>3. Inv => RemindedInTime
  BY TimelyIsInTime DEF RemindedInTime
<1>4. QED
  BY <1>1, <1>2, <1>3, PTL DEF ServicesSpec

-----------------------------------------------------------------------------
(* The smart notifications: time *)

LEMMA Modulo ==
  ASSUME NEW t \in Int, NEW n \in Nat \ {0}
  PROVE  t % n \in Nat /\ t - (t % n) \in Int /\ t - (t % n) <= t
  OBVIOUS

LEMMA Lengths ==
  /\ Parts \in Nat \ {0} /\ Week * Parts \in Nat \ {0}
  /\ S!Ever = -(2 * (Week * Parts)) /\ S!Ever \in Int /\ S!Ever <= 0 /\ S!Ever <= -1
  /\ -(Week * Parts) \in S!Ever..LastPart /\ -1 \in S!Ever..LastPart /\ Parts \in S!Ever..LastPart
  <1>1. /\ Parts \in Nat \ {0} /\ Week \in Nat \ {0} /\ LastPart \in Nat /\ Parts <= LastPart
    BY SmartAssumption
  <1>2. Week * Parts \in Nat \ {0}
    BY <1>1
  <1>3. S!Ever = -(2 * (Week * Parts))
    <2>1. 2 * Week * Parts = 2 * (Week * Parts)
      BY <1>1
    <2>2. QED
      BY <2>1 DEF S!Ever
  <1>4. QED
    BY <1>1, <1>2, <1>3

\* What was stored in the same period is what the check looks for.
LEMMA SamePeriodIsSeen ==
  ASSUME NEW a \in S!Note, NEW b \in S!Note, a.type = b.type, S!SamePeriod(a, b)
  PROVE  b.at >= S!Since(a.type, a.at)
  <1>1. a.at \in Nat /\ b.at \in Nat
    BY SmartAssumption DEF S!Note
  <1>2. CASE a.type \in {"overdue", "success", "achievement"}
    BY <1>1, <1>2, Lengths DEF S!Since
  <1>3. CASE a.type = "weekly_goal"
    <2>1. S!MondayOf(a.at) = S!MondayOf(b.at)
      BY <1>3 DEF S!SamePeriod
    <2>2. S!MondayOf(b.at) <= b.at /\ S!MondayOf(b.at) \in Int
      BY <1>1, Lengths, Modulo DEF S!MondayOf
    <2>3. QED
      BY <1>1, <1>3, <2>1, <2>2 DEF S!Since
  <1>4. CASE a.type \notin {"overdue", "success", "achievement", "weekly_goal"}
    <2>1. S!StartOfDay(a.at) = S!StartOfDay(b.at)
      BY <1>4 DEF S!SamePeriod
    <2>2. S!StartOfDay(b.at) <= b.at /\ S!StartOfDay(b.at) \in Int
      BY <1>1, Lengths, Modulo DEF S!StartOfDay
    <2>3. QED
      BY <1>1, <1>4, <2>1, <2>2 DEF S!Since
  <1>5. QED
    BY <1>2, <1>3, <1>4

-----------------------------------------------------------------------------
(* The checks *)

\* Every check notifies about tasks, sessions, achievements, or nothing in particular.
LEMMA OwedKeys ==
  ASSUME NEW check \in {S!Checks[i] : i \in DOMAIN S!Checks}, NEW t
  PROVE  S!Owed(check, t) \subseteq S!Keys
  <1>1. check \in {"overdue", "streak", "daily_summary", "golden_hours", "low_productivity",
                   "weekly_goal", "success", "break_reminder", "focus_shield", "achievement"}
    BY DEF S!Checks
  <1>2. Ids \subseteq S!Keys /\ Sessions \subseteq S!Keys /\ S!Achievements \subseteq S!Keys
        /\ {Nil} \subseteq S!Keys
    BY DEF S!Keys
  <1>3. ASSUME NEW c PROVE S!Alone(c) \subseteq S!Keys
    BY <1>2 DEF S!Alone
  <1>4. S!Overdue(t) \subseteq S!Keys
    <2>1. S!Overdue(t) \subseteq S!Pending
      BY DEF S!Overdue
    <2>2. S!Pending \subseteq S!Present
      BY DEF S!Pending
    <2>3. S!Present \subseteq Ids
      BY DEF S!Present
    <2>4. QED
      BY <1>2, <2>1, <2>2, <2>3
  <1>5. S!Success(t) \subseteq S!Keys
    <2>1. S!Success(t) \subseteq S!Held
      BY DEF S!Success
    <2>2. S!Held \subseteq Sessions
      BY DEF S!Held
    <2>3. QED
      BY <1>2, <2>1, <2>2
  <1>6. S!Unlocked(t) \subseteq S!Keys
    <2>1. S!Unlocked(t) \subseteq S!Achievements
      BY DEF S!Unlocked
    <2>2. QED
      BY <1>2, <2>1
  <1>7. S!Streak(t) \subseteq S!Keys
    BY <1>3, Zenon DEF S!Streak
  <1>8. S!DailySummary(t) \subseteq S!Keys
    BY <1>3, Zenon DEF S!DailySummary
  <1>9. S!GoldenHours(t) \subseteq S!Keys
    BY <1>3, Zenon DEF S!GoldenHours
  <1>10. S!LowProductivity(t) \subseteq S!Keys
    BY <1>3, Zenon DEF S!LowProductivity
  <1>11. S!WeeklyGoal(t) \subseteq S!Keys
    BY <1>3, Zenon DEF S!WeeklyGoal
  <1>12. S!BreakReminder(t) \subseteq S!Keys
    BY <1>3, Zenon DEF S!BreakReminder
  <1>13. S!FocusShield(t) \subseteq S!Keys
    BY <1>3, Zenon DEF S!FocusShield
  <1>14. QED
    BY <1>1, <1>4, <1>5, <1>6, <1>7, <1>8, <1>9, <1>10, <1>11, <1>12, <1>13 DEF S!Owed

-----------------------------------------------------------------------------
(* The sweep of the smart notifications *)

SmartRun == [at : 0..LastPart, step : {"idle", "checks", "morning", "commit"},
             adds : SUBSET S!Note, broken : BOOLEAN]

\* What a sweep is about to store was not there in its period.
New(a) == ~S!AlreadyNotified(a.type, a.key, S!Since(a.type, a.at))

SmartTypes ==
    /\ hour \in 0..LastPart /\ up \in BOOLEAN /\ held \in BOOLEAN /\ overlapped \in BOOLEAN
    /\ repeated \in BOOLEAN
    /\ tasks \in [Ids -> S!Task \cup {Nil}] /\ sessions \in [Sessions -> S!Session \cup {Nil}]
    /\ told \subseteq S!Note
    /\ run \in [Procs -> SmartRun]
RunInv ==
    \A p \in Procs : run[p].step \in {"idle", "checks"} => run[p].adds = {}
\* No instant passes under a sweep, and the sweeps are one unless they overlapped.
OneSweep ==
    /\ \A p \in S!Sweeping : run[p].at = hour
    /\ ~overlapped => \A p, q \in S!Sweeping : p = q
NewInv == ~overlapped => ~repeated /\ \A p \in Procs : \A a \in run[p].adds : New(a)
\* A day that had its push is taken, for good.
MorningInv ==
    /\ pushes \in [0..S!LocalDay(LastPart) -> 0..1]
    /\ \A d \in 0..S!LocalDay(LastPart) : pushes[d] > 0 => d \in mornings

SmartInv == SmartTypes /\ RunInv /\ OneSweep /\ NewInv /\ MorningInv

LEMMA TypesOfSmart == SmartTypes => S!TypeOK
  BY DEF SmartTypes, SmartRun, S!TypeOK

\* What a check adds is new.
LEMMA AddedOK ==
  ASSUME SmartInv, NEW p \in Procs, NEW i \in DOMAIN S!Checks, NEW a \in S!Added(p, i)
  PROVE  a \in S!Note /\ New(a)
  <1>1. run[p].at \in 0..LastPart
    BY DEF SmartInv, SmartTypes, SmartRun
  <1>2. PICK k \in S!Owed(S!Checks[i], run[p].at) :
           /\ ~S!AlreadyNotified(S!Checks[i], k, S!Since(S!Checks[i], run[p].at))
           /\ a = [type |-> S!Checks[i], key |-> k, at |-> run[p].at]
    BY DEF S!Added
  <1>3. k \in S!Keys
    BY <1>2, OwedKeys
  <1>4. a.type = S!Checks[i] /\ a.key = k /\ a.at = run[p].at
    BY <1>2
  <1>5. New(a)
    BY <1>2, <1>4 DEF New
  <1>6. S!Checks[i] \in {S!Checks[j] : j \in DOMAIN S!Checks}
    OBVIOUS
  <1>7. a \in S!Note
    BY <1>1, <1>2, <1>3, <1>6 DEF S!Note
  <1>8. QED
    BY <1>5, <1>7

\* What is stored repeats nothing.
LEMMA StoreOK ==
  ASSUME SmartTypes, NEW adds \in SUBSET S!Note, S!Store(adds)
  PROVE  /\ told' \subseteq S!Note /\ repeated' \in BOOLEAN
         /\ ~repeated /\ (\A a \in adds : New(a)) => ~repeated'
  <1>1. told \subseteq S!Note /\ repeated \in BOOLEAN
    BY DEF SmartTypes
  <1>2. told' \subseteq S!Note /\ repeated' \in BOOLEAN
    BY <1>1 DEF S!Store
  <1>3. ASSUME \A a \in adds : New(a), NEW a \in adds, NEW b \in told,
               a.type = b.type, a.key = b.key, S!SamePeriod(a, b)
        PROVE  FALSE
    <2>1. b.at >= S!Since(a.type, a.at)
      BY <1>1, <1>3, SamePeriodIsSeen
    <2>2. S!AlreadyNotified(a.type, a.key, S!Since(a.type, a.at))
      BY <1>3, <2>1 DEF S!AlreadyNotified
    <2>3. QED
      BY <1>3, <2>2 DEF New
  <1>4. QED
    BY <1>2, <1>3 DEF S!Store

\* A step of one process replaces its run.
LEMMA Reruns ==
  ASSUME SmartTypes, NEW p \in Procs, NEW r \in SmartRun, S!Set(p, r)
  PROVE  /\ run' \in [Procs -> SmartRun] /\ run'[p] = r
         /\ \A q \in Procs : q # p => run'[q] = run[q]
  BY DEF SmartTypes, S!Set

LEMMA IdleSmart == S!Idle \in SmartRun /\ S!Idle.step = "idle" /\ S!Idle.adds = {} /\ S!Idle.at = 0
  BY SmartAssumption DEF S!Idle, SmartRun

\* The invariants after a step that stores nothing, or what its process had new.
LEMMA SweepStep ==
  ASSUME SmartInv, NEW p \in Procs, NEW r \in SmartRun, S!Set(p, r),
         UNCHANGED <<hour, tasks, sessions, held, up>>, run[p].step # "idle",
         UNCHANGED overlapped,
         r.step \in {"idle", "checks"} => r.adds = {},
         r.step # "idle" => r.at = run[p].at,
         \/ UNCHANGED <<told, repeated>> /\ (\A a \in r.adds : a \in run[p].adds \/ New(a))
         \/ S!Store(run[p].adds) /\ r.adds = {}
  PROVE  SmartTypes' /\ RunInv' /\ OneSweep' /\ NewInv'
  <1>1. /\ run' \in [Procs -> SmartRun] /\ run'[p] = r
        /\ \A q \in Procs : q # p => run'[q] = run[q]
    BY Reruns DEF SmartInv
  <1>2. run[p].adds \in SUBSET S!Note
    BY DEF SmartInv, SmartTypes, SmartRun
  <1>3. told' \subseteq S!Note /\ repeated' \in BOOLEAN
    BY <1>2, StoreOK DEF SmartInv, SmartTypes
  <1>4. SmartTypes'
    BY <1>1, <1>3 DEF SmartInv, SmartTypes
  <1>5. RunInv'
    BY <1>1 DEF SmartInv, RunInv
  <1>6. S!Sweeping' \subseteq S!Sweeping /\ p \in S!Sweeping
    BY <1>1 DEF S!Sweeping
  <1>7. OneSweep'
    BY <1>1, <1>6 DEF SmartInv, OneSweep, S!Sweeping
  <1>8. ASSUME ~overlapped' PROVE ~repeated' /\ \A q \in Procs : \A a \in run'[q].adds : New(a)'
    <2>1. ~overlapped /\ ~repeated /\ \A a \in run[p].adds : New(a)
      BY <1>8 DEF SmartInv, NewInv
    <2>2. ~repeated'
      BY <1>2, <2>1, StoreOK DEF SmartInv
    <2>3. ASSUME NEW q \in Procs, q # p PROVE run'[q].adds = {}
      <3>1. run[q].step = "idle"
        BY <1>6, <2>1, <2>3 DEF SmartInv, OneSweep, S!Sweeping
      <3>2. QED
        BY <1>1, <2>3, <3>1 DEF SmartInv, RunInv
    <2>4. \A a \in r.adds : New(a)'
      <3>1. CASE r.adds = {}
        BY <3>1
      <3>2. CASE UNCHANGED told /\ \A a \in r.adds : a \in run[p].adds \/ New(a)
        BY <2>1, <3>2 DEF New, S!AlreadyNotified
      <3>3. QED
        BY <3>1, <3>2
    <2>5. QED
      BY <1>1, <2>2, <2>3, <2>4
  <1>9. QED
    BY <1>4, <1>5, <1>7, <1>8 DEF NewInv

\* The invariants after a step of the user, of Redis or of time.
LEMMA OutsideStep ==
  ASSUME SmartInv, UNCHANGED <<repeated, run, overlapped>>, told' \subseteq told,
         tasks' \in [Ids -> S!Task \cup {Nil}], sessions' \in [Sessions -> S!Session \cup {Nil}],
         hour' \in 0..LastPart, up' \in BOOLEAN, held' \in BOOLEAN,
         hour' = hour \/ S!Sweeping = {}
  PROVE  SmartTypes' /\ RunInv' /\ OneSweep' /\ NewInv'
  <1>1. SmartTypes' /\ RunInv'
    BY DEF SmartInv, SmartTypes, RunInv
  <1>2. S!Sweeping' = S!Sweeping
    BY DEF S!Sweeping
  <1>3. OneSweep'
    BY <1>2 DEF SmartInv, OneSweep
  <1>4. NewInv'
    BY DEF SmartInv, NewInv, New, S!AlreadyNotified
  <1>5. QED
    BY <1>1, <1>3, <1>4

LEMMA MorningKept ==
  ASSUME SmartInv, UNCHANGED <<mornings, pushes>>
  PROVE  MorningInv'
  BY DEF SmartInv, MorningInv

LEMMA StartSmart ==
  ASSUME SmartInv, NEW p \in Procs, S!Start(p)
  PROVE  SmartInv'
  <1> DEFINE r == [S!Idle EXCEPT !.at = hour, !.step = "checks"]
  <1>1. r \in SmartRun /\ r.adds = {} /\ r.at = hour /\ r.step = "checks"
    BY IdleSmart DEF SmartInv, SmartTypes, SmartRun
  <1>2. S!Set(p, r) /\ run[p].step = "idle"
    BY DEF S!Start
  <1> HIDE DEF r
  <1>3. /\ run' \in [Procs -> SmartRun] /\ run'[p] = r
        /\ \A q \in Procs : q # p => run'[q] = run[q]
    BY <1>1, <1>2, Reruns DEF SmartInv
  <1>4. UNCHANGED <<hour, tasks, sessions, told, repeated, mornings, up, pushes>>
        /\ held' = up /\ overlapped' = (overlapped \/ S!Sweeping # {})
    BY DEF S!Start, S!user
  <1>5. SmartTypes'
    BY <1>3, <1>4 DEF SmartInv, SmartTypes
  <1>6. RunInv'
    BY <1>1, <1>3 DEF SmartInv, RunInv
  <1>7. \A q \in S!Sweeping' : q = p \/ (q \in S!Sweeping /\ run'[q] = run[q])
    BY <1>3 DEF S!Sweeping
  <1>8. OneSweep'
    BY <1>1, <1>3, <1>4, <1>7 DEF SmartInv, OneSweep
  <1>9. NewInv'
    BY <1>1, <1>3, <1>4 DEF SmartInv, NewInv, New, S!AlreadyNotified
  <1>10. QED
    BY <1>4, <1>5, <1>6, <1>8, <1>9, MorningKept DEF SmartInv

LEMMA CheckSmart ==
  ASSUME SmartInv, NEW p \in Procs,
         S!CheckAll(p) \/ \E i \in DOMAIN S!Checks : S!CheckFails(p, i)
  PROVE  SmartInv'
  <1>1. run[p] \in SmartRun /\ run[p].step = "checks"
    BY DEF SmartInv, SmartTypes, S!CheckAll, S!CheckFails
  <1>2. UNCHANGED <<hour, tasks, sessions, held, up, overlapped, told, repeated, mornings, pushes>>
    BY DEF S!CheckAll, S!CheckFails, S!user
  <1>3. PICK N \in SUBSET DOMAIN S!Checks, broken \in BOOLEAN :
           S!Set(p, [run[p] EXCEPT !.step = "morning", !.broken = broken,
                                   !.adds = UNION {S!Added(p, i) : i \in N}])
    <2>1. CASE S!CheckAll(p)
      <3>1. run[p].broken \in BOOLEAN
        BY <1>1 DEF SmartRun
      <3>2. [run[p] EXCEPT !.step = "morning", !.adds = UNION {S!Added(p, i) : i \in DOMAIN S!Checks}]
            = [run[p] EXCEPT !.step = "morning", !.broken = run[p].broken,
                             !.adds = UNION {S!Added(p, i) : i \in DOMAIN S!Checks}]
        BY <1>1 DEF SmartRun
      <3>3. QED
        BY <2>1, <3>1, <3>2 DEF S!CheckAll
    <2>2. ASSUME NEW i \in DOMAIN S!Checks, S!CheckFails(p, i)
          PROVE  \E N \in SUBSET DOMAIN S!Checks, broken \in BOOLEAN :
                   S!Set(p, [run[p] EXCEPT !.step = "morning", !.broken = broken,
                                           !.adds = UNION {S!Added(p, j) : j \in N}])
      <3>1. PICK statement \in BOOLEAN :
              S!Set(p, [run[p] EXCEPT !.step = "morning", !.broken = statement,
                              !.adds = UNION {S!Added(p, j) : j \in
                                  {k \in DOMAIN S!Checks : k < i \/ (k > i /\ ~statement)}}])
        BY <2>2 DEF S!CheckFails
      <3>2. {k \in DOMAIN S!Checks : k < i \/ (k > i /\ ~statement)} \in SUBSET DOMAIN S!Checks
        OBVIOUS
      <3>3. QED
        BY <3>1, <3>2
    <2>3. QED
      BY <2>1, <2>2
  <1> DEFINE adds == UNION {S!Added(p, i) : i \in N}
  <1> DEFINE r == [run[p] EXCEPT !.step = "morning", !.broken = broken, !.adds = adds]
  <1>4. \A a \in adds : a \in S!Note /\ New(a)
    BY AddedOK
  <1>5. S!Set(p, r)
    BY <1>3
  <1> HIDE DEF adds
  <1>6. r \in SmartRun /\ r.step = "morning" /\ r.at = run[p].at /\ r.adds = adds
    BY <1>1, <1>4 DEF SmartRun
  <1> HIDE DEF r
  <1>7. SmartTypes' /\ RunInv' /\ OneSweep' /\ NewInv'
    BY <1>1, <1>2, <1>4, <1>5, <1>6, SweepStep
  <1>8. QED
    BY <1>2, <1>7, MorningKept DEF SmartInv

LEMMA MorningSmart ==
  ASSUME SmartInv, NEW p \in Procs, S!Morning(p)
  PROVE  SmartInv'
  <1> DEFINE day == S!LocalDay(run[p].at)
  <1> DEFINE sends == S!LocalMorning(run[p].at) /\ ~run[p].broken /\ S!MorningIsFree(day)
  <1> DEFINE r(gone) == [run[p] EXCEPT !.step = "commit", !.adds = IF gone THEN {} ELSE @]
  <1>1. run[p] \in SmartRun /\ run[p].step = "morning"
    BY DEF SmartInv, SmartTypes, S!Morning
  <1>2. UNCHANGED <<hour, tasks, sessions, held, up, overlapped>>
    BY DEF S!Morning, S!user
  <1>3. PICK gone \in BOOLEAN :
          /\ IF gone THEN S!Store(run[p].adds) ELSE UNCHANGED <<told, repeated>>
          /\ S!Set(p, r(gone))
    BY DEF S!Morning
  <1>4. /\ r(gone) \in SmartRun /\ r(gone).step = "commit" /\ r(gone).at = run[p].at
        /\ r(gone).adds = IF gone THEN {} ELSE run[p].adds
    BY <1>1 DEF SmartRun
  <1>5. \/ UNCHANGED <<told, repeated>> /\ \A a \in r(gone).adds : a \in run[p].adds \/ New(a)
        \/ S!Store(run[p].adds) /\ r(gone).adds = {}
    BY <1>3, <1>4
  <1>6. SmartTypes' /\ RunInv' /\ OneSweep' /\ NewInv'
    <2> DEFINE s == r(gone)
    <2>1. s \in SmartRun /\ s.step = "commit" /\ s.at = run[p].at /\ S!Set(p, s)
          /\ (\/ UNCHANGED <<told, repeated>> /\ \A a \in s.adds : a \in run[p].adds \/ New(a)
              \/ S!Store(run[p].adds) /\ s.adds = {})
      BY <1>3, <1>4, <1>5
    <2> HIDE DEF s
    <2>2. QED
      BY <1>1, <1>2, <2>1, SweepStep
  <1>7. MorningInv'
    <2>1. /\ mornings' = (IF sends THEN mornings \cup {day} ELSE mornings)
          /\ \/ pushes' = pushes
             \/ sends /\ pushes' = [pushes EXCEPT ![day] = @ + 1]
      BY DEF S!Morning
    <2>2. MorningInv
      BY DEF SmartInv
    <2>3. CASE pushes' = pushes
      BY <2>1, <2>2, <2>3 DEF MorningInv
    <2>4. CASE sends /\ pushes' = [pushes EXCEPT ![day] = @ + 1]
      <3>1. day \notin mornings /\ mornings' = mornings \cup {day}
        BY <2>1, <2>4 DEF S!MorningIsFree
      <3> HIDE DEF day, sends
      <3>2. CASE day \in 0..S!LocalDay(LastPart)
        <4>1. pushes[day] = 0
          BY <2>2, <3>1, <3>2 DEF MorningInv
        <4>2. QED
          BY <2>2, <2>4, <3>1, <3>2, <4>1 DEF MorningInv
      <3>3. CASE day \notin 0..S!LocalDay(LastPart)
        <4>1. pushes' = pushes
          BY <2>2, <2>4, <3>3 DEF MorningInv
        <4>2. QED
          BY <2>2, <3>1, <4>1 DEF MorningInv
      <3>4. QED
        BY <3>2, <3>3
    <2>5. QED
      BY <2>1, <2>3, <2>4
  <1>8. QED
    BY <1>6, <1>7 DEF SmartInv

LEMMA CommitSmart ==
  ASSUME SmartInv, NEW p \in Procs, S!Commit(p) \/ S!CommitFails(p)
  PROVE  SmartInv'
  <1>1. run[p] \in SmartRun /\ run[p].step = "commit" /\ S!Set(p, S!Idle)
    BY DEF SmartInv, SmartTypes, S!Commit, S!CommitFails
  <1>2. UNCHANGED <<hour, tasks, sessions, held, up, overlapped, mornings, pushes>>
    BY DEF S!Commit, S!CommitFails, S!user
  <1>3. \/ UNCHANGED <<told, repeated>> /\ \A a \in S!Idle.adds : a \in run[p].adds \/ New(a)
        \/ S!Store(run[p].adds) /\ S!Idle.adds = {}
    BY IdleSmart DEF S!Commit, S!CommitFails
  <1>4. SmartTypes' /\ RunInv' /\ OneSweep' /\ NewInv'
    BY <1>1, <1>2, <1>3, IdleSmart, SweepStep
  <1>5. QED
    BY <1>2, <1>4, MorningKept DEF SmartInv

LEMMA FinishOK ==
  ASSUME SmartInv, NEW t \in Ids, S!Finish(t)
  PROVE  SmartInv'
  <1>1. UNCHANGED <<hour, sessions, told, repeated, held, mornings, up, run, pushes, overlapped>>
        /\ tasks' = [tasks EXCEPT ![t].status = "Done", ![t].done = hour] /\ tasks[t] # Nil
    BY DEF S!Finish
  <1>2. tasks \in [Ids -> S!Task \cup {Nil}] /\ tasks[t] \in S!Task /\ hour \in 0..LastPart
    BY <1>1 DEF SmartInv, SmartTypes
  <1>3. hour \in S!Ever..LastPart
    BY <1>2, Lengths, SmartAssumption
  <1>4. [tasks[t] EXCEPT !.status = "Done", !.done = hour] \in S!Task
    BY <1>2, <1>3 DEF S!Task, S!Status
  <1>5. tasks' \in [Ids -> S!Task \cup {Nil}]
    BY <1>1, <1>2, <1>4
  <1>6. SmartTypes' /\ RunInv' /\ OneSweep' /\ NewInv'
    BY <1>1, <1>5, OutsideStep DEF SmartInv, SmartTypes
  <1>7. QED
    BY <1>1, <1>6, MorningKept DEF SmartInv

LEMMA FocusOK ==
  ASSUME SmartInv, NEW s \in Sessions, S!Focus(s)
  PROVE  SmartInv'
  <1>1. UNCHANGED <<hour, tasks, told, repeated, held, mornings, up, run, pushes, overlapped>>
    BY DEF S!Focus
  <1>2. PICK ok \in BOOLEAN, n \in {0, ShieldCount + 1} :
          sessions' = [sessions EXCEPT ![s] = [from |-> hour, to |-> hour,
                          minutes |-> BreakMinutes, ok |-> ok, distractions |-> n]]
    BY DEF S!Focus
  <1>3. [from |-> hour, to |-> hour, minutes |-> BreakMinutes, ok |-> ok, distractions |-> n]
          \in S!Session
    BY SmartAssumption DEF S!Session, SmartInv, SmartTypes
  <1>4. sessions' \in [Sessions -> S!Session \cup {Nil}]
    BY <1>2, <1>3 DEF SmartInv, SmartTypes
  <1>5. SmartTypes' /\ RunInv' /\ OneSweep' /\ NewInv'
    BY <1>1, <1>4, OutsideStep DEF SmartInv, SmartTypes
  <1>6. QED
    BY <1>1, <1>5, MorningKept DEF SmartInv

\* What is deleted makes nothing known that was not.
LEMMA DeleteOK ==
  ASSUME SmartInv, S!Delete
  PROVE  SmartInv'
  <1>1. UNCHANGED <<hour, tasks, sessions, repeated, held, mornings, up, run, pushes, overlapped>>
        /\ told' \subseteq told
    BY DEF S!Delete
  <1>2. SmartTypes' /\ RunInv' /\ OneSweep' /\ NewInv'
    BY <1>1, OutsideStep DEF SmartInv, SmartTypes
  <1>3. QED
    BY <1>1, <1>2, MorningKept DEF SmartInv

LEMMA SmartInit ==
  ASSUME S!Init
  PROVE  SmartInv
  <1>1. \A p \in Procs : run[p] = S!Idle
    BY DEF S!Init
  <1>2. run \in [Procs -> SmartRun]
    BY <1>1, IdleSmart DEF S!Init
  <1>3. tasks \in [Ids -> S!Task \cup {Nil}]
    <2> DEFINE Open == [status : {"Todo"}, due : {Parts}, done : {Nil}, high : {FALSE}]
    <2> DEFINE Olds == {[status |-> "completed", due |-> d, done |-> d, high |-> TRUE] :
                          d \in {-1, -(Week * Parts)}}
    <2>1. Open \subseteq S!Task
      BY Lengths DEF S!Task, S!Status
    <2>2. ASSUME NEW d \in {-1, -(Week * Parts)}
          PROVE  [status |-> "completed", due |-> d, done |-> d, high |-> TRUE] \in S!Task
      <3>1. d \in S!Ever..LastPart
        BY Lengths
      <3>2. QED
        BY <3>1 DEF S!Task, S!Status
    <2>3. tasks \in [Ids -> {Nil} \cup Open \cup Olds]
      BY DEF S!Init
    <2> HIDE DEF Open, Olds
    <2>4. Olds \subseteq S!Task
      BY <2>2 DEF Olds
    <2>5. QED
      BY <2>1, <2>3, <2>4
  <1>4. SmartTypes
    <2>1. hour \in 0..LastPart /\ sessions \in [Sessions -> S!Session \cup {Nil}]
      BY SmartAssumption DEF S!Init
    <2>2. QED
      BY <1>2, <1>3, <2>1 DEF S!Init, SmartTypes
  <1>5. RunInv /\ OneSweep /\ NewInv
    BY <1>1, IdleSmart DEF S!Init, RunInv, OneSweep, NewInv, S!Sweeping
  <1>6. MorningInv
    BY DEF S!Init, MorningInv
  <1>7. QED
    BY <1>4, <1>5, <1>6 DEF SmartInv

LEMMA SmartStep ==
  ASSUME SmartInv, [S!Next]_S!vars
  PROVE  SmartInv'
  <1>1. CASE S!Expire \/ S!RedisGoes \/ S!RedisReturns
    <2>1. UNCHANGED <<hour, tasks, sessions, told, repeated, mornings, run, pushes, overlapped>>
          /\ held' \in BOOLEAN /\ up' \in BOOLEAN
      BY <1>1 DEF S!Expire, S!RedisGoes, S!RedisReturns, S!user, SmartInv, SmartTypes
    <2>2. SmartTypes' /\ RunInv' /\ OneSweep' /\ NewInv'
      BY <2>1, OutsideStep DEF SmartInv, SmartTypes
    <2>3. QED
      BY <2>1, <2>2, MorningKept DEF SmartInv
  <1>2. CASE S!Tick
    <2>1. UNCHANGED <<tasks, sessions, told, repeated, mornings, run, pushes, overlapped, held, up>>
          /\ hour' \in 0..LastPart /\ S!Sweeping = {}
      BY <1>2, SmartAssumption DEF S!Tick, S!user, SmartInv, SmartTypes
    <2>2. SmartTypes' /\ RunInv' /\ OneSweep' /\ NewInv'
      BY <2>1, OutsideStep DEF SmartInv, SmartTypes
    <2>3. QED
      BY <2>1, <2>2, MorningKept DEF SmartInv
  <1>3. CASE UNCHANGED S!vars
    <2>1. UNCHANGED <<hour, tasks, sessions, told, repeated, mornings, run, pushes, overlapped,
                      held, up>>
      BY <1>3 DEF S!vars
    <2>2. SmartTypes' /\ RunInv' /\ OneSweep' /\ NewInv'
      BY <2>1, OutsideStep DEF SmartInv, SmartTypes
    <2>3. QED
      BY <2>1, <2>2, MorningKept DEF SmartInv
  <1>4. QED
    BY <1>1, <1>2, <1>3, StartSmart, CheckSmart, MorningSmart, CommitSmart, FinishOK, FocusOK,
       DeleteOK
       DEF S!Next

\* The inductive invariant of the smart notifications: no instant passes under
\* a sweep, and what a sweep that is alone will store is new in its period.
THEOREM SmartInvariance == ServicesSpec => [](scene = "smart" => SmartInv)
  <1> DEFINE Inv == scene = "smart" => SmartInv
  <1>1. ServicesInit => Inv
    BY SmartInit DEF ServicesInit
  <1>2. Inv /\ [ServicesNext]_all => Inv'
    <2> SUFFICES ASSUME Inv, [ServicesNext]_all, scene' = "smart" PROVE SmartInv'
      OBVIOUS
    <2>1. scene = "smart"
      BY DEF ServicesNext, all
    <2>2. S!Next \/ UNCHANGED S!vars
      BY <2>1 DEF ServicesNext, all, sVars, S!vars
    <2>3. QED
      BY <2>1, <2>2, SmartStep
  <1>3. QED
    BY <1>1, <1>2, PTL DEF ServicesSpec

\* As long as no two sweeps overlap, nothing is stored that the list of notifications
\* already has for its period, whatever fails (the checks look there first); and one
\* morning push leaves a local day, even when sweeps overlap and Redis goes.
THEOREM EverythingToldOnce == ServicesSpec => []ToldOnce
  <1>1. (scene = "smart" => SmartInv) => ToldOnce
    BY DEF SmartInv, NewInv, MorningInv, ToldOnce, S!ToldOnce, S!OneMorning
  <1>2. QED
    BY <1>1, SmartInvariance, PTL

-----------------------------------------------------------------------------
(* The calendar: what a synchronisation and an edit hold *)

Maps(V) == UNION {[D -> V] : D \in SUBSET Mirrored}
SyncRun == [step : {"rest", "link", "fetch", "apply", "watch"}, token : C!Versions \cup {Nil},
            snap : Maps(C!Row), items : Maps(C!Event), next : C!Versions \cup {Nil},
            writes : Maps(C!Row \cup {Nil}), late : BOOLEAN]
EditRun == [step : {"rest", "push", "commit"}, event : Mirrored \cup {Nil},
            kind : C!Kinds, was : C!Dates \cup {Nil},
            pushed : C!Versions \cup {Nil}]
Typed ==
    /\ g \in [Mirrored -> C!Event] /\ version \in C!Versions /\ floor \in C!Versions
    /\ linked \in [Mirrored -> C!Row \cup {Nil}] /\ token \in C!Versions \cup {Nil}
    /\ channel \in BOOLEAN /\ throttle \in BOOLEAN /\ excused \in BOOLEAN
    /\ cFaults \in 0..CalendarFaults
    /\ sync \in [Procs -> SyncRun] /\ edit \in EditRun
    /\ kept \in [Mirrored -> C!Versions \cup {Nil}]

\* What a sync has at each of its steps.
Placed(r) ==
    /\ r.step \in {"rest", "watch", "link"} => r.snap = <<>>
    /\ r.step # "apply" => r.items = <<>> /\ r.writes = <<>>
    /\ r.step = "apply" => r.next # Nil
    /\ DOMAIN r.items \subseteq DOMAIN r.snap /\ DOMAIN r.writes \subseteq DOMAIN r.snap
EditPlaced ==
    /\ edit.step = "rest" => edit = C!Still
    /\ edit.step # "rest" => edit.event \in Mirrored
    /\ edit.step # "rest" /\ edit.kind = "touch" => edit.was # Nil
    /\ edit.pushed # Nil => edit.step = "commit"

\* No date, change or token is of the future, and a sync's copies are of the past.
EventBound(e) ==
    /\ g[e].when <= g[e].at /\ g[e].at <= version
    /\ linked[e] # Nil => linked[e].etag <= g[e].at /\ linked[e].when <= version
    /\ kept[e] # Nil => kept[e] <= version
EditBound ==
    /\ edit.was # Nil => edit.was <= version
    /\ edit.pushed # Nil =>
        /\ edit.pushed <= g[edit.event].at
        /\ kept[edit.event] # Nil => kept[edit.event] < edit.pushed
SnapBound(e, r) ==
    /\ e \in DOMAIN r.snap => r.snap[e].etag <= g[e].at /\ r.snap[e].when <= version
    /\ e \in DOMAIN r.items =>
        /\ r.items[e].when <= r.items[e].at /\ r.items[e].at <= g[e].at
        /\ r.snap[e].etag <= r.items[e].at
    /\ e \in DOMAIN r.writes /\ r.writes[e] # Nil =>
        r.writes[e].etag <= g[e].at /\ r.writes[e].when <= version
TokenBound(r) == (r.token # Nil => r.token <= version) /\ (r.next # Nil => r.next <= version)
\* A date that was pushed and is not committed.
Pushing(e) == edit.pushed # Nil /\ edit.event = e

\* A task at Google's version has Google's date, or one that is still to be pushed;
\* a deadline may be an older one, written over it though preserved, as long as the
\* token does not claim the version.
Current(e, row) == row.when \in {g[e].when, C!Unpushed}
Shown(e, row) == row.etag = g[e].at /\ row.est => Current(e, row)
Stays(e, row) ==
    kept[e] # Nil /\ g[e].at = kept[e] =>
        row.etag = kept[e] /\ (row.est => row.when = C!Unpushed)
RowOK(e, row) == row # Nil =>
    /\ Shown(e, row) /\ Stays(e, row)
    /\ row.when <= g[e].when
    /\ Pushing(e) /\ row.etag <= edit.pushed => row.when <= edit.pushed
\* What a token claims of a task.
ShownAt(e, row, upto) ==
    row # Nil /\ upto # Nil /\ g[e].at <= upto =>
        g[e].alive /\ row.etag = g[e].at /\ Current(e, row)

RowsOK == \A e \in Mirrored : RowOK(e, linked[e]) /\ ShownAt(e, linked[e], token)

EditOK ==
    edit.pushed # Nil =>
        LET e == edit.event IN
        /\ g[e].at = edit.pushed /\ edit.kind # "remove" =>
            g[e].alive /\ g[e].when = IF edit.kind \in {"move", "due"} THEN edit.pushed ELSE edit.was
        /\ edit.kind \in {"move", "due"} => edit.pushed <= g[e].when

\* How the task at hand was when the sync loaded it, and how it is now.
SnapOK(e, was) ==
    /\ linked[e] = Nil => kept[e] = Nil
    /\ linked[e] # Nil =>
        /\ kept[e] # Nil /\ g[e].at = kept[e] => was.etag = kept[e]
        /\ was.etag = g[e].at =>
             linked[e].etag = g[e].at /\ (linked[e].when = was.when \/ Current(e, linked[e]))
        /\ was.etag <= linked[e].etag
        /\ linked[e].when = C!Unpushed \/ was.when <= linked[e].when
        /\ Pushing(e) => \/ linked[e] = was
                         \/ linked[e].when <= edit.pushed /\ was.when <= edit.pushed
ItemOK(e, item, upto) ==
    /\ item.at = g[e].at => item = g[e]
    /\ g[e].at <= upto => item.at = g[e].at
    /\ item.when <= g[e].when
Result(e, r) == IF e \in DOMAIN r.writes THEN r.writes[e] ELSE linked[e]
SyncOK(e, r) ==
    /\ r.step \in {"link", "fetch"} => ShownAt(e, linked[e], r.token)
    /\ r.step \in {"fetch", "apply"} /\ e \notin DOMAIN r.snap => linked[e] = Nil
    /\ e \in DOMAIN r.snap => SnapOK(e, r.snap[e])
    /\ e \in DOMAIN r.items => ItemOK(e, r.items[e], r.next)
    /\ e \in DOMAIN r.writes => RowOK(e, r.writes[e])
    /\ r.step = "apply" /\ e \notin DOMAIN r.items => ShownAt(e, Result(e, r), r.next)

\* What holds of the stored data and of Google, and what holds of one sync.
WorldInv ==
    /\ Typed /\ EditPlaced /\ EditBound
    /\ \A e \in Mirrored : EventBound(e)
    /\ token # Nil => token <= version
    /\ ~excused => RowsOK /\ EditOK
RunOK(r) ==
    /\ Placed(r) /\ TokenBound(r)
    /\ \A e \in Mirrored : SnapBound(e, r)
    /\ ~excused /\ ~r.late => \A e \in Mirrored : SyncOK(e, r)
CalendarInv == WorldInv /\ \A p \in Procs : RunOK(sync[p])

-----------------------------------------------------------------------------
(* Data *)

LEMMA Numbers ==
  /\ C!Versions \subseteq Nat /\ C!Dates \subseteq Int /\ C!Versions \subseteq C!Dates
  /\ C!Unpushed \in C!Dates /\ C!Unpushed = -1 /\ 0 \in C!Versions
  /\ \A v \in C!Versions : v # Nil /\ C!Unpushed < v
  /\ \A d \in C!Dates : d # Nil /\ C!Unpushed <= d
BY CalendarAssumption DEF C!Versions, C!Dates, C!Unpushed

LEMMA EmptyMap ==
  ASSUME NEW V
  PROVE  <<>> \in Maps(V) /\ DOMAIN <<>> = {}
<1>1. <<>> \in [{} -> V]
  OBVIOUS
<1>2. {} \in SUBSET Mirrored
  OBVIOUS
<1>3. DOMAIN <<>> = {}
  OBVIOUS
<1> QED
  BY <1>1, <1>2, <1>3 DEF Maps

LEMMA MapFacts ==
  ASSUME NEW V, NEW f \in Maps(V)
  PROVE  DOMAIN f \subseteq Mirrored /\ \A e \in DOMAIN f : f[e] \in V
<1>1. PICK D \in SUBSET Mirrored : f \in [D -> V]
  BY DEF Maps
<1> QED
  BY <1>1

LEMMA AMap ==
  ASSUME NEW V, NEW D \in SUBSET Mirrored, NEW f \in [D -> V]
  PROVE  f \in Maps(V)
BY DEF Maps

\* What the fields of the stored data are.
LEMMA WorldTypes ==
  ASSUME Typed
  PROVE  /\ version \in Nat /\ (token # Nil => token \in Nat)
         /\ edit.pushed # Nil => edit.pushed \in Nat
         /\ edit.was # Nil => edit.was \in Int
         /\ \A e \in Mirrored :
              /\ g[e].when \in Int /\ g[e].at \in Nat /\ g[e].alive \in BOOLEAN
              /\ linked[e] # Nil => linked[e].when \in Int /\ linked[e].etag \in Nat
                                   /\ C!Unpushed <= linked[e].when
              /\ kept[e] # Nil => kept[e] \in Nat
<1>1. /\ version \in Nat /\ (token # Nil => token \in Nat)
      /\ edit.pushed # Nil => edit.pushed \in Nat
      /\ edit.was # Nil => edit.was \in Int
  BY Numbers DEF Typed, EditRun
<1>2. ASSUME NEW e \in Mirrored
      PROVE  /\ g[e].when \in Int /\ g[e].at \in Nat /\ g[e].alive \in BOOLEAN
             /\ linked[e] # Nil => linked[e].when \in Int /\ linked[e].etag \in Nat
                                  /\ C!Unpushed <= linked[e].when
             /\ kept[e] # Nil => kept[e] \in Nat
  <2>1. g[e] \in C!Event /\ linked[e] \in C!Row \cup {Nil} /\ kept[e] \in C!Versions \cup {Nil}
    BY DEF Typed
  <2> QED
    BY <2>1, Numbers DEF C!Event, C!Row
<1> QED
  BY <1>1, <1>2

LEMMA RunTypes ==
  ASSUME NEW r \in SyncRun
  PROVE  /\ r.token # Nil => r.token \in Nat
         /\ r.next # Nil => r.next \in Nat
         /\ DOMAIN r.snap \subseteq Mirrored /\ DOMAIN r.items \subseteq Mirrored
         /\ DOMAIN r.writes \subseteq Mirrored
         /\ \A e \in DOMAIN r.snap : r.snap[e] \in C!Row
         /\ \A e \in DOMAIN r.items : r.items[e] \in C!Event
         /\ \A e \in DOMAIN r.writes : r.writes[e] \in C!Row \cup {Nil}
<1>1. /\ r.snap \in Maps(C!Row) /\ r.items \in Maps(C!Event)
      /\ r.writes \in Maps(C!Row \cup {Nil})
      /\ r.token \in C!Versions \cup {Nil} /\ r.next \in C!Versions \cup {Nil}
  BY DEF SyncRun
<1> QED
  BY <1>1, MapFacts, Numbers

LEMMA RowTypes ==
  /\ \A row \in C!Row : row.when \in Int /\ row.etag \in Nat /\ row.est \in BOOLEAN /\ row # Nil
                       /\ C!Unpushed <= row.when
  /\ \A item \in C!Event : item.when \in Int /\ item.at \in Nat /\ item.alive \in BOOLEAN
BY Numbers, CalendarAssumption DEF C!Row, C!Event

LEMMA RestTyped ==
  /\ C!Rest \in SyncRun /\ [C!Rest EXCEPT !.step = "watch"] \in SyncRun
  /\ C!Still \in EditRun
  /\ \A v \in C!Versions \cup {Nil} : [C!Rest EXCEPT !.step = "link", !.token = v] \in SyncRun
BY EmptyMap DEF C!Rest, C!Still, SyncRun, EditRun, C!Kinds

-----------------------------------------------------------------------------
(* Syncs that rest or begin *)

LEMMA RestOK ==
  ASSUME NEW r, r = C!Rest \/ r = [C!Rest EXCEPT !.step = "watch"]
  PROVE  Placed(r) /\ TokenBound(r) /\ \A e \in Mirrored : SnapBound(e, r) /\ SyncOK(e, r)
<1>1. /\ r.step \in {"rest", "watch"} /\ r.token = Nil /\ r.next = Nil
      /\ r.snap = <<>> /\ r.items = <<>> /\ r.writes = <<>>
  BY DEF C!Rest
<1> QED
  BY <1>1, EmptyMap DEF Placed, TokenBound, SnapBound, SyncOK

LEMMA RestRun ==
  ASSUME NEW p, sync'[p] = C!Rest \/ sync'[p] = [C!Rest EXCEPT !.step = "watch"]
  PROVE  RunOK(sync[p])'
<1>1. /\ sync'[p].step \in {"rest", "watch"} /\ sync'[p].token = Nil /\ sync'[p].next = Nil
      /\ sync'[p].snap = <<>> /\ sync'[p].items = <<>> /\ sync'[p].writes = <<>>
  BY DEF C!Rest
<1> QED
  BY <1>1, EmptyMap DEF RunOK, Placed, TokenBound, SnapBound, SyncOK

LEMMA BeginRun ==
  ASSUME WorldInv', NEW p, sync'[p] = [C!Rest EXCEPT !.step = "link", !.token = token']
  PROVE  RunOK(sync[p])'
<1>1. /\ sync'[p].step = "link" /\ sync'[p].token = token' /\ sync'[p].next = Nil
      /\ sync'[p].snap = <<>> /\ sync'[p].items = <<>> /\ sync'[p].writes = <<>>
  BY DEF C!Rest
<1> QED
  BY <1>1, EmptyMap
     DEF RunOK, Placed, TokenBound, SnapBound, SyncOK, WorldInv, RowsOK

-----------------------------------------------------------------------------
(* What the others' steps leave of a sync *)

\* Nothing a sync looks at changes, unless the edit under way ends.
LEMMA CalmRun ==
  ASSUME NEW p, sync'[p] = sync[p], RunOK(sync[p]),
         UNCHANGED <<g, version, linked, kept>>,
         edit' = edit \/ edit'.pushed = Nil,
         excused => excused'
  PROVE  RunOK(sync[p])'
<1>1. \A e, row : RowOK(e, row) => RowOK(e, row)'
  BY DEF RowOK, Shown, Current, Stays, Pushing
<1>2. \A e, row, upto : ShownAt(e, row, upto) => ShownAt(e, row, upto)'
  BY DEF ShownAt, Current
<1>3. \A e, was : SnapOK(e, was) => SnapOK(e, was)'
  BY DEF SnapOK, Current, Pushing
<1>4. \A e : SyncOK(e, sync[p]) => SyncOK(e, sync[p])'
  BY <1>1, <1>2, <1>3 DEF SyncOK, ItemOK, Result
<1>5. \A e : SnapBound(e, sync[p]) => SnapBound(e, sync[p])'
  BY DEF SnapBound
<1> QED
  BY <1>4, <1>5 DEF RunOK, Placed, TokenBound

\* An event changes in Google.
Changes(e) ==
    /\ e \in Mirrored
    /\ version' = version + 1 /\ version' \in C!Versions
    /\ g' \in [Mirrored -> C!Event]
    /\ \A x \in Mirrored \ {e} : g'[x] = g[x]
    /\ g'[e].at = version' /\ g'[e].when <= version'
    /\ excused => excused'
    /\ ~excused' => g[e].when <= g'[e].when
    /\ \/ edit' = edit
       \/ edit.pushed = Nil /\ edit'.pushed = version' /\ edit'.event = e
    /\ UNCHANGED <<linked, kept, token>>

LEMMA ChangeRow ==
  ASSUME Typed, NEW e, Changes(e), NEW x \in Mirrored, EventBound(x), ~excused',
         NEW row \in C!Row, RowOK(x, row), row.etag <= g[x].at, row.when <= version
  PROVE  RowOK(x, row)'
<1>1. /\ g'[x].at \in Nat /\ g'[x].when \in Int
  BY RowTypes DEF Changes
<1>2. row.when \in Int /\ row.etag \in Nat /\ row # Nil
  BY RowTypes
<1>3. /\ Pushing(x)' /\ row.etag <= edit'.pushed => row.when <= edit'.pushed
  BY <1>2, WorldTypes DEF Changes, Pushing, RowOK
<1>4. row.when <= g'[x].when
  BY <1>1, <1>2, WorldTypes DEF Changes, RowOK
<1>5. CASE x = e
  BY <1>1, <1>2, <1>3, <1>4, <1>5, WorldTypes DEF Changes, RowOK, Shown, Current, Stays, EventBound
<1>6. CASE x # e
  BY <1>2, <1>3, <1>4, <1>6 DEF Changes, RowOK, Shown, Current, Stays
<1> QED
  BY <1>5, <1>6

LEMMA ChangeShown ==
  ASSUME Typed, NEW e, Changes(e), NEW x \in Mirrored, NEW row, NEW upto \in Nat \cup {Nil},
         ShownAt(x, row, upto), upto # Nil => upto <= version
  PROVE  ShownAt(x, row, upto)'
BY WorldTypes DEF Changes, ShownAt, Current

LEMMA ChangeRun ==
  ASSUME Typed, NEW e, Changes(e), \A x \in Mirrored : EventBound(x),
         NEW p \in Procs, sync'[p] = sync[p], RunOK(sync[p])
  PROVE  RunOK(sync[p])'
<1> DEFINE r == sync[p]
<1>1. r \in SyncRun
  BY DEF Typed
<1>2. Placed(r)' /\ TokenBound(r)'
  BY <1>1, RunTypes, WorldTypes DEF Changes, RunOK, Placed, TokenBound
<1>3. \A x \in Mirrored : g'[x].at \in Nat /\ g[x].at \in Nat /\ g[x].at <= g'[x].at
  BY RowTypes, WorldTypes DEF Changes, EventBound
<1>4. ASSUME NEW x \in Mirrored PROVE SnapBound(x, r)'
  <2>1. SnapBound(x, r)
    BY DEF RunOK
  <2>2. version' \in Nat /\ version \in Nat /\ version <= version'
    BY WorldTypes DEF Changes
  <2>3. x \in DOMAIN r.snap => r.snap[x].etag <= g'[x].at /\ r.snap[x].when <= version'
    BY <1>1, <1>3, <2>1, <2>2, RunTypes, RowTypes DEF SnapBound
  <2>4. x \in DOMAIN r.items => r.items[x].at <= g'[x].at
    BY <1>1, <1>3, <2>1, RunTypes, RowTypes DEF SnapBound
  <2>5. x \in DOMAIN r.writes /\ r.writes[x] # Nil =>
           r.writes[x].etag <= g'[x].at /\ r.writes[x].when <= version'
    BY <1>1, <1>3, <2>1, <2>2, RunTypes, RowTypes DEF SnapBound
  <2> QED
    BY <2>1, <2>3, <2>4, <2>5 DEF SnapBound
<1>5. ASSUME ~excused', ~r.late, NEW x \in Mirrored PROVE SyncOK(x, r)'
  <2>1. SyncOK(x, r) /\ SnapBound(x, r) /\ TokenBound(r) /\ EventBound(x)
    BY <1>5 DEF RunOK, Changes
  <2>2. r.step \in {"link", "fetch"} => ShownAt(x, linked[x], r.token)'
    BY <1>1, <2>1, RunTypes, ChangeShown DEF SyncOK, TokenBound, Changes
  <2>3. r.step = "apply" /\ x \notin DOMAIN r.items => ShownAt(x, Result(x, r), r.next)'
    BY <1>1, <2>1, RunTypes, ChangeShown DEF SyncOK, TokenBound, Changes, Result
  <2>4. x \in DOMAIN r.writes => RowOK(x, r.writes[x])'
    <3>1. CASE r.writes[x] = Nil
      BY <3>1 DEF RowOK
    <3>2. CASE r.writes[x] # Nil
      BY <1>1, <1>5, <2>1, <3>2, RunTypes, ChangeRow DEF SyncOK, SnapBound
    <3> QED
      BY <3>1, <3>2
  <2>5. ASSUME x \in DOMAIN r.items PROVE ItemOK(x, r.items[x], r.next)'
    <3>1. r.items[x] \in C!Event /\ ItemOK(x, r.items[x], r.next) /\ r.next \in Nat \cup {Nil}
          /\ r.step = "apply"
      BY <1>1, <2>1, <2>5, RunTypes, EmptyMap DEF SyncOK, RunOK, Placed
    <3>2. r.next \in Nat /\ r.next <= version
      BY <1>1, <2>1, <3>1, RunTypes DEF RunOK, Placed, TokenBound
    <3>3. r.items[x].when <= g'[x].when
      BY <1>5, <3>1, RowTypes, WorldTypes DEF ItemOK, Changes
    <3>4. CASE x = e
      BY <1>3, <2>1, <2>5, <3>1, <3>2, <3>3, <3>4, RowTypes, WorldTypes
         DEF ItemOK, Changes, SnapBound, EventBound
    <3>5. CASE x # e
      BY <3>1, <3>3, <3>5 DEF ItemOK, Changes
    <3> QED
      BY <3>4, <3>5
  <2>6. ASSUME x \in DOMAIN r.snap PROVE SnapOK(x, r.snap[x])'
    <3>1. r.snap[x] \in C!Row /\ SnapOK(x, r.snap[x])
      BY <1>1, <2>1, <2>6, RunTypes DEF SyncOK
    <3>2. linked[x] # Nil /\ Pushing(x)' =>
             \/ linked[x] = r.snap[x]
             \/ linked[x].when <= edit'.pushed /\ r.snap[x].when <= edit'.pushed
      BY <2>1, <2>6, <3>1, RowTypes, WorldTypes
         DEF SnapOK, Current, Changes, Pushing, SnapBound, EventBound
    <3>3. kept[x] # Nil /\ g'[x].at = kept[x] /\ linked[x] # Nil => r.snap[x].etag = kept[x]
      BY <2>1, <3>1, WorldTypes DEF SnapOK, Current, Changes, EventBound
    <3>4. r.snap[x].etag = g'[x].at /\ linked[x] # Nil =>
             /\ linked[x].etag = g'[x].at
             /\ linked[x].when = r.snap[x].when \/ Current(x, linked[x])'
      BY <2>1, <2>6, <3>1, RowTypes, WorldTypes DEF SnapOK, Current, Changes, SnapBound, EventBound
    <3> QED
      BY <3>1, <3>2, <3>3, <3>4 DEF SnapOK, Current, Changes
  <2> QED
    BY <2>1, <2>2, <2>3, <2>4, <2>5, <2>6 DEF SyncOK, Changes
<1> QED
  BY <1>2, <1>4, <1>5 DEF RunOK

LEMMA ChangeWorld ==
  ASSUME WorldInv, NEW e, Changes(e), Typed', EditPlaced',
         \/ edit' = edit
         \/ /\ edit.pushed = Nil /\ edit'.pushed = version' /\ edit'.event = e
            /\ edit'.kind # "remove" => g'[e].alive
            /\ edit'.kind \in {"move", "due"} => g'[e].when = version'
            /\ ~excused' /\ edit'.kind = "touch" => g'[e].when = edit'.was
            /\ edit'.was = edit.was
  PROVE  WorldInv'
<1>1. version' \in Nat /\ version \in Nat /\ version' = version + 1
  BY WorldTypes DEF Changes, WorldInv
<1>2. ASSUME NEW x \in Mirrored PROVE EventBound(x)'
  <2>1. EventBound(x) /\ g'[x] \in C!Event
    BY DEF WorldInv, Changes
  <2>2. g'[x].when <= g'[x].at /\ g[x].at <= g'[x].at /\ g'[x].at <= version'
    BY <1>1, <2>1, RowTypes, WorldTypes DEF WorldInv, Changes, EventBound
  <2>3. linked[x] # Nil => linked[x].etag <= g'[x].at /\ linked[x].when <= version'
    BY <1>1, <2>1, <2>2, RowTypes, WorldTypes DEF WorldInv, EventBound
  <2>4. kept[x] # Nil => kept[x] <= version'
    BY <1>1, <2>1, WorldTypes DEF WorldInv, EventBound
  <2> QED
    BY <2>2, <2>3, <2>4 DEF EventBound, Changes
<1>3. EditBound'
  <2>1. edit'.was # Nil => edit'.was <= version'
    BY <1>1, WorldTypes DEF WorldInv, EditBound
  <2>2. CASE edit' = edit
    <3>1. CASE edit.pushed = Nil
      BY <2>1, <2>2, <3>1 DEF EditBound
    <3>2. CASE edit.pushed # Nil
      <4>1. edit.event \in Mirrored
        BY <3>2 DEF WorldInv, EditPlaced
      <4>2. g[edit.event].at <= g'[edit.event].at /\ g'[edit.event].at \in Nat
        BY <1>1, <4>1, RowTypes, WorldTypes DEF WorldInv, Changes, EventBound
      <4> QED
        BY <2>1, <2>2, <3>2, <4>1, <4>2, WorldTypes DEF EditBound, WorldInv, Changes
    <3> QED
      BY <3>1, <3>2
  <2>3. CASE edit' # edit
    <3>1. kept[e] # Nil => kept[e] <= version /\ kept[e] \in Nat
      BY WorldTypes DEF Changes, WorldInv, EventBound
    <3> QED
      BY <1>1, <2>1, <2>3, <3>1 DEF EditBound, Changes
  <2> QED
    BY <2>2, <2>3
<1>4. token' # Nil => token' <= version'
  BY <1>1, WorldTypes DEF WorldInv, Changes
<1>5. ASSUME ~excused' PROVE RowsOK' /\ EditOK'
  <2>1. RowsOK /\ EditOK
    BY <1>5 DEF WorldInv, Changes
  <2>2. ASSUME NEW x \in Mirrored PROVE RowOK(x, linked[x])' /\ ShownAt(x, linked[x], token)'
    <3>1. RowOK(x, linked[x])'
      <4>1. CASE linked[x] = Nil
        BY <4>1 DEF RowOK, Changes
      <4>2. CASE linked[x] # Nil
        <5>1. linked[x] \in C!Row
          BY <4>2 DEF WorldInv, Typed
        <5> QED
          BY <1>5, <2>1, <4>2, <5>1, ChangeRow DEF WorldInv, EventBound, RowsOK, Changes
      <4> QED
        BY <4>1, <4>2
    <3>2. ShownAt(x, linked[x], token)'
      BY <2>1, WorldTypes, ChangeShown DEF WorldInv, RowsOK, Changes
    <3> QED
      BY <3>1, <3>2
  <2>3. EditOK'
    <3>1. CASE edit' = edit
      <4>1. CASE edit.pushed = Nil
        BY <3>1, <4>1 DEF EditOK
      <4>2. CASE edit.pushed # Nil /\ edit.event = e
        <5>1. edit.pushed \in Nat /\ edit.pushed <= g[e].at /\ g[e].at <= version
              /\ g'[e].when \in Int
          BY <4>2, RowTypes, WorldTypes DEF WorldInv, EditBound, EventBound, Changes
        <5>2. edit.kind \in {"move", "due"} => edit.pushed <= g'[e].when
          BY <1>5, <2>1, <4>2, <5>1, WorldTypes DEF EditOK, Changes, WorldInv
        <5>3. g'[e].at # edit.pushed
          BY <1>1, <5>1, WorldTypes DEF WorldInv, Changes
        <5> QED
          BY <3>1, <4>2, <5>2, <5>3 DEF EditOK
      <4>3. CASE edit.pushed # Nil /\ edit.event # e
        <5>1. g'[edit.event] = g[edit.event]
          BY <4>3 DEF WorldInv, EditPlaced, Changes
        <5> QED
          BY <2>1, <3>1, <4>3, <5>1 DEF EditOK
      <4> QED
        BY <4>1, <4>2, <4>3
    <3>2. CASE edit' # edit
      <4>1. edit'.kind \in {"move", "due", "touch", "remove"}
        BY DEF Typed, EditRun, C!Kinds
      <4> QED
        BY <1>1, <1>5, <3>2, <4>1 DEF EditOK
    <3> QED
      BY <3>1, <3>2
  <2> QED
    BY <2>2, <2>3 DEF RowsOK
<1> QED
  BY <1>2, <1>3, <1>4, <1>5 DEF WorldInv

\* Nothing that is stored changes but the edit under way.
LEMMA CalmWorld ==
  ASSUME WorldInv, Typed', EditPlaced', UNCHANGED <<g, version, linked, kept>>,
         token' = token \/ token' = Nil,
         edit' = edit \/ edit'.pushed = Nil,
         edit'.was # Nil => edit'.was <= version,
         excused => excused'
  PROVE  WorldInv'
<1>1. \A e \in Mirrored : EventBound(e)'
  BY DEF WorldInv, EventBound
<1>2. EditBound'
  BY DEF WorldInv, EditBound
<1>3. ASSUME ~excused' PROVE RowsOK' /\ EditOK'
  <2>1. RowsOK /\ EditOK
    BY <1>3 DEF WorldInv
  <2>2. \A e, row : RowOK(e, row) => RowOK(e, row)'
    BY DEF RowOK, Shown, Current, Stays, Pushing
  <2>3. \A e, row : ShownAt(e, row, token) => ShownAt(e, row, token)'
    BY DEF ShownAt, Current
  <2>4. EditOK'
    BY <2>1 DEF EditOK
  <2> QED
    BY <2>1, <2>2, <2>3, <2>4 DEF RowsOK
<1> QED
  BY <1>1, <1>2, <1>3 DEF WorldInv

-----------------------------------------------------------------------------
(* Google's steps, and what begins or ends a sync *)

LEMMA ChangeFacts ==
  ASSUME Typed, NEW e \in Mirrored, NEW event \in C!Event, C!Change(e, event)
  PROVE  /\ version' = version + 1 /\ version' \in C!Versions
         /\ g' \in [Mirrored -> C!Event]
         /\ \A x \in Mirrored \ {e} : g'[x] = g[x]
         /\ g'[e].at = version' /\ g'[e].when = event.when /\ g'[e].alive = event.alive
<1>1. version' = version + 1 /\ version' \in C!Versions
  BY CalendarAssumption DEF C!Change, C!Versions, Typed
<1>2. [event EXCEPT !.at = version + 1] \in C!Event
  BY <1>1 DEF C!Event
<1> QED
  BY <1>1, <1>2 DEF C!Change, C!Event, Typed

LEMMA SetFacts ==
  ASSUME Typed, NEW p \in Procs, NEW r \in SyncRun, C!Set(p, r)
  PROVE  sync' \in [Procs -> SyncRun] /\ sync'[p] = r /\ \A q \in Procs \ {p} : sync'[q] = sync[q]
BY DEF C!Set, Typed

\* A date nobody had, or a cancellation.
LEMMA RenewedOK ==
  ASSUME CalendarInv, NEW e \in Mirrored,
         NEW alive \in BOOLEAN, C!Change(e, [g[e] EXCEPT !.when = version + 1, !.alive = alive]),
         UNCHANGED <<linked, token, kept, edit, excused>>
  PROVE  Changes(e)
<1> DEFINE event == [g[e] EXCEPT !.when = version + 1, !.alive = alive]
<1>1. Typed
  BY DEF CalendarInv, WorldInv
<1>2. version + 1 \in C!Versions
  BY <1>1, CalendarAssumption DEF C!Change, C!Versions, Typed
<1>3. event \in C!Event /\ event.when = version + 1
  BY <1>1, <1>2, Numbers DEF Typed, C!Event
<1>4. /\ version' = version + 1 /\ version' \in C!Versions /\ g' \in [Mirrored -> C!Event]
      /\ \A x \in Mirrored \ {e} : g'[x] = g[x]
      /\ g'[e].at = version' /\ g'[e].when = version'
  BY <1>1, <1>3, ChangeFacts
<1>5. g[e].when <= version + 1
  BY <1>1, WorldTypes DEF CalendarInv, WorldInv, EventBound
<1>6. version' \in Nat
  BY <1>4, Numbers
<1> QED
  BY <1>4, <1>5, <1>6 DEF Changes

LEMMA ExternalOK ==
  ASSUME CalendarInv, NEW e \in Mirrored, C!External(e)
  PROVE  CalendarInv'
<1>1. Changes(e) /\ sync' = sync /\ edit' = edit
  BY RenewedOK DEF C!External
<1>2. Typed'
  BY <1>1 DEF CalendarInv, WorldInv, Typed, Changes, C!External
<1>3. EditPlaced'
  BY <1>1 DEF CalendarInv, WorldInv, EditPlaced
<1>4. WorldInv'
  BY <1>1, <1>2, <1>3, ChangeWorld DEF CalendarInv
<1>5. \A p \in Procs : RunOK(sync[p])'
  BY <1>1, ChangeRun DEF CalendarInv, WorldInv
<1> QED
  BY <1>4, <1>5 DEF CalendarInv

LEMMA RouteOK ==
  ASSUME CalendarInv, NEW p \in Procs, NEW e \in Mirrored, C!Route(p, e)
  PROVE  CalendarInv'
<1>1. Changes(e) /\ edit' = edit /\ token' = token
  BY RenewedOK DEF C!Route
<1>2. /\ sync' \in [Procs -> SyncRun]
      /\ sync'[p] = [C!Rest EXCEPT !.step = "link", !.token = token]
      /\ \A q \in Procs \ {p} : sync'[q] = sync[q]
  BY SetFacts, RestTyped DEF C!Route, C!Begin, CalendarInv, WorldInv, Typed
<1>3. Typed'
  BY <1>1, <1>2 DEF CalendarInv, WorldInv, Typed, Changes, C!Route
<1>4. EditPlaced'
  BY <1>1 DEF CalendarInv, WorldInv, EditPlaced
<1>5. WorldInv'
  BY <1>1, <1>3, <1>4, ChangeWorld DEF CalendarInv
<1>6. \A q \in Procs \ {p} : RunOK(sync[q])'
  BY <1>1, <1>2, ChangeRun DEF CalendarInv, WorldInv
<1>7. RunOK(sync[p])'
  BY <1>1, <1>2, <1>5, BeginRun
<1> QED
  BY <1>5, <1>6, <1>7 DEF CalendarInv

\* A step of one sync that leaves the stored data and the edit alone.
LEMMA OneRun ==
  ASSUME CalendarInv, NEW p \in Procs, NEW r \in SyncRun, C!Set(p, r),
         UNCHANGED <<g, version, floor, linked, edit, kept>>,
         token' = token \/ token' = Nil,
         channel' \in BOOLEAN, throttle' \in BOOLEAN, cFaults' \in 0..CalendarFaults,
         excused' \in BOOLEAN, excused => excused'
  PROVE  /\ WorldInv' /\ sync'[p] = r
         /\ RunOK(sync[p])' => CalendarInv'
<1>1. /\ sync' \in [Procs -> SyncRun] /\ sync'[p] = r
      /\ \A q \in Procs \ {p} : sync'[q] = sync[q]
  BY SetFacts DEF CalendarInv, WorldInv
<1>2. Typed'
  BY <1>1 DEF CalendarInv, WorldInv, Typed
<1>3. EditPlaced'
  BY DEF CalendarInv, WorldInv, EditPlaced
<1>4. WorldInv'
  BY <1>2, <1>3, CalmWorld DEF CalendarInv, WorldInv, EditBound
<1>5. \A q \in Procs \ {p} : RunOK(sync[q])'
  BY <1>1, CalmRun DEF CalendarInv
<1> QED
  BY <1>1, <1>4, <1>5 DEF CalendarInv

LEMMA BeginOK ==
  ASSUME CalendarInv, NEW p \in Procs, C!PageLoad(p) \/ C!Webhook(p)
  PROVE  CalendarInv'
<1> DEFINE r == [C!Rest EXCEPT !.step = "link", !.token = token]
<1>1. r \in SyncRun /\ C!Set(p, r)
  BY RestTyped DEF C!PageLoad, C!Webhook, C!Begin, CalendarInv, WorldInv, Typed
<1> HIDE DEF r
<1>2. /\ UNCHANGED <<g, version, floor, linked, token, edit, kept, cFaults, excused, channel>>
      /\ throttle' \in BOOLEAN
  BY DEF C!PageLoad, C!Webhook, C!google, CalendarInv, WorldInv, Typed
<1>3. /\ channel' \in BOOLEAN /\ cFaults' \in 0..CalendarFaults /\ excused' \in BOOLEAN
  BY <1>2 DEF CalendarInv, WorldInv, Typed
<1>4. WorldInv' /\ sync'[p] = r /\ (RunOK(sync[p])' => CalendarInv')
  BY <1>1, <1>2, <1>3, OneRun
<1>5. RunOK(sync[p])'
  BY <1>2, <1>4, BeginRun DEF r
<1> QED
  BY <1>4, <1>5

LEMMA FaultType ==
  ASSUME Typed, C!Fault
  PROVE  cFaults' \in 0..CalendarFaults
BY CalendarAssumption DEF Typed, C!Fault

LEMMA EndOK ==
  ASSUME CalendarInv, NEW p \in Procs, C!Watch(p) \/ C!SyncFails(p)
  PROVE  CalendarInv'
<1>1. C!Rest \in SyncRun /\ C!Set(p, C!Rest)
  BY RestTyped DEF C!Watch, C!SyncFails
<1>2. /\ UNCHANGED <<g, version, floor, linked, token, edit, kept, excused, throttle>>
      /\ channel' \in BOOLEAN
  BY DEF C!Watch, C!SyncFails, C!google, CalendarInv, WorldInv, Typed
<1>3. cFaults' \in 0..CalendarFaults
  BY FaultType DEF C!Watch, C!SyncFails, CalendarInv, WorldInv, Typed
<1>4. throttle' \in BOOLEAN /\ excused' \in BOOLEAN
  BY <1>2 DEF CalendarInv, WorldInv, Typed
<1>5. sync'[p] = C!Rest /\ (RunOK(sync[p])' => CalendarInv')
  BY <1>1, <1>2, <1>3, <1>4, OneRun
<1> QED
  BY <1>5, RestRun

-----------------------------------------------------------------------------
(* Edits *)

\* A step that leaves the stored data and the syncs alone.
LEMMA CalmOK ==
  ASSUME CalendarInv, Typed', EditPlaced', sync' = sync,
         UNCHANGED <<g, version, linked, kept, token>>,
         edit' = edit \/ edit'.pushed = Nil,
         edit'.was # Nil => edit'.was <= version,
         excused => excused'
  PROVE  CalendarInv'
<1>1. WorldInv'
  BY CalmWorld DEF CalendarInv
<1>2. \A p \in Procs : RunOK(sync[p])'
  BY CalmRun DEF CalendarInv
<1> QED
  BY <1>1, <1>2 DEF CalendarInv

LEMMA OutsideOK ==
  ASSUME CalendarInv, C!Forget \/ C!ChannelExpires \/ C!ThrottleExpires
  PROVE  CalendarInv'
<1>1. /\ UNCHANGED <<g, version, linked, kept, token, edit, sync>> /\ (excused => excused')
      /\ excused' \in BOOLEAN /\ channel' \in BOOLEAN /\ throttle' \in BOOLEAN
      /\ floor' \in C!Versions
  BY DEF C!Forget, C!ChannelExpires, C!ThrottleExpires, C!google, CalendarInv, WorldInv, Typed
<1>2. cFaults' \in 0..CalendarFaults
  BY FaultType
     DEF C!Forget, C!ChannelExpires, C!ThrottleExpires, C!google, CalendarInv, WorldInv, Typed
<1>3. Typed'
  BY <1>1, <1>2 DEF CalendarInv, WorldInv, Typed
<1>4. EditPlaced'
  BY <1>1 DEF CalendarInv, WorldInv, EditPlaced
<1>5. edit'.was # Nil => edit'.was <= version
  BY <1>1 DEF CalendarInv, WorldInv, EditBound
<1> QED
  BY <1>1, <1>3, <1>4, <1>5, CalmOK

LEMMA EditReadOK ==
  ASSUME CalendarInv, NEW e \in Mirrored, NEW kind \in C!Kinds,
         C!EditRead(e, kind)
  PROVE  CalendarInv'
<1> DEFINE was == IF kind = "touch" THEN linked[e].when ELSE Nil
<1>1. /\ edit' = [step |-> "push", event |-> e, kind |-> kind, was |-> was, pushed |-> Nil]
      /\ linked[e] # Nil
      /\ UNCHANGED <<g, version, floor, linked, token, channel, throttle, sync, kept, excused,
                     cFaults>>
  BY DEF C!EditRead, C!google
<1>2. linked[e] \in C!Row
  BY <1>1 DEF CalendarInv, WorldInv, Typed
<1>3. was \in C!Dates \cup {Nil} /\ (kind = "touch" => was # Nil)
      /\ (was # Nil => was <= version)
  BY <1>1, <1>2, Numbers DEF C!Row, CalendarInv, WorldInv, EventBound
<1> HIDE DEF was
<1>4. edit' \in EditRun
  BY <1>1, <1>3 DEF EditRun
<1>5. Typed'
  BY <1>1, <1>4 DEF CalendarInv, WorldInv, Typed
<1>6. EditPlaced'
  BY <1>1, <1>3 DEF EditPlaced
<1> QED
  BY <1>1, <1>3, <1>5, <1>6, CalmOK

LEMMA PushFailsOK ==
  ASSUME CalendarInv, C!PushFails
  PROVE  CalendarInv'
<1>1. /\ edit.step = "push" /\ edit' = [edit EXCEPT !.step = "commit"]
      /\ UNCHANGED <<g, version, floor, linked, token, channel, throttle, sync, kept, excused>>
  BY DEF C!PushFails, C!google
<1>2. edit \in EditRun /\ edit.pushed = Nil
  BY <1>1 DEF CalendarInv, WorldInv, Typed, EditPlaced
<1>3. edit' \in EditRun /\ edit'.pushed = Nil /\ edit'.was = edit.was /\ edit'.step = "commit"
      /\ edit'.event = edit.event /\ edit'.kind = edit.kind
  BY <1>1, <1>2 DEF EditRun
<1>4. cFaults' \in 0..CalendarFaults
  BY FaultType DEF C!PushFails, CalendarInv, WorldInv, Typed
<1>5. Typed'
  BY <1>1, <1>3, <1>4 DEF CalendarInv, WorldInv, Typed
<1>6. EditPlaced'
  BY <1>1, <1>3 DEF EditPlaced, CalendarInv, WorldInv
<1>7. edit'.was # Nil => edit'.was <= version
  BY <1>3 DEF CalendarInv, WorldInv, EditBound
<1> QED
  BY <1>1, <1>3, <1>5, <1>6, <1>7, CalmOK

LEMMA EditFailsOK ==
  ASSUME CalendarInv, C!EditFails
  PROVE  CalendarInv'
<1>1. /\ edit' = C!Still
      /\ UNCHANGED <<g, version, floor, linked, token, channel, throttle, sync, kept, excused>>
  BY DEF C!EditFails, C!google
<1>2. cFaults' \in 0..CalendarFaults
  BY FaultType DEF C!EditFails, CalendarInv, WorldInv, Typed
<1>3. edit' \in EditRun /\ edit'.pushed = Nil /\ edit'.was = Nil /\ edit'.step = "rest"
  BY <1>1, RestTyped DEF C!Still
<1>4. Typed'
  BY <1>1, <1>2, <1>3 DEF CalendarInv, WorldInv, Typed
<1>5. EditPlaced'
  BY <1>1, <1>3 DEF EditPlaced
<1> QED
  BY <1>1, <1>3, <1>4, <1>5, CalmOK

LEMMA EditPushOK ==
  ASSUME CalendarInv, C!EditPush
  PROVE  CalendarInv'
<1> DEFINE e == edit.event
<1>1. /\ Typed /\ e \in Mirrored /\ edit \in EditRun /\ edit.pushed = Nil /\ edit.step = "push"
      /\ (edit.kind = "touch" => edit.was # Nil)
  BY DEF C!EditPush, CalendarInv, WorldInv, Typed, EditPlaced
<1>2. /\ g[e].alive /\ C!Change(e, C!Pushed)
      /\ edit' = [edit EXCEPT !.step = "commit", !.pushed = version + 1]
      /\ excused' = (excused \/ (edit.kind = "touch" /\ g[e].when # edit.was))
      /\ UNCHANGED <<floor, linked, token, channel, throttle, sync, kept, cFaults>>
  BY DEF C!EditPush
<1>3. version + 1 \in C!Versions
  BY <1>1, <1>2, CalendarAssumption DEF C!Change, C!Versions, Typed
<1>4. edit' \in EditRun /\ edit'.pushed = version + 1 /\ edit'.step = "commit"
      /\ edit'.event = e /\ edit'.kind = edit.kind /\ edit'.was = edit.was
  BY <1>1, <1>2, <1>3 DEF EditRun
<1>5. g[e] \in C!Event /\ g[e].when \in Int
  BY <1>1, WorldTypes DEF Typed
<1>6. /\ C!Pushed \in C!Event
      /\ edit.kind # "remove" => C!Pushed.alive
      /\ edit.kind \in {"move", "due"} => C!Pushed.when = version + 1
      /\ edit.kind = "touch" => C!Pushed.when = edit.was
      /\ edit.kind = "remove" => C!Pushed.when = g[e].when
  <2>1. edit.kind \in {"move", "due", "touch", "remove"} /\ edit.was \in C!Dates \cup {Nil}
    BY <1>1 DEF EditRun, C!Kinds
  <2>2. version + 1 \in C!Dates
    BY <1>3, Numbers
  <2>3. CASE edit.kind \in {"move", "due"}
    BY <1>2, <1>5, <2>2, <2>3 DEF C!Pushed, C!Event
  <2>4. CASE edit.kind = "touch"
    BY <1>1, <1>2, <1>5, <2>1, <2>4 DEF C!Pushed, C!Event
  <2>5. CASE edit.kind = "remove"
    BY <1>5, <2>5 DEF C!Pushed, C!Event
  <2> QED
    BY <2>1, <2>3, <2>4, <2>5
<1>7. /\ version' = version + 1 /\ version' \in C!Versions /\ g' \in [Mirrored -> C!Event]
      /\ \A x \in Mirrored \ {e} : g'[x] = g[x]
      /\ g'[e].at = version' /\ g'[e].when = C!Pushed.when /\ g'[e].alive = C!Pushed.alive
  BY <1>1, <1>2, <1>6, ChangeFacts
<1>8. version \in Nat /\ g[e].when <= version + 1
      /\ (edit.was # Nil => edit.was \in Int /\ edit.was <= version)
  BY <1>1, WorldTypes DEF CalendarInv, WorldInv, EventBound, EditBound
<1>9. edit.kind \in {"move", "due", "touch", "remove"}
  BY <1>1 DEF EditRun, C!Kinds
<1>10. g'[e].when <= version'
  BY <1>1, <1>5, <1>6, <1>7, <1>8, <1>9
<1>11. ~excused' => g[e].when <= g'[e].when
  <2>1. ~excused' /\ edit.kind = "touch" => g[e].when = edit.was
    BY <1>2, Zenon
  <2> QED
    BY <1>5, <1>6, <1>7, <1>8, <1>9, <2>1
<1>12. Changes(e)
  BY <1>1, <1>2, <1>4, <1>7, <1>10, <1>11 DEF Changes
<1>13. Typed'
  BY <1>2, <1>4, <1>7, <1>1 DEF Typed
<1>14. EditPlaced'
  BY <1>1, <1>4 DEF EditPlaced
<1>15. WorldInv'
  BY <1>1, <1>4, <1>6, <1>7, <1>12, <1>13, <1>14, ChangeWorld DEF CalendarInv
<1>16. \A p \in Procs : RunOK(sync[p])'
  BY <1>1, <1>2, <1>12, ChangeRun DEF CalendarInv, WorldInv
<1> QED
  BY <1>15, <1>16 DEF CalendarInv

\* What an edit's commit makes of the row, and what it leaves true of it.
LEMMA EditedRow ==
  ASSUME CalendarInv, C!EditCommit, edit.kind # "remove"
  PROVE  LET e == edit.event
             row == linked[e]
             new == C!Edited(row)
         IN  /\ new \in C!Row /\ new.etag <= g[e].at /\ new.when <= version
             /\ ~excused' =>
                  /\ Shown(e, new) /\ new.when <= g[e].when
                  /\ kept'[e] # Nil /\ g[e].at = kept'[e] =>
                       new.etag = kept'[e] /\ (new.est => new.when = C!Unpushed)
                  /\ \A upto : ShownAt(e, row, upto) => ShownAt(e, new, upto)
<1> DEFINE e == edit.event
           row == linked[e]
           new == C!Edited(row)
<1>1. /\ Typed /\ e \in Mirrored /\ row \in C!Row /\ row # Nil /\ edit \in EditRun
      /\ edit.kind \in {"move", "due", "touch"} /\ edit.pushed \in C!Versions \cup {Nil}
  BY DEF C!EditCommit, CalendarInv, WorldInv, EditPlaced, Typed, EditRun, C!Kinds
<1>2. /\ new = [when |-> IF ~C!Redated(row) THEN row.when
                         ELSE IF edit.pushed = Nil THEN C!Unpushed ELSE edit.pushed,
                est |-> row.est \/ edit.kind = "move",
                etag |-> IF edit.pushed = Nil THEN row.etag ELSE edit.pushed]
  BY DEF C!Edited
<1> HIDE DEF new
<1>2a. /\ new.when = IF ~C!Redated(row) THEN row.when
                     ELSE IF edit.pushed = Nil THEN C!Unpushed ELSE edit.pushed
       /\ new.etag = IF edit.pushed = Nil THEN row.etag ELSE edit.pushed
       /\ C!Redated(row) <=> edit.kind = "move" \/ (edit.kind = "due" /\ ~row.est)
  BY <1>2 DEF new, C!Redated
<1>3. row.when \in C!Dates /\ row.etag \in C!Versions /\ row.when \in Int /\ row.etag \in Nat
      /\ C!Unpushed <= row.when /\ row.est \in BOOLEAN
  BY <1>1, RowTypes DEF C!Row
<1>4. new \in C!Row
  <2>1. new.when \in C!Dates /\ new.etag \in C!Versions
    <3>1. C!Unpushed \in C!Dates /\ (edit.pushed # Nil => edit.pushed \in C!Dates)
      BY <1>1, Numbers
    <3>2. new.etag = IF edit.pushed = Nil THEN row.etag ELSE edit.pushed
      BY <1>2
    <3>3. new.when = IF ~C!Redated(row) THEN row.when
                     ELSE IF edit.pushed = Nil THEN C!Unpushed ELSE edit.pushed
      BY <1>2
    <3> QED
      BY <1>1, <1>3, <3>1, <3>2, <3>3
  <2>2. new.est \in BOOLEAN
    BY <1>2, <1>3
  <2> QED
    BY <1>2, <2>1, <2>2 DEF C!Row
<1>5. /\ g[e].at \in Nat /\ g[e].when \in Int /\ version \in Nat
      /\ g[e].when <= g[e].at /\ g[e].at <= version /\ C!Unpushed <= g[e].when
      /\ row.etag <= g[e].at /\ row.when <= version
      /\ (kept[e] # Nil => kept[e] \in Nat)
  <2>1. g[e].when \in C!Dates
    BY <1>1 DEF Typed, C!Event
  <2> QED
    BY <1>1, <2>1, WorldTypes, Numbers DEF CalendarInv, WorldInv, EventBound
<1>6. edit.pushed # Nil =>
         /\ edit.pushed \in Nat /\ edit.pushed <= g[e].at
         /\ kept[e] # Nil => kept[e] < edit.pushed
  BY <1>1, Numbers DEF CalendarInv, WorldInv, EditBound
<1>7. new.etag <= g[e].at /\ new.when <= version
  BY <1>1, <1>2, <1>3, <1>5, <1>6, Numbers
<1>8. ASSUME ~excused'
      PROVE  /\ Shown(e, new) /\ new.when <= g[e].when
             /\ kept'[e] # Nil /\ g[e].at = kept'[e] =>
                  new.etag = kept'[e] /\ (new.est => new.when = C!Unpushed)
             /\ \A upto : ShownAt(e, row, upto) => ShownAt(e, new, upto)
  <2>1. ~excused /\ (edit.pushed # Nil =>
             /\ ~(row.etag > edit.pushed)
             /\ edit.kind = "touch" => row.when = edit.was
             /\ edit.kind = "due" => ~row.est)
    <3>1. excused' = (excused \/ (edit.pushed # Nil
              /\ \/ row.etag > edit.pushed
                 \/ edit.kind = "touch" /\ row.when # edit.was
                 \/ edit.kind = "due" /\ row.est))
      BY DEF C!EditCommit
    <3> QED
      BY <1>8, <3>1, Zenon
  <2>2. /\ RowOK(e, row) /\ EditOK
    BY <1>1, <2>1 DEF CalendarInv, WorldInv, RowsOK
  <2>3. Shown(e, row) /\ Stays(e, row) /\ row.when <= g[e].when
    BY <1>1, <2>2 DEF RowOK
  <2>4. edit.pushed # Nil =>
           /\ g[e].at = edit.pushed =>
                /\ g[e].alive
                /\ g[e].when = IF edit.kind \in {"move", "due"} THEN edit.pushed ELSE edit.was
           /\ edit.kind \in {"move", "due"} => edit.pushed <= g[e].when
    BY <1>1, <2>2 DEF EditOK
  <2>5. Shown(e, new)
    <3>1. new.est <=> row.est \/ edit.kind = "move"
      BY <1>2, <1>3
    <3>2. CASE C!Redated(row)
      BY <1>1, <1>2a, <2>1, <2>4, <3>2 DEF Shown, Current
    <3>3. CASE ~C!Redated(row)
      <4>1. edit.pushed # Nil => edit.kind = "touch" /\ row.when = edit.was
        <5>1. edit.kind # "move" /\ (edit.kind = "due" => row.est)
          BY <1>2a, <3>3, Zenon
        <5>2. edit.pushed # Nil => edit.kind # "due" /\ (edit.kind = "touch" => row.when = edit.was)
          BY <2>1, <5>1, Zenon
        <5> QED
          BY <1>1, <5>1, <5>2
      <4>2. new.when = row.when /\ (new.est => row.est)
        BY <1>3, <1>2a, <3>1, <3>3
      <4> QED
        BY <1>2a, <2>3, <2>4, <4>1, <4>2 DEF Shown, Current
    <3> QED
      BY <3>2, <3>3
  <2>6. new.when <= g[e].when
    BY <1>1, <1>2a, <1>5, <2>3, <2>4
  <2>7. kept'[e] = IF ~C!Redated(row) THEN kept[e]
                   ELSE IF edit.pushed = Nil /\ ~C!Outdated(e) THEN row.etag ELSE Nil
    BY <1>1 DEF C!EditCommit, Typed
  <2>8. ASSUME kept'[e] # Nil, g[e].at = kept'[e]
        PROVE  new.etag = kept'[e] /\ (new.est => new.when = C!Unpushed)
    <3>1. CASE ~C!Redated(row)
      <4>1. new.est => row.est
        BY <1>2, <1>3, <1>2a, <3>1
      <4> QED
        BY <1>2a, <1>5, <1>6, <2>3, <2>7, <2>8, <3>1, <4>1 DEF Stays
    <3>2. CASE C!Redated(row)
      BY <1>2a, <2>7, <2>8, <3>2
    <3> QED
      BY <3>1, <3>2
  <2>9. ASSUME NEW upto, ShownAt(e, row, upto) PROVE ShownAt(e, new, upto)
    <3>1. ASSUME upto # Nil, g[e].at <= upto
          PROVE  g[e].alive /\ new.etag = g[e].at /\ Current(e, new)
      <4>1. g[e].alive /\ row.etag = g[e].at /\ Current(e, row)
        BY <1>1, <2>9, <3>1 DEF ShownAt, Current
      <4>2. edit.pushed # Nil => edit.pushed = g[e].at
        BY <1>3, <1>5, <1>6, <2>1, <4>1
      <4> QED
        BY <1>1, <1>2a, <2>1, <2>4, <4>1, <4>2 DEF Current
    <3> QED
      BY <3>1 DEF ShownAt, Current
  <2> QED
    BY <2>5, <2>6, <2>8, <2>9
<1> QED
  BY <1>4, <1>7, <1>8 DEF new

LEMMA EditCommitOK ==
  ASSUME CalendarInv, C!EditCommit, NEW e \in Mirrored, e = edit.event
  PROVE  CalendarInv'
<1> DEFINE row == linked[e]
           new == IF edit.kind = "remove" THEN Nil ELSE C!Edited(row)
<1>1. /\ Typed /\ e \in Mirrored /\ row \in C!Row /\ row # Nil /\ edit \in EditRun
      /\ edit.kind \in {"move", "due", "touch", "remove"} /\ edit.pushed \in C!Versions \cup {Nil}
  BY DEF C!EditCommit, CalendarInv, WorldInv, EditPlaced, Typed, EditRun, C!Kinds
<1>2. new \in C!Row \cup {Nil}
  BY EditedRow
<1>3. /\ UNCHANGED <<g, version, floor, token, channel, throttle, sync, cFaults>>
      /\ edit' = C!Still /\ edit'.pushed = Nil /\ edit'.was = Nil /\ edit'.step = "rest"
      /\ edit' \in EditRun /\ ~C!Locked(e)
      /\ excused => excused'
  BY RestTyped DEF C!EditCommit, C!google, C!Still
<1>4. /\ linked' \in [Mirrored -> C!Row \cup {Nil}] /\ linked'[e] = new
      /\ \A x \in Mirrored \ {e} : linked'[x] = linked[x]
  BY <1>1, <1>2 DEF C!EditCommit, Typed
<1>5. /\ kept'[e] = IF edit.kind # "remove" /\ ~C!Redated(row) THEN kept[e]
                    ELSE IF edit.kind # "remove" /\ edit.pushed = Nil /\ ~C!Outdated(e)
                    THEN row.etag ELSE Nil
      /\ \A x \in Mirrored \ {e} : kept'[x] = kept[x]
      /\ kept' \in [Mirrored -> C!Versions \cup {Nil}]
  BY <1>1 DEF C!EditCommit, Typed, C!Row
<1> HIDE DEF new
<1>6. excused' \in BOOLEAN
  BY DEF C!EditCommit, CalendarInv, WorldInv, Typed
<1>7. Typed' /\ EditPlaced'
  BY <1>1, <1>3, <1>4, <1>5, <1>6 DEF Typed, EditPlaced
<1>8. /\ new # Nil => /\ edit.kind # "remove" /\ new = C!Edited(row)
                      /\ new.etag <= g[e].at /\ new.when <= version
      /\ new = Nil => edit.kind = "remove"
  BY EditedRow, RowTypes DEF new
<1>9. ASSUME NEW x \in Mirrored PROVE EventBound(x)'
  <2>1. EventBound(x)
    BY DEF CalendarInv, WorldInv
  <2>2. CASE x # e
    BY <1>3, <1>4, <1>5, <2>1, <2>2 DEF EventBound
  <2>3. CASE x = e
    <3>1. row.etag <= version
      BY <1>1, <2>1, <2>3, WorldTypes DEF EventBound
    <3> QED
      BY <1>1, <1>3, <1>4, <1>5, <1>8, <2>1, <2>3, <3>1 DEF EventBound
  <2> QED
    BY <2>2, <2>3
<1>10. EditBound' /\ (token' # Nil => token' <= version')
  BY <1>3 DEF CalendarInv, WorldInv, EditBound
<1>11. ~excused' => ~excused /\ RowsOK /\ EditOK
  BY <1>3 DEF CalendarInv, WorldInv
<1>12. ASSUME ~excused', NEW x \in Mirrored, NEW r, RowOK(x, r), x # e PROVE RowOK(x, r)'
  BY <1>3, <1>5, <1>12 DEF RowOK, Shown, Current, Stays, Pushing
<1>13. ASSUME ~excused' PROVE RowOK(e, linked[e])'
  <2>1. CASE new = Nil
    BY <1>4, <2>1 DEF RowOK
  <2>2. CASE new # Nil
    <3>1. /\ Shown(e, new) /\ new.when <= g[e].when
          /\ kept'[e] # Nil /\ g[e].at = kept'[e] =>
               new.etag = kept'[e] /\ (new.est => new.when = C!Unpushed)
      BY <1>8, <1>13, <2>2, EditedRow
    <3> QED
      BY <1>3, <1>4, <2>2, <3>1 DEF RowOK, Shown, Current, Stays, Pushing
  <2> QED
    BY <2>1, <2>2
<1>14. ASSUME ~excused', NEW x \in Mirrored, NEW upto, ShownAt(x, linked[x], upto)
       PROVE  ShownAt(x, linked[x], upto)'
  <2>1. CASE x # e
    BY <1>3, <1>4, <1>14, <2>1 DEF ShownAt, Current
  <2>2. CASE x = e /\ new = Nil
    BY <1>4, <2>2 DEF ShownAt, Current
  <2>3. CASE x = e /\ new # Nil
    <3>1. ShownAt(e, new, upto)
      BY <1>8, <1>14, <2>3, EditedRow
    <3> QED
      BY <1>3, <1>4, <2>3, <3>1 DEF ShownAt, Current
  <2> QED
    BY <2>1, <2>2, <2>3
<1>15. ~excused' => RowsOK' /\ EditOK'
  <2>1. ~excused' => RowsOK'
    BY <1>1, <1>3, <1>4, <1>11, <1>12, <1>13, <1>14 DEF RowsOK
  <2> QED
    BY <1>3, <2>1 DEF EditOK
<1>16. WorldInv'
  BY <1>7, <1>9, <1>10, <1>15 DEF WorldInv
<1>17. ASSUME NEW p \in Procs PROVE RunOK(sync[p])'
  <2> DEFINE r == sync[p]
  <2>1. RunOK(r) /\ r \in SyncRun /\ sync'[p] = r /\ e \notin DOMAIN r.writes
    BY <1>1, <1>3 DEF CalendarInv, Typed, C!Locked
  <2>2. Placed(r)' /\ TokenBound(r)' /\ \A x \in Mirrored : SnapBound(x, r)'
    BY <1>3, <2>1 DEF RunOK, Placed, TokenBound, SnapBound
  <2>3. ASSUME ~excused', ~r.late, NEW x \in Mirrored PROVE SyncOK(x, r)'
    <3>1. SyncOK(x, r)
      BY <1>11, <2>1, <2>3 DEF RunOK
    <3>2. CASE x # e
      <4>1. \A was : SnapOK(x, was) => SnapOK(x, was)'
        BY <1>3, <1>4, <1>5, <3>2 DEF SnapOK, Current, Pushing
      <4>2. \A upto, z : ShownAt(x, z, upto) => ShownAt(x, z, upto)'
        BY <1>3 DEF ShownAt, Current
      <4> QED
        BY <1>3, <1>4, <1>12, <2>1, <2>3, <3>1, <3>2, <4>1, <4>2 DEF SyncOK, ItemOK, Result
    <3>3. CASE x = e
      <4>1. \A upto : ShownAt(e, linked[e], upto) => ShownAt(e, linked[e], upto)'
        BY <1>1, <1>14, <2>3
      <4>2. e \in DOMAIN r.snap => SnapOK(e, r.snap[e])'
        <5> SUFFICES ASSUME e \in DOMAIN r.snap PROVE SnapOK(e, r.snap[e])'
          OBVIOUS
        <5> DEFINE was == r.snap[e]
        <5>1. was \in C!Row /\ was.when \in Int /\ was.etag \in Nat /\ SnapOK(e, was)
          BY <2>1, <3>1, <3>3, RunTypes, RowTypes DEF SyncOK
        <5>2. CASE new = Nil
          BY <1>4, <1>5, <1>8, <5>2 DEF SnapOK, Current
        <5>3. CASE new # Nil
          <6>1. new = [when |-> IF ~C!Redated(row) THEN row.when
                         ELSE IF edit.pushed = Nil THEN C!Unpushed ELSE edit.pushed,
                       est |-> row.est \/ edit.kind = "move",
                       etag |-> IF edit.pushed = Nil THEN row.etag ELSE edit.pushed]
            BY <1>8, <5>3 DEF C!Edited
          <6>2. /\ kept[e] # Nil /\ g[e].at = kept[e] => was.etag = kept[e]
                /\ was.etag = g[e].at =>
                     row.etag = g[e].at /\ (row.when = was.when \/ Current(e, row))
                /\ was.etag <= row.etag
                /\ row.when = C!Unpushed \/ was.when <= row.when
                /\ edit.pushed # Nil =>
                     \/ row = was
                     \/ row.when <= edit.pushed /\ was.when <= edit.pushed
            BY <1>1, <5>1 DEF SnapOK, Current, Pushing
          <6>3. kept'[e] # Nil /\ g[e].at = kept'[e] => was.etag = kept'[e]
            <7>1. ~C!Outdated(e) => was.etag = row.etag
              BY DEF C!Outdated
            <7> QED
              BY <1>5, <6>2, <7>1
          <6>4. /\ was.etag = g[e].at =>
                     new.etag = g[e].at /\ (new.when = was.when \/ Current(e, new))
                /\ was.etag <= new.etag
            <7>1. edit.pushed # Nil /\ g[e].at = edit.pushed /\ C!Redated(row) =>
                     g[e].when = edit.pushed
              BY <1>1, <1>8, <1>11, <2>3, <5>3 DEF EditOK, C!Redated
            <7>2. edit.pushed # Nil => edit.pushed \in Nat /\ edit.pushed <= g[e].at
              BY <1>1, Numbers DEF CalendarInv, WorldInv, EditBound
            <7>3. edit.pushed # Nil => ~(row.etag > edit.pushed)
              BY <2>3, Zenon DEF C!EditCommit
            <7> QED
              BY <1>1, <5>1, <6>1, <6>2, <7>1, <7>2, <7>3, WorldTypes DEF Current
          <6>5. new.when = C!Unpushed \/ was.when <= new.when
            <7>1. edit.pushed # Nil => edit.pushed \in Nat /\ ~(row.etag > edit.pushed)
              <8>1. edit.pushed # Nil => ~(row.etag > edit.pushed)
                BY <2>3, Zenon DEF C!EditCommit
              <8> QED
                BY <1>1, <8>1, Numbers
            <7>2. edit.pushed # Nil => row.when <= edit.pushed
              BY <1>1, <1>11, <2>3, <7>1, WorldTypes DEF RowsOK, RowOK, Pushing
            <7> QED
              BY <1>1, <5>1, <6>1, <6>2, <7>1, <7>2
          <6> QED
            BY <1>3, <1>4, <5>3, <6>3, <6>4, <6>5 DEF SnapOK, Current, Pushing
        <5> QED
          BY <5>2, <5>3
      <4>3. r.step \in {"fetch", "apply"} /\ e \notin DOMAIN r.snap => linked'[e] = Nil
        BY <1>1, <3>1, <3>3 DEF SyncOK
      <4> QED
        BY <1>3, <2>1, <3>1, <3>3, <4>1, <4>2, <4>3 DEF SyncOK, ItemOK, Result
    <3> QED
      BY <3>2, <3>3
  <2> QED
    BY <2>1, <2>2, <2>3 DEF RunOK
<1> QED
  BY <1>16, <1>17 DEF CalendarInv

-----------------------------------------------------------------------------
(* The steps of sync_calendar *)

LEMMA LinkOK ==
  ASSUME CalendarInv, NEW p \in Procs, C!Link(p)
  PROVE  CalendarInv'
<1> DEFINE D == {x \in Mirrored : linked[x] # Nil}
           snap == [e \in D |-> linked[e]]
           r == [sync[p] EXCEPT !.step = "fetch", !.snap = snap]
<1>1. /\ Typed /\ sync[p] \in SyncRun /\ RunOK(sync[p]) /\ sync[p].step = "link"
  BY DEF C!Link, CalendarInv, WorldInv, Typed
<1>2. /\ C!Set(p, r)
      /\ UNCHANGED <<g, version, floor, linked, token, channel, throttle, edit, kept, excused,
                     cFaults>>
  BY DEF C!Link, C!google
<1>3. snap \in Maps(C!Row) /\ DOMAIN snap = D /\ \A x \in D : snap[x] = linked[x]
  <2>1. \A x \in D : linked[x] \in C!Row
    BY <1>1 DEF Typed
  <2> QED
    BY <2>1, AMap
<1> HIDE DEF snap
<1>4. /\ r \in SyncRun /\ r.step = "fetch" /\ r.snap = snap /\ r.items = <<>> /\ r.writes = <<>>
      /\ r.token = sync[p].token /\ r.next = sync[p].next /\ r.late = sync[p].late
  BY <1>1, <1>3 DEF SyncRun, RunOK, Placed
<1> HIDE DEF r
<1>5. WorldInv' /\ sync'[p] = r /\ (RunOK(sync[p])' => CalendarInv')
  <2>1. channel' \in BOOLEAN /\ throttle' \in BOOLEAN /\ cFaults' \in 0..CalendarFaults
        /\ excused' \in BOOLEAN
    BY <1>1, <1>2 DEF Typed
  <2> QED
    BY <1>2, <1>4, <2>1, OneRun
<1>6. Placed(sync[p])' /\ TokenBound(sync[p])'
  BY <1>1, <1>2, <1>4, <1>5, EmptyMap DEF RunOK, Placed, TokenBound
<1>7. ASSUME NEW x \in Mirrored PROVE SnapBound(x, sync[p])'
  <2>1. EventBound(x)
    BY DEF CalendarInv, WorldInv
  <2> QED
    BY <1>2, <1>3, <1>4, <1>5, <2>1, EmptyMap DEF SnapBound, EventBound
<1>8. ASSUME ~excused', ~r.late, NEW x \in Mirrored PROVE SyncOK(x, sync[p])'
  <2>1. SyncOK(x, sync[p]) /\ RowOK(x, linked[x])
    BY <1>1, <1>2, <1>4, <1>8 DEF RunOK, CalendarInv, WorldInv, RowsOK
  <2>2. ShownAt(x, linked[x], sync[p].token)'
    BY <1>1, <1>2, <1>4, <1>5, <2>1 DEF SyncOK, ShownAt, Current
  <2>3. x \notin D => linked'[x] = Nil
    BY <1>2
  <2>4. x \in D => SnapOK(x, sync[p].snap[x])'
    BY <1>1, <1>2, <1>3, <1>4, <1>5, <2>1, WorldTypes DEF SnapOK, Current, RowOK, Stays
  <2> QED
    BY <1>3, <1>4, <1>5, <2>2, <2>3, <2>4, EmptyMap DEF SyncOK
<1> QED
  BY <1>2, <1>5, <1>6, <1>7, <1>8 DEF RunOK

LEMMA GoneOK ==
  ASSUME CalendarInv, NEW p \in Procs, C!Gone(p)
  PROVE  CalendarInv'
<1> DEFINE r == [sync[p] EXCEPT !.token = Nil]
<1>1. /\ Typed /\ sync[p] \in SyncRun /\ RunOK(sync[p]) /\ sync[p].step = "fetch"
  BY DEF C!Gone, CalendarInv, WorldInv, Typed
<1>2. /\ C!Set(p, r) /\ token' = Nil /\ excused' \in BOOLEAN /\ (excused => excused')
      /\ UNCHANGED <<g, version, floor, linked, channel, throttle, edit, kept, cFaults>>
  BY <1>1 DEF C!Gone, C!google, Typed
<1>3. /\ r \in SyncRun /\ r.step = "fetch" /\ r.token = Nil
      /\ r.snap = sync[p].snap /\ r.items = sync[p].items /\ r.writes = sync[p].writes
      /\ r.next = sync[p].next /\ r.late = sync[p].late
  BY <1>1 DEF SyncRun
<1> HIDE DEF r
<1>4. WorldInv' /\ sync'[p] = r /\ (RunOK(sync[p])' => CalendarInv')
  <2>1. channel' \in BOOLEAN /\ throttle' \in BOOLEAN /\ cFaults' \in 0..CalendarFaults
    BY <1>1, <1>2 DEF Typed
  <2> QED
    BY <1>2, <1>3, <2>1, OneRun
<1>5. Placed(sync[p])' /\ TokenBound(sync[p])' /\ \A x \in Mirrored : SnapBound(x, sync[p])'
  BY <1>1, <1>2, <1>3, <1>4 DEF RunOK, Placed, TokenBound, SnapBound
<1>6. ASSUME ~excused', ~r.late, NEW x \in Mirrored PROVE SyncOK(x, sync[p])'
  <2>1. SyncOK(x, sync[p])
    BY <1>1, <1>2, <1>3, <1>6 DEF RunOK
  <2>2. ShownAt(x, linked[x], sync[p].token)'
    BY <1>3, <1>4 DEF ShownAt, Current
  <2>3. \A row : RowOK(x, row) => RowOK(x, row)'
    BY <1>2 DEF RowOK, Shown, Current, Stays, Pushing
  <2>4. \A was : SnapOK(x, was) => SnapOK(x, was)'
    BY <1>2 DEF SnapOK, Current, Pushing
  <2> QED
    BY <1>1, <1>2, <1>3, <1>4, <2>1, <2>2, <2>3, <2>4 DEF SyncOK, ItemOK
<1> QED
  BY <1>3, <1>4, <1>5, <1>6 DEF RunOK

LEMMA FetchOK ==
  ASSUME CalendarInv, NEW p \in Procs, C!Fetch(p)
  PROVE  CalendarInv'
<1> DEFINE was == sync[p]
           D == {x \in DOMAIN was.snap : C!Listed(p, x)}
           items == [e \in D |-> g[e]]
           r == [was EXCEPT !.step = "apply", !.token = Nil, !.next = version, !.items = items]
<1>1. /\ Typed /\ was \in SyncRun /\ RunOK(was) /\ was.step = "fetch"
  BY DEF C!Fetch, CalendarInv, WorldInv, Typed
<1>2. /\ C!Set(p, r)
      /\ excused' = (excused \/ (was.token = Nil
                               /\ \E e \in Mirrored : ~g[e].alive /\ linked[e] # Nil))
      /\ UNCHANGED <<g, version, floor, linked, token, channel, throttle, edit, kept, cFaults>>
  BY DEF C!Fetch, C!google
<1>3. /\ items \in Maps(C!Event) /\ DOMAIN items = D /\ (\A x \in D : items[x] = g[x])
      /\ DOMAIN was.snap \subseteq Mirrored
  <2>1. DOMAIN was.snap \subseteq Mirrored
    BY <1>1, RunTypes
  <2>2. \A x \in D : g[x] \in C!Event
    BY <1>1, <2>1 DEF Typed
  <2> QED
    BY <2>1, <2>2, AMap
<1>4. version \in C!Versions /\ version # Nil /\ version \in Nat
  BY <1>1, Numbers DEF Typed
<1> HIDE DEF items
<1>5. /\ r \in SyncRun /\ r.step = "apply" /\ r.token = Nil /\ r.next = version
      /\ r.snap = was.snap /\ r.items = items /\ r.writes = <<>> /\ r.late = was.late
  BY <1>1, <1>3, <1>4 DEF SyncRun, RunOK, Placed
<1> HIDE DEF r
<1>6. WorldInv' /\ sync'[p] = r /\ (RunOK(sync[p])' => CalendarInv')
  <2>1. channel' \in BOOLEAN /\ throttle' \in BOOLEAN /\ cFaults' \in 0..CalendarFaults
        /\ excused' \in BOOLEAN
    BY <1>1, <1>2 DEF Typed
  <2> QED
    BY <1>2, <1>5, <2>1, OneRun
<1>7. Placed(sync[p])' /\ TokenBound(sync[p])'
  BY <1>2, <1>3, <1>4, <1>5, <1>6, EmptyMap DEF Placed, TokenBound
<1>8. ASSUME NEW x \in Mirrored PROVE SnapBound(x, sync[p])'
  <2>1. EventBound(x) /\ SnapBound(x, was) /\ g[x].at \in Nat
    BY <1>1, WorldTypes DEF CalendarInv, WorldInv, RunOK
  <2> QED
    BY <1>2, <1>3, <1>5, <1>6, <2>1, EmptyMap DEF SnapBound, EventBound
<1>9. ASSUME ~excused', ~r.late, NEW x \in Mirrored PROVE SyncOK(x, sync[p])'
  <2>1. SyncOK(x, was)
    BY <1>1, <1>2, <1>5, <1>9 DEF RunOK
  <2>2. \A old : SnapOK(x, old) => SnapOK(x, old)'
    BY <1>2 DEF SnapOK, Current, Pushing
  <2>3. x \in D => ItemOK(x, sync[p].items[x], sync[p].next)'
    BY <1>1, <1>2, <1>3, <1>5, <1>6, WorldTypes DEF ItemOK
  <2>4. x \notin D => ShownAt(x, linked[x], sync[p].next)'
    <3> SUFFICES ASSUME x \notin D, linked[x] # Nil, g[x].at <= version
                    PROVE  g[x].alive /\ linked[x].etag = g[x].at /\ Current(x, linked[x])
      BY <1>2, <1>5, <1>6 DEF ShownAt, Current
    <3>1. x \in DOMAIN was.snap /\ ~C!Listed(p, x)
      BY <1>1, <2>1 DEF SyncOK
    <3>2. CASE was.token = Nil
      BY <1>2, <1>9, <3>1, <3>2 DEF C!Listed
    <3>3. CASE was.token # Nil
      <4>1. g[x].at <= was.token
        BY <1>1, <3>1, <3>3, RunTypes, WorldTypes DEF C!Listed
      <4> QED
        BY <1>1, <2>1, <3>3, <4>1 DEF SyncOK, ShownAt, Current
    <3> QED
      BY <3>2, <3>3
  <2> QED
    BY <1>1, <1>2, <1>3, <1>5, <1>6, <2>1, <2>2, <2>3, <2>4, EmptyMap DEF SyncOK, Result
<1> QED
  BY <1>5, <1>6, <1>7, <1>8, <1>9 DEF RunOK

\* What an item makes of a row is what Google has, or what is still to be pushed.
LEMMA AppliedRow ==
  ASSUME CalendarInv, NEW p \in Procs, sync[p].step = "apply",
         NEW e \in DOMAIN sync[p].items
  PROVE  LET w == C!Applied(p, e)
         IN  /\ w \in C!Row \cup {Nil}
             /\ w # Nil => w.etag <= g[e].at /\ w.when <= version
             /\ ~excused /\ ~sync[p].late => RowOK(e, w) /\ ShownAt(e, w, sync[p].next)
<1> DEFINE r == sync[p]
           item == r.items[e]
           was == r.snap[e]
           row == linked[e]
           w == C!Applied(p, e)
<1>1. /\ Typed /\ r \in SyncRun /\ RunOK(r) /\ WorldInv
  BY DEF CalendarInv, WorldInv, Typed
<1>2. /\ e \in Mirrored /\ item \in C!Event /\ e \in DOMAIN r.snap /\ was \in C!Row
  BY <1>1, RunTypes DEF RunOK, Placed
<1>3. /\ item.when \in Int /\ item.at \in Nat /\ was.when \in Int /\ was.etag \in Nat
      /\ item.when \in C!Dates /\ item.at \in C!Versions
      /\ g[e].at \in Nat /\ g[e].when \in Int /\ version \in Nat /\ g[e].at <= version
  BY <1>1, <1>2, RowTypes, WorldTypes DEF C!Event, WorldInv, EventBound
<1>4. /\ item.when <= item.at /\ item.at <= g[e].at /\ was.etag <= item.at
  BY <1>1, <1>2 DEF RunOK, SnapBound
<1>5. row # Nil => /\ row \in C!Row /\ row.when \in Int /\ row.etag \in Nat
                   /\ row.when \in C!Dates /\ row.etag \in C!Versions
                   /\ C!Unpushed <= row.when /\ row.est \in BOOLEAN
                   /\ row.etag <= g[e].at /\ row.when <= version
  <2>1. row # Nil => row \in C!Row
    BY <1>1, <1>2 DEF Typed
  <2> QED
    BY <1>1, <1>2, <2>1, RowTypes DEF C!Row, WorldInv, EventBound
<1>6. edit.pushed # Nil => edit.pushed \in Nat
  BY <1>1, WorldTypes
<1>7. ASSUME ~excused, ~r.late
      PROVE  /\ RowOK(e, row) /\ SnapOK(e, was) /\ ItemOK(e, item, r.next)
  BY <1>1, <1>2, <1>7 DEF RunOK, SyncOK, WorldInv, RowsOK
<1> HIDE DEF w
<1>8. CASE ~item.alive
  <2>1. w = Nil
    BY <1>8 DEF w, C!Applied
  <2> QED
    BY <2>1 DEF w, RowOK, ShownAt, Current
<1>9. CASE item.alive /\ row = Nil
  <2>1. w = [when |-> item.when, est |-> TRUE, etag |-> item.at]
    BY <1>9 DEF w, C!Applied
  <2>2. w \in C!Row /\ w.when = item.when /\ w.etag = item.at
    BY <1>3, <2>1 DEF C!Row
  <2>3. w.etag <= g[e].at /\ w.when <= version
    BY <1>3, <1>4, <2>2
  <2>4. ASSUME ~excused, ~r.late PROVE RowOK(e, w) /\ ShownAt(e, w, r.next)
    <3>1. RowOK(e, w)
      BY <1>3, <1>4, <1>6, <1>7, <1>9, <2>2, <2>4
         DEF RowOK, Shown, Current, Stays, SnapOK, ItemOK, Pushing
    <3>2. ShownAt(e, w, r.next)
      BY <1>7, <1>9, <2>2, <2>4 DEF ShownAt, Current, ItemOK
    <3> QED
      BY <3>1, <3>2
  <2> QED
    BY <2>2, <2>3, <2>4 DEF w
<1>10. CASE item.alive /\ row # Nil
  <2> DEFINE when == IF C!Stays(row, was, item) THEN row.when ELSE item.when
             est == row.est \/ ~C!Preserved(item, was)
             etag == IF item.at = was.etag THEN row.etag ELSE item.at
  <2>1. w = [when |-> when, est |-> est, etag |-> etag]
    BY <1>10 DEF w, C!Applied, C!Updated
  <2>2. /\ C!Stays(row, was, item) <=> IF item.at = was.etag THEN row.est \/ item.when = was.when
                                       ELSE was.est /\ item.when = was.when
        /\ est <=> row.est \/ item.at # was.etag
    BY DEF C!Preserved, C!Stays
  <2>3. when \in C!Dates /\ est \in BOOLEAN /\ etag \in C!Versions
    BY <1>3, <1>5, <1>10, <2>2
  <2>4. w \in C!Row /\ w.when = when /\ w.est = est /\ w.etag = etag
    BY <2>1, <2>3 DEF C!Row
  <2>5. w.etag <= g[e].at /\ w.when <= version
    BY <1>3, <1>4, <1>5, <1>10, <2>2, <2>4
  <2>6. ASSUME ~excused, ~r.late PROVE RowOK(e, w) /\ ShownAt(e, w, r.next)
    <3>1. /\ Shown(e, row) /\ Stays(e, row) /\ row.when <= g[e].when
          /\ Pushing(e) /\ row.etag <= edit.pushed => row.when <= edit.pushed
      BY <1>7, <1>10, <2>6 DEF RowOK
    <3>2. /\ kept[e] # Nil /\ g[e].at = kept[e] => was.etag = kept[e]
          /\ was.etag = g[e].at =>
               row.etag = g[e].at /\ (row.when = was.when \/ Current(e, row))
          /\ was.etag <= row.etag
          /\ row.when = C!Unpushed \/ was.when <= row.when
          /\ Pushing(e) => \/ row = was
                           \/ row.when <= edit.pushed /\ was.when <= edit.pushed
      BY <1>7, <1>10, <2>6 DEF SnapOK, Current
    <3>3. /\ item.at = g[e].at => item = g[e]
          /\ g[e].at <= r.next => item.at = g[e].at
          /\ item.when <= g[e].when
      BY <1>7, <2>6 DEF ItemOK
    <3>4. CASE item.at = was.etag /\ C!Stays(row, was, item)
      <4>1. w.when = row.when /\ (w.est <=> row.est) /\ w.etag = row.etag
        BY <2>2, <2>4, <3>4
      <4>2. RowOK(e, w)
        BY <3>1, <4>1 DEF RowOK, Shown, Current, Stays
      <4>3. Current(e, row) \/ row.etag # g[e].at \/ item.at # g[e].at
        BY <1>5, <1>10, <2>2, <3>1, <3>2, <3>3, <3>4 DEF Shown, Current
      <4>4. ShownAt(e, w, r.next)
        BY <1>10, <3>2, <3>3, <3>4, <4>1, <4>3 DEF ShownAt, Current
      <4> QED
        BY <4>2, <4>4
    <3>5. CASE item.at = was.etag /\ ~C!Stays(row, was, item)
      <4>1. w.when = item.when /\ ~w.est /\ w.etag = row.etag
        BY <1>5, <1>10, <2>2, <2>4, <3>5
      <4>2. Shown(e, w) /\ Stays(e, w) /\ w.when <= g[e].when
        BY <3>1, <3>3, <4>1 DEF Shown, Stays
      <4>3. ASSUME Pushing(e), w.etag <= edit.pushed PROVE w.when <= edit.pushed
        BY <1>3, <1>4, <1>5, <1>6, <1>10, <3>2, <3>5, <4>1, <4>3 DEF Pushing
      <4>4. ShownAt(e, w, r.next)
        BY <1>10, <3>2, <3>3, <3>5, <4>1 DEF ShownAt, Current
      <4> QED
        BY <4>2, <4>3, <4>4 DEF RowOK
    <3>6. CASE item.at # was.etag
      <4>1. w.etag = item.at /\ w.est
            /\ w.when = IF was.est /\ item.when = was.when THEN row.when ELSE item.when
        BY <2>2, <2>4, <3>6
      <4>2. w.etag = g[e].at => Current(e, w)
        BY <1>3, <1>5, <1>10, <3>1, <3>2, <3>3, <4>1 DEF Current
      <4>3. Stays(e, w)
        BY <1>3, <1>4, <3>2, <3>6 DEF Stays
      <4>4. w.when <= g[e].when
        BY <3>1, <3>3, <4>1
      <4>5. ASSUME Pushing(e), w.etag <= edit.pushed PROVE w.when <= edit.pushed
        BY <1>3, <1>4, <1>5, <1>6, <1>10, <3>2, <4>1, <4>5 DEF Pushing
      <4>6. ShownAt(e, w, r.next)
        BY <1>10, <3>3, <4>1, <4>2 DEF ShownAt
      <4> QED
        BY <4>2, <4>3, <4>4, <4>5, <4>6 DEF RowOK, Shown
    <3> QED
      BY <3>4, <3>5, <3>6
  <2> QED
    BY <2>4, <2>5, <2>6 DEF w
<1> QED
  BY <1>8, <1>9, <1>10

LEMMA ApplyOK ==
  ASSUME CalendarInv, NEW p \in Procs, NEW e \in Mirrored, C!Apply(p, e)
  PROVE  CalendarInv'
<1> DEFINE old == sync[p]
           D == DOMAIN old.items \ {e}
           Wrote == DOMAIN old.writes \cup {e}
           w == C!Applied(p, e)
           items == [x \in D |-> old.items[x]]
           writes == [x \in Wrote |-> IF x = e THEN w ELSE old.writes[x]]
           r == [old EXCEPT !.items = items, !.writes = writes]
<1>1. /\ Typed /\ old \in SyncRun /\ RunOK(old) /\ old.step = "apply"
      /\ e \in DOMAIN old.items /\ e \in DOMAIN old.snap
  BY DEF C!Apply, C!Left, CalendarInv, WorldInv, Typed, RunOK, Placed
<1>2. /\ C!Set(p, IF C!Raises(p, e) THEN C!Rest ELSE r)
      /\ UNCHANGED <<g, version, floor, linked, token, channel, throttle, edit, kept, excused,
                     cFaults>>
  BY DEF C!Apply, C!google, C!Left
<1>3. /\ w \in C!Row \cup {Nil}
      /\ w # Nil => w.etag <= g[e].at /\ w.when <= version
      /\ ~excused /\ ~old.late => RowOK(e, w) /\ ShownAt(e, w, old.next)
  BY <1>1, AppliedRow
<1> HIDE DEF w
<1>4. /\ items \in Maps(C!Event) /\ DOMAIN items = D /\ \A x \in D : items[x] = old.items[x]
      /\ writes \in Maps(C!Row \cup {Nil}) /\ DOMAIN writes = Wrote /\ writes[e] = w
      /\ \A x \in Wrote \ {e} : writes[x] = old.writes[x]
  <2>1. /\ D \subseteq Mirrored /\ Wrote \subseteq Mirrored
        /\ \A x \in D : old.items[x] \in C!Event
        /\ \A x \in DOMAIN old.writes : old.writes[x] \in C!Row \cup {Nil}
    BY <1>1, RunTypes
  <2>2. items \in [D -> C!Event]
    BY <2>1
  <2>3. writes \in [Wrote -> C!Row \cup {Nil}]
    BY <1>3, <2>1
  <2> QED
    BY <2>1, <2>2, <2>3, AMap
<1> HIDE DEF items, writes
<1>5. /\ r \in SyncRun /\ r.step = "apply" /\ r.items = items /\ r.writes = writes
      /\ r.snap = old.snap /\ r.next = old.next /\ r.token = old.token /\ r.late = old.late
  BY <1>1, <1>4 DEF SyncRun
<1> HIDE DEF r
<1>6. /\ channel' \in BOOLEAN /\ throttle' \in BOOLEAN /\ cFaults' \in 0..CalendarFaults
      /\ excused' \in BOOLEAN
  BY <1>1, <1>2 DEF Typed
<1>7. CASE C!Raises(p, e)
  <2>1. sync'[p] = C!Rest /\ (RunOK(sync[p])' => CalendarInv')
    BY <1>2, <1>6, <1>7, RestTyped, OneRun
  <2> QED
    BY <2>1, RestRun
<1>8. CASE ~C!Raises(p, e)
  <2>1. WorldInv' /\ sync'[p] = r /\ (RunOK(sync[p])' => CalendarInv')
    BY <1>2, <1>5, <1>6, <1>8, OneRun
  <2>2. Placed(sync[p])' /\ TokenBound(sync[p])'
    BY <1>1, <1>2, <1>4, <1>5, <2>1 DEF RunOK, Placed, TokenBound
  <2>3. ASSUME NEW x \in Mirrored PROVE SnapBound(x, sync[p])'
    <3>1. SnapBound(x, old)
      BY <1>1 DEF RunOK
    <3> QED
      BY <1>2, <1>3, <1>4, <1>5, <2>1, <3>1 DEF SnapBound
  <2>4. ASSUME ~excused', ~r.late, NEW x \in Mirrored PROVE SyncOK(x, sync[p])'
    <3>1. SyncOK(x, old)
      BY <1>1, <1>2, <1>5, <2>4 DEF RunOK
    <3>2. \A row : RowOK(x, row) => RowOK(x, row)'
      BY <1>2 DEF RowOK, Shown, Current, Stays, Pushing
    <3>3. \A was : SnapOK(x, was) => SnapOK(x, was)'
      BY <1>2 DEF SnapOK, Current, Pushing
    <3>4. \A row, upto : ShownAt(x, row, upto) => ShownAt(x, row, upto)'
      BY <1>2 DEF ShownAt, Current
    <3>5. x \in Wrote => RowOK(x, sync[p].writes[x])'
      BY <1>2, <1>3, <1>4, <1>5, <2>1, <2>4, <3>1, <3>2 DEF SyncOK
    <3>6. x \in D => ItemOK(x, sync[p].items[x], sync[p].next)'
      BY <1>2, <1>4, <1>5, <2>1, <3>1 DEF SyncOK, ItemOK
    <3>7. x \notin D => ShownAt(x, Result(x, sync[p]), sync[p].next)'
      <4>1. CASE x = e
        BY <1>2, <1>3, <1>4, <1>5, <2>1, <2>4, <3>4, <4>1 DEF Result
      <4>2. CASE x # e
        BY <1>1, <1>2, <1>4, <1>5, <2>1, <3>1, <3>4, <4>2 DEF SyncOK, Result
      <4> QED
        BY <4>1, <4>2
    <3> QED
      BY <1>1, <1>2, <1>4, <1>5, <2>1, <3>1, <3>3, <3>5, <3>6, <3>7 DEF SyncOK
  <2> QED
    BY <1>5, <2>1, <2>2, <2>3, <2>4 DEF RunOK
<1> QED
  BY <1>7, <1>8

LEMMA CommitOK ==
  ASSUME CalendarInv, NEW p \in Procs, C!Commit(p)
  PROVE  CalendarInv'
<1> DEFINE r == sync[p]
<1>1. /\ Typed /\ WorldInv /\ r \in SyncRun /\ RunOK(r) /\ r.step = "apply" /\ DOMAIN r.items = {}
  BY DEF C!Commit, C!Left, CalendarInv, WorldInv, Typed
<1>2. /\ linked' = [e \in Mirrored |-> IF e \in DOMAIN r.writes THEN r.writes[e] ELSE linked[e]]
      /\ token' = r.next
      /\ excused' = (excused \/ r.late)
      /\ sync' = [q \in Procs |->
                    IF q = p THEN [C!Rest EXCEPT !.step = "watch"]
                    ELSE IF sync[q].step \in {"rest", "watch"} THEN sync[q]
                    ELSE [sync[q] EXCEPT !.late = TRUE]]
      /\ UNCHANGED <<g, version, floor, channel, throttle, edit, kept, cFaults>>
  BY DEF C!Commit, C!google, C!NextToken
<1>3. /\ linked' \in [Mirrored -> C!Row \cup {Nil}]
      /\ \A e \in Mirrored : linked'[e] = Result(e, r)
  <2>1. \A e \in DOMAIN r.writes : r.writes[e] \in C!Row \cup {Nil}
    BY <1>1, RunTypes
  <2> QED
    BY <1>1, <1>2, <2>1 DEF Typed, Result
<1>4. token' \in C!Versions /\ token' # Nil /\ token' <= version
  <2>1. r.next \in C!Versions \cup {Nil}
    BY <1>1 DEF SyncRun
  <2> QED
    BY <1>1, <1>2, <2>1 DEF RunOK, Placed, TokenBound
<1>5. sync' \in [Procs -> SyncRun]
  <2>1. \A q \in Procs : sync[q] \in SyncRun /\ [sync[q] EXCEPT !.late = TRUE] \in SyncRun
    BY <1>1 DEF Typed, SyncRun
  <2> QED
    BY <1>2, <2>1, RestTyped
<1>6. Typed'
  BY <1>1, <1>2, <1>3, <1>4, <1>5 DEF Typed, SyncRun
<1>7. EditPlaced' /\ EditBound'
  BY <1>1, <1>2 DEF WorldInv, EditPlaced, EditBound
<1>8. ASSUME NEW e \in Mirrored PROVE EventBound(e)'
  BY <1>1, <1>2, <1>3 DEF WorldInv, EventBound, RunOK, SnapBound, Result
<1>9. ASSUME ~excused' PROVE RowsOK' /\ EditOK'
  <2>1. ~excused /\ ~r.late /\ RowsOK /\ EditOK
    <3>1. ~excused /\ ~r.late
      BY <1>2, <1>9, Zenon
    <3> QED
      BY <1>1, <3>1 DEF WorldInv
  <2>2. ASSUME NEW e \in Mirrored PROVE RowOK(e, linked[e])' /\ ShownAt(e, linked[e], token)'
    <3>1. SyncOK(e, r)
      BY <1>1, <2>1 DEF RunOK
    <3>2. RowOK(e, Result(e, r)) /\ ShownAt(e, Result(e, r), r.next)
      BY <1>1, <2>1, <3>1 DEF SyncOK, RowsOK, Result
    <3>3. \A row : RowOK(e, row) => RowOK(e, row)'
      BY <1>2 DEF RowOK, Shown, Current, Stays, Pushing
    <3>4. \A row, upto : ShownAt(e, row, upto) => ShownAt(e, row, upto)'
      BY <1>2 DEF ShownAt, Current
    <3>5. RowOK(e, linked[e])'
      BY <1>3, <3>2, <1>2 DEF RowOK, Shown, Current, Stays, Pushing
    <3>6. ShownAt(e, linked[e], token)'
      BY <1>2, <1>3, <3>2 DEF ShownAt, Current
    <3> QED
      BY <3>5, <3>6
  <2>3. EditOK'
    BY <1>2, <2>1 DEF EditOK
  <2> QED
    BY <2>2, <2>3 DEF RowsOK
<1>10. WorldInv'
  BY <1>2, <1>4, <1>6, <1>7, <1>8, <1>9 DEF WorldInv
<1>11. ASSUME NEW q \in Procs PROVE RunOK(sync[q])'
  <2>1. CASE q = p
    BY <1>2, <2>1, RestRun
  <2>2. CASE q # p /\ sync[q].step \in {"rest", "watch"}
    <3>1. sync'[q] = sync[q] /\ RunOK(sync[q])
      BY <1>2, <2>2 DEF CalendarInv
    <3>2. sync[q].snap = <<>> /\ sync[q].items = <<>> /\ sync[q].writes = <<>>
      BY <2>2, <3>1 DEF RunOK, Placed
    <3> QED
      BY <1>2, <2>2, <3>1, <3>2, EmptyMap DEF RunOK, Placed, TokenBound, SnapBound, SyncOK
  <2>3. CASE q # p /\ sync[q].step \notin {"rest", "watch"}
    <3>1. sync'[q] = [sync[q] EXCEPT !.late = TRUE] /\ RunOK(sync[q]) /\ sync[q] \in SyncRun
      BY <1>1, <1>2, <2>3 DEF CalendarInv, Typed
    <3>2. /\ sync'[q].late /\ sync'[q].step = sync[q].step /\ sync'[q].token = sync[q].token
          /\ sync'[q].snap = sync[q].snap /\ sync'[q].items = sync[q].items
          /\ sync'[q].next = sync[q].next /\ sync'[q].writes = sync[q].writes
      BY <3>1 DEF SyncRun
    <3> QED
      BY <1>2, <3>1, <3>2 DEF RunOK, Placed, TokenBound, SnapBound
  <2> QED
    BY <2>1, <2>2, <2>3
<1> QED
  BY <1>10, <1>11 DEF CalendarInv

-----------------------------------------------------------------------------
(* Every run *)

LEMMA CalendarInit ==
  ASSUME C!Init
  PROVE  CalendarInv
<1>1. \A p \in Procs : sync[p] = C!Rest
  BY DEF C!Init
<1>2. [when |-> 0, at |-> 0, alive |-> TRUE] \in C!Event 
      /\ \A est \in BOOLEAN : [when |-> 0, est |-> est, etag |-> 0] \in C!Row
  BY Numbers DEF C!Event, C!Row
<1>3. Typed
  <2>1. /\ g \in [Mirrored -> C!Event] /\ linked \in [Mirrored -> C!Row \cup {Nil}]
    <3>1. PICK est \in [Mirrored -> BOOLEAN] :
             linked = [e \in Mirrored |-> [when |-> 0, est |-> est[e], etag |-> 0]]
      BY DEF C!Init
    <3>2. \A e \in Mirrored : est[e] \in BOOLEAN
      BY <3>1
    <3> QED
      BY <1>2, <3>1, <3>2 DEF C!Init
  <2>2. /\ version \in C!Versions /\ floor \in C!Versions /\ token \in C!Versions \cup {Nil}
        /\ channel \in BOOLEAN /\ throttle \in BOOLEAN /\ excused \in BOOLEAN
    BY Numbers DEF C!Init
  <2>3. sync \in [Procs -> SyncRun] /\ edit \in EditRun
    BY RestTyped DEF C!Init
  <2>4. kept \in [Mirrored -> C!Versions \cup {Nil}] /\ cFaults \in 0..CalendarFaults
    BY CalendarAssumption DEF C!Init
  <2> QED
    BY <2>1, <2>2, <2>3, <2>4 DEF Typed
<1>4. edit.pushed = Nil /\ edit.was = Nil /\ edit.step = "rest" /\ edit = C!Still
  BY DEF C!Init, C!Still
<1>5. EditPlaced /\ EditBound /\ EditOK
  BY <1>4 DEF EditPlaced, EditBound, EditOK
<1>6. \A e \in Mirrored : /\ g[e].when = 0 /\ g[e].at = 0 /\ g[e].alive /\ kept[e] = Nil
                          /\ linked[e].when = 0 /\ linked[e].etag = 0
  BY DEF C!Init
<1>7. version = 0 /\ (token # Nil => token = 0)
  BY DEF C!Init
<1>8. \A e \in Mirrored : EventBound(e)
  BY <1>6, <1>7 DEF EventBound
<1>9. RowsOK
  BY <1>4, <1>6 DEF RowsOK, RowOK, Shown, Current, Stays, Pushing, ShownAt
<1>10. WorldInv
  BY <1>3, <1>5, <1>7, <1>8, <1>9 DEF WorldInv
<1>11. \A p \in Procs : RunOK(sync[p])
  BY <1>1, RestOK DEF RunOK
<1> QED
  BY <1>10, <1>11 DEF CalendarInv

LEMMA CalendarStep ==
  ASSUME CalendarInv, [C!Next]_C!vars
  PROVE  CalendarInv'
<1>1. CASE UNCHANGED C!vars
  <2>1. /\ UNCHANGED <<g, version, linked, kept, token, edit, excused, floor, channel, throttle,
                       cFaults, sync>>
    BY <1>1 DEF C!vars, C!google
  <2>2. Typed' /\ EditPlaced' /\ (edit'.was # Nil => edit'.was <= version)
    BY <2>1 DEF CalendarInv, WorldInv, Typed, EditPlaced, EditBound
  <2> QED
    BY <2>1, <2>2, CalmOK
<1>2. CASE C!EditCommit
  <2>1. edit.event \in Mirrored
    BY <1>2 DEF C!EditCommit, CalendarInv, WorldInv, EditPlaced
  <2>2. PICK e \in Mirrored : e = edit.event
    BY <2>1
  <2> QED
    BY <1>2, <2>2, EditCommitOK
<1>3. ASSUME NEW p \in Procs,
             \/ C!PageLoad(p) \/ C!Webhook(p) \/ C!Link(p) \/ C!Gone(p) \/ C!Fetch(p)
             \/ C!Commit(p) \/ C!Watch(p) \/ C!SyncFails(p)
             \/ \E e \in Mirrored : C!Route(p, e) \/ C!Apply(p, e)
      PROVE  CalendarInv'
  BY <1>3, BeginOK, LinkOK, GoneOK, FetchOK, CommitOK, EndOK, RouteOK, ApplyOK
<1>4. ASSUME NEW e \in Mirrored,
             \/ C!External(e)
             \/ \E kind \in C!Kinds : C!EditRead(e, kind)
      PROVE  CalendarInv'
  BY <1>4, ExternalOK, EditReadOK
<1>5. CASE C!EditPush \/ C!PushFails \/ C!EditFails
  BY <1>5, EditPushOK, PushFailsOK, EditFailsOK
<1>6. CASE C!Forget \/ C!ChannelExpires \/ C!ThrottleExpires
  BY <1>6, OutsideOK
<1> QED
  BY <1>1, <1>2, <1>3, <1>4, <1>5, <1>6 DEF C!Next

\* The inductive invariant of the calendar's synchronisation: what a sync that
\* nobody overtook has loaded, read and written stays in step with Google and
\* with the edits under way (sync_calendar, tasks_sync_service).
THEOREM CalendarInvariance == ServicesSpec => [](scene = "calendar" => CalendarInv)
<1> DEFINE Inv == scene = "calendar" => CalendarInv
<1>1. ServicesInit => Inv
  BY CalendarInit DEF ServicesInit
<1>2. Inv /\ [ServicesNext]_all => Inv'
  <2> SUFFICES ASSUME Inv, [ServicesNext]_all, scene' = "calendar" PROVE CalendarInv'
    OBVIOUS
  <2>1. scene = "calendar"
    BY DEF ServicesNext, all
  <2>2. C!Next \/ UNCHANGED C!vars
    BY <2>1 DEF ServicesNext, all, cVars, C!vars, C!google
  <2> QED
    BY <2>1, <2>2, CalendarStep
<1> QED
  BY <1>1, <1>2, PTL DEF ServicesSpec

\* What the stored token claims to have seen, the tasks show, when edits race with the
\* sync, pushes or syncs fail and tokens are forgotten (but for what excused names:
\* two syncs that overlap, an older date pushed or committed over a later one, ...).
THEOREM TokensAreHonest == ServicesSpec => []TokenIsHonest
<1>1. (scene = "calendar" => CalendarInv) => TokenIsHonest
  BY DEF CalendarInv, WorldInv, RowsOK, RowOK, Shown, Current, ShownAt, TokenIsHonest, C!TokenIsHonest
<1> QED
  BY <1>1, CalendarInvariance, PTL

\* An estimated date whose push failed stays until the event changes in Google
\* (preserve_dates: the etags are compared), but for what excused names and for a
\* sync that loaded the task before its last version.  A deadline does not: it is
\* written all the same.
THEOREM UnpushedDatesStay == ServicesSpec => []UnpushedStays
<1>1. (scene = "calendar" => CalendarInv) => UnpushedStays
  BY DEF CalendarInv, WorldInv, RowsOK, RowOK, Stays, UnpushedStays, C!UnpushedStays
<1> QED
  BY <1>1, CalendarInvariance, PTL

=============================================================================
