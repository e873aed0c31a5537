------------------------------ MODULE Planner ------------------------------
(***************************************************************************)
(* SchedulerService.run_scheduling_pipeline: after every edit of a task,   *)
(* inside the edit's transaction, the user's undated tasks get focus       *)
(* blocks in their work hours (SchedulingAlgorithm), the blocks stored     *)
(* before are replaced, and each planned task gets the dates of its        *)
(* blocks.  Requests overlap: each plans on what it read.  How the rows of *)
(* the tasks reach Redis and Google is module Tasks's.                     *)
(***************************************************************************)
EXTENDS Integers, FiniteSets

CONSTANTS Procs,      \* requests that can run at the same time
          Ids,        \* bound: tasks that ever exist
          Estimates,  \* minutes a task can be estimated at
          Dues,       \* deadlines a task can have
          Drags,      \* where the user can drag a task or put a meeting
          Nows,       \* bound: instants at which plans are made
          MaxEdits,   \* bound: edits in all
          Horizon,    \* no instant is later
          Day,        \* length of a day
          WorkDays,   \* workingDays, by number
          HoursStart, HoursEnd,  \* workingHours
          Window,     \* 14 days
          Stride,     \* 15 minutes
          SlotLen,    \* minFocusBlockDuration: 30 minutes
          MaxBlock,   \* maxFocusBlockDuration: 120 minutes
          MinBlock,   \* 5 minutes
          Nil, Never

Times == 0..Horizon
Interval == [from : Times, to : Times]

DayOf(t) == t \div Day
DayStart(t) == t - (t % Day)

\* is_within_working_hours
WithinHours(t) == DayOf(t) \in WorkDays /\ HoursStart <= t % Day /\ t % Day < HoursEnd
WorkTime == {t \in Times : WithinHours(t)}

ASSUME NamesAssumption == Nil \notin Ids /\ Never \notin Times
ASSUME LengthsAssumption ==
    /\ Horizon \in Nat /\ Window \in Nat /\ MaxEdits \in Nat
    /\ Day \in Nat \ {0} /\ Stride \in Nat \ {0} /\ SlotLen \in Nat \ {0}
    /\ MaxBlock \in Nat \ {0} /\ MinBlock \in Nat \ {0}
    /\ SlotLen % Stride = 0
ASSUME InputsAssumption ==
    /\ Estimates \subseteq Nat \ {0} /\ Nows \subseteq Times
    /\ Dues \subseteq Times /\ Drags \subseteq Interval
\* Nobody's work pauses for less than a slot.
ASSUME PausesAssumption ==
    \A s, e \in WorkTime : s <= e /\ e < s + SlotLen => s..e \subseteq WorkTime

VARIABLES rows,     \* Postgres: the tasks
          blocks,   \* Postgres: TimeBlock.  Only plans store any: what POST /time-blocks
                    \* flushes is never committed (get_db closes its session)
          enabled,  \* Postgres: workHoursConfig.enabled of the user's settings
          now,
          pipe,     \* the request each process is serving
          raced,    \* history: two requests were under way at once
          unplanned, \* history: tasks edited since the last plan, with the work hours off
          left      \* edits still to come

vars == <<rows, blocks, enabled, now, pipe, raced, unplanned, left>>

When == Times \cup {Never}
Row == [est : Estimates, due : When, from : When, to : When, meeting : BOOLEAN,
        status : {"Todo", "Scheduled", "Review", "Done"}]
ASSUME RowAssumption == Nil \notin Row
Block == [task : Ids, from : Times, to : Times]
Idle == [step |-> "idle",
         hours |-> TRUE,     \* the work hours are on, as it read them
         writes |-> <<>>,    \* the edit, flushed and not committed
         read |-> <<>>,      \* the tasks as they were read
         fixed |-> {},       \* meetings, dated tasks and stored blocks
         todo |-> {},        \* tasks to plan, sorted by deadline
         task |-> Nil,       \* the one being planned
         cursor |-> 0, end |-> 0, remaining |-> 0,
         mine |-> {},        \* its blocks
         placed |-> {},      \* the blocks of the tasks before it
         gone |-> {}]        \* the stored blocks deleted, not committed

Init ==
    /\ rows = [t \in Ids |-> Nil]
    /\ blocks = {} /\ enabled \in BOOLEAN
    /\ now \in Nows
    /\ pipe = [p \in Procs |-> Idle]
    /\ raced = FALSE /\ unplanned = {} /\ left = MaxEdits

-----------------------------------------------------------------------------
(* Building blocks *)

At(p, step) == pipe[p].step = step
Set(p, r) == pipe' = [pipe EXCEPT ![p] = r]
Span(b) == [from |-> b.from, to |-> b.to]
Spans(B) == {Span(b) : b \in B}
Collides(a, b) == a.from < b.to /\ b.from < a.to

\* READ COMMITTED, and the transaction's own writes.
Seen(r, t) == IF t \in DOMAIN r.writes THEN r.writes[t] ELSE rows[t]

Dated(row) == row.from # Never /\ row.to # Never
\* build_hard_constraints leaves out a meeting without a start or a deadline.
Meets(row) == row.meeting /\ row.from # Never /\ row.due # Never

\* Slip: a task the user dated is planned like the others.
EvenDated(row) == ~row.meeting /\ row.status \notin {"Review", "Done"}

\* migrate_task's last rule and filter_tasks_needing_scheduling
Plannable(row) == ~row.meeting /\ ~Dated(row) /\ row.status \notin {"Review", "Done"}

\* What a plan may not touch: meetings, dated tasks, every stored block.
FixedBy(tasks, stored) ==
    {[from |-> tasks[t].from, to |-> tasks[t].due] :
        t \in {u \in DOMAIN tasks : Meets(tasks[u])}}
    \cup {[from |-> tasks[t].from, to |-> tasks[t].to] :
        t \in {u \in DOMAIN tasks : ~tasks[u].meeting /\ Dated(tasks[u])}}
    \cup Spans(stored)

\* sort_tasks_by_priority: every task's priority is 2 here (run_scheduling_-
\* pipeline passes priorityValue, migrate_task reads priorityLevel), and the
\* urgency is a function of the deadline.
Key(row) == IF row.due = Never THEN Horizon + 1 ELSE row.due
Sooner(a, b) == Key(a) <= Key(b)

\* calculate_scheduling_window (now is already rounded up to five minutes).
WindowStart(row) ==
    IF row.due = Never \/ DayStart(row.due) <= now THEN now ELSE DayStart(row.due)

Least(a, b) == IF a <= b THEN a ELSE b

\* Slip: what this run placed before is forgotten (existing_work_blocks.extend).
FixedOnly(r) == r.fixed

Busy(r) == r.fixed \cup Spans(r.placed)

\* Slip: the end of a slot is not looked at.
StartsInTime(r) ==
    {c \in r.cursor..(r.end - SlotLen) :
        /\ (c - r.cursor) % Stride = 0 /\ c \in WorkTime
        /\ \A x \in Busy(r) : ~Collides([from |-> c, to |-> c + SlotLen], x)}

\* find_available_slots: the starts still to come, fifteen minutes apart.
Slots(r) ==
    {c \in r.cursor..(r.end - SlotLen) :
        /\ (c - r.cursor) % Stride = 0
        /\ c \in WorkTime /\ c + SlotLen - 1 \in WorkTime
        /\ \A x \in Busy(r) : ~Collides([from |-> c, to |-> c + SlotLen], x)}

\* Slip: the last piece takes the whole slot.
WholeSlot(r) == Least(SlotLen, MaxBlock)

Piece(r) == Least(Least(SlotLen, MaxBlock), r.remaining)
Done(r) == r.remaining < MinBlock \/ Slots(r) = {}

First(r) == CHOOSE c \in Slots(r) : \A d \in Slots(r) : c <= d

\* replace_focus_blocks deletes what is stored, not what was read.
Replaced(r) == blocks

\* The tasks that got a block, and the dates they get.
Planned(r) == {b.task : b \in r.placed}

\* Slip: the task ends with its first block.
FirstPiece(r, t) ==
    LET B == {b \in r.placed : b.task = t}
        first == CHOOSE b \in B : \A x \in B : b.from <= x.from
    IN [r.read[t] EXCEPT !.from = first.from, !.to = first.to, !.status = "Scheduled"]

Scheduled(r, t) ==
    LET B == {b \in r.placed : b.task = t}
        first == CHOOSE b \in B : \A x \in B : b.from <= x.from
        last == CHOOSE b \in B : \A x \in B : b.from >= x.from
    IN [r.read[t] EXCEPT !.from = first.from, !.to = last.to, !.status = "Scheduled"]

\* The rows after a flush: what was read with the columns that changed.
Patch(row, was, new) ==
    [c \in DOMAIN row |-> IF new[c] # was[c] THEN new[c] ELSE row[c]]

\* Rows and blocks somebody else has written and not committed.
Holds(q, t) == t \in DOMAIN pipe[q].writes
Free(p, t) == \A q \in Procs \ {p} : ~Holds(q, t)

-----------------------------------------------------------------------------
(* The edit a request makes before it plans *)

Created == [est : Estimates, due : Dues \cup {Never}, from : {Never}, to : {Never},
            meeting : {FALSE}, status : {"Todo"}]
Meeting == {[est |-> e, due |-> d.to, from |-> d.from, to |-> Never, meeting |-> TRUE,
             status |-> "Todo"] : e \in Estimates, d \in Drags}
Edits(row) ==
    IF row = Nil THEN Created \cup Meeting
    ELSE {[row EXCEPT !.from = d.from, !.to = d.to] : d \in Drags}   \* dragged
         \cup {[row EXCEPT !.from = Never], [row EXCEPT !.status = "Done"],
               [row EXCEPT !.status = "Review"]}

Edit(p, t) ==
    /\ At(p, "idle") /\ left > 0 /\ Free(p, t)
    /\ \E row \in Edits(rows[t]) :
        /\ row # rows[t]
        /\ Set(p, [Idle EXCEPT !.step = "tasks", !.writes = [x \in {t} |-> row]])
    /\ left' = left - 1
    /\ raced' = (raced \/ \E q \in Procs : ~At(q, "idle"))
    /\ UNCHANGED <<rows, blocks, enabled, now, unplanned>>

-----------------------------------------------------------------------------
(* run_scheduling_pipeline *)

\* Work hours switched off: nothing is planned.
Disabled(p) ==
    /\ At(p, "tasks") /\ ~enabled
    /\ Set(p, [pipe[p] EXCEPT !.step = "commit", !.hours = FALSE])
    /\ UNCHANGED <<rows, blocks, enabled, now, raced, unplanned, left>>

\* get_all_active_by_user
ReadTasks(p) ==
    /\ At(p, "tasks") /\ enabled
    /\ LET r == pipe[p] IN
       Set(p, [r EXCEPT !.step = "blocks",
                        !.read = [t \in {u \in Ids : Seen(r, u) # Nil} |-> Seen(r, t)]])
    /\ UNCHANGED <<rows, blocks, enabled, now, raced, unplanned, left>>

\* time_blocks_repo.get_all_by_user, migrate_task, migrate_time_block
ReadBlocks(p) ==
    /\ At(p, "blocks")
    /\ LET r == pipe[p] IN
       Set(p, [r EXCEPT !.step = "next",
                        !.todo = {t \in DOMAIN r.read : Plannable(r.read[t])},
                        !.fixed = FixedBy(r.read, blocks)])
    /\ UNCHANGED <<rows, blocks, enabled, now, raced, unplanned, left>>

\* The next task in order; a tie keeps the order Postgres returned.
Next_(p, t) ==
    /\ At(p, "next") /\ t \in pipe[p].todo
    /\ \A u \in pipe[p].todo : Sooner(pipe[p].read[t], pipe[p].read[u])
    /\ LET row == pipe[p].read[t] IN
       Set(p, [pipe[p] EXCEPT !.step = "scan", !.task = t, !.todo = @ \ {t},
                              !.remaining = row.est, !.cursor = WindowStart(row),
                              !.end = Least(Horizon, WindowStart(row) + Window)])
    /\ UNCHANGED <<rows, blocks, enabled, now, raced, unplanned, left>>

\* _schedule_single_task: the next free slot takes a piece of the task.
Place(p) ==
    /\ At(p, "scan") /\ ~Done(pipe[p])
    /\ LET r == pipe[p]  c == First(r) IN
       Set(p, [r EXCEPT !.mine = @ \cup {[task |-> r.task, from |-> c, to |-> c + Piece(r)]},
                        !.remaining = @ - Piece(r), !.cursor = c + SlotLen])
    /\ UNCHANGED <<rows, blocks, enabled, now, raced, unplanned, left>>

\* Scheduled, partially scheduled or not at all.
Settle(p) ==
    /\ At(p, "scan") /\ Done(pipe[p])
    /\ Set(p, [pipe[p] EXCEPT !.step = "next", !.placed = @ \cup pipe[p].mine, !.mine = {},
                              !.task = Nil])
    /\ UNCHANGED <<rows, blocks, enabled, now, raced, unplanned, left>>

\* replace_focus_blocks and the saves of the planned tasks, in a savepoint.
\* What another request holds uncommitted is waited for.
Replace(p) ==
    /\ At(p, "next") /\ pipe[p].todo = {}
    /\ LET r == pipe[p] IN
       /\ \A t \in Planned(r) : Free(p, t)
       /\ \A q \in Procs \ {p} : pipe[q].gone \cap Replaced(r) = {}
       /\ Set(p, [r EXCEPT !.step = "commit", !.gone = Replaced(r),
                  !.writes = [t \in DOMAIN r.writes \cup Planned(r) |->
                      IF t \in Planned(r)
                      THEN Patch(Seen(r, t), r.read[t], Scheduled(r, t))
                      ELSE r.writes[t]]])
    /\ UNCHANGED <<rows, blocks, enabled, now, raced, unplanned, left>>

Commit(p) ==
    /\ At(p, "commit")
    /\ LET r == pipe[p] IN
       /\ rows' = [t \in Ids |-> Seen(r, t)]
       /\ blocks' = (blocks \ r.gone) \cup r.placed
       /\ unplanned' = IF r.hours THEN {} ELSE unplanned \cup DOMAIN r.writes
    /\ Set(p, Idle)
    /\ UNCHANGED <<enabled, now, raced, left>>

\* A statement or the commit fails, or Postgres breaks a deadlock.
Abort(p) ==
    /\ ~At(p, "idle")
    /\ Set(p, Idle)
    /\ UNCHANGED <<rows, blocks, enabled, now, raced, unplanned, left>>

\* PATCH /users/{id}: the user switches the work hours on or off.  Nothing is planned.
SwitchHours ==
    /\ left > 0 /\ left' = left - 1
    /\ enabled' = ~enabled
    /\ UNCHANGED <<rows, blocks, now, pipe, raced, unplanned>>

Tick ==
    /\ \E t \in Nows : t > now /\ now' = t
    /\ UNCHANGED <<rows, blocks, enabled, pipe, raced, unplanned, left>>

\* Every edit was made and answered.
Finished ==
    /\ left = 0 /\ \A p \in Procs : At(p, "idle")
    /\ UNCHANGED vars

Next ==
    \/ \E p \in Procs :
        \/ \E t \in Ids : Edit(p, t) \/ Next_(p, t)
        \/ Disabled(p) \/ ReadTasks(p) \/ ReadBlocks(p) \/ Place(p) \/ Settle(p)
        \/ Replace(p) \/ Commit(p) \/ Abort(p)
    \/ SwitchHours \/ Tick \/ Finished

Spec == Init /\ [][Next]_vars

-----------------------------------------------------------------------------
(* Properties *)

TypeOK ==
    /\ rows \in [Ids -> Row \cup {Nil}]
    /\ blocks \subseteq Block
    /\ enabled \in BOOLEAN /\ now \in Nows /\ raced \in BOOLEAN /\ unplanned \subseteq Ids
    /\ left \in 0..MaxEdits
    /\ \A p \in Procs :
        LET r == pipe[p] IN
        /\ r.step \in {"idle", "tasks", "blocks", "next", "scan", "commit"} /\ r.hours \in BOOLEAN
        /\ DOMAIN r.writes \subseteq Ids /\ \A t \in DOMAIN r.writes : r.writes[t] \in Row
        /\ DOMAIN r.read \subseteq Ids /\ \A t \in DOMAIN r.read : r.read[t] \in Row
        /\ r.fixed \subseteq Interval /\ r.todo \subseteq Ids /\ r.task \in Ids \cup {Nil}
        /\ r.cursor \in Nat /\ r.end \in Times /\ r.remaining \in Nat
        /\ r.mine \subseteq Block /\ r.placed \subseteq Block /\ r.gone \subseteq Block

\* No two blocks that plans put in the table overlap, as long as no two
\* requests did: what one plan stored, the next one replaces
\* (replace_focus_blocks).
NoDoubleBooking ==
    raced \/ \A a, b \in blocks : a # b => ~Collides(a, b)

\* As long as no two requests overlap, a planned task's dates span its blocks,
\* whatever is edited, fails or is switched off since: the edit that changes its dates
\* plans again.  (Not so of a task edited while the work hours are off, until a plan
\* is made again: its old blocks stay.)
DatesCoverBlocks ==
    ~raced => \A b \in blocks :
        \/ b.task \in unplanned
        \/ rows[b.task].from <= b.from /\ b.to <= rows[b.task].to

\* A task with both dates is moved by nobody but the request that writes it, and
\* what its plan read with both dates stays where it was read (migrate_task's
\* rule 3), however requests overlap.
HandPlacedStays ==
    [][\A t \in Ids :
         rows[t] # Nil /\ Dated(rows[t]) /\ Span(rows'[t]) # Span(rows[t])
         => \E p \in Procs :
              /\ t \in DOMAIN pipe[p].writes
              /\ pipe[p].hours /\ Dated(pipe[p].read[t]) => Span(rows'[t]) = Span(pipe[p].read[t])]_vars

\* What every run promises (module Placement).
P == INSTANCE Placement WITH
        Planners <- Procs, Blocks <- Interval,
        taken <- [p \in Procs |-> pipe[p].fixed],
        plan <- [p \in Procs |-> Spans(pipe[p].placed \cup pipe[p].mine)]
PlansArePlacements == P!Spec
=============================================================================
