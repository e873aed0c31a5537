-------------------------------- MODULE Tasks --------------------------------
(***************************************************************************)
(* A user's tasks: their rows in Postgres, the copies of them in Redis     *)
(* (task:id:<id> and the list tasks:active:user:<user>), their events in   *)
(* Google Calendar, and the GraphQL mutations that create, edit and remove *)
(* them.  A mutation runs in one transaction (TransactionalMutation-       *)
(* Extension; the scopes inside it are savepoints), talks to Google before *)
(* it writes, writes Redis before it commits, and plans the user's other   *)
(* undated tasks on the way (run_scheduling_pipeline, whose placement is   *)
(* module Planner's).                                                      *)
(***************************************************************************)
EXTENDS Integers, FiniteSets

CONSTANTS Procs,      \* mutations that can run at the same time
          Ids,        \* bound: tasks that ever exist
          Titles,     \* what an edit may write
          MaxMutations, \* bound: mutations in all (and none after two overlapped)
          MaxFaults,  \* bound: failures of Google, of a statement or of a commit
          Nil

ASSUME NilAssumption == Nil \notin Titles /\ Nil \notin Ids
ASSUME BoundsAssumption == MaxFaults \in Nat /\ MaxMutations \in Nat

VARIABLES rows,    \* Postgres: the committed row of each task
          linked,  \* Postgres: tasks a workspace points to (Workspace.taskId)
          events,  \* Google: the title of each task's event
          copies,  \* Redis: task:id:<id>
          list,    \* Redis: tasks:active:user:<user>
          redis,   \* FALSE: there is no Redis at all
          req,     \* the mutation each process is serving
          faults,  \* history: what failed so far, in order
          raced,   \* history: two mutations were under way at once
          known,   \* history: tasks that were committed, which browsers know
          left     \* mutations still to come

vars == <<rows, linked, events, copies, list, redis, req, faults, raced, known, left>>
cached == <<copies, list, redis>>
history == <<faults, raced, known, left>>

\* The columns by who writes them: an edit, the completion and the planner
\* (status), the planner (estimated dates), the mirror in Google
\* (google_event_id, sync_status), the soft delete.
Row == [title : Titles, status : {"Todo", "Scheduled", "Done"}, dated : BOOLEAN,
        event : BOOLEAN, syncError : BOOLEAN, deleted : BOOLEAN]
ASSUME RowAssumption == Nil \notin Row
MaybeRow == Row \cup {Nil}
Live(r) == r # Nil /\ ~r.deleted

Steps == {"idle", "event", "insert", "find", "read", "google", "merge", "flush",
          "plan", "next", "commit", "undo"}
Kinds == {"create", "edit", "done", "remove"}
Idle == [step |-> "idle", kind |-> "create", id |-> Nil, title |-> Nil,
         cur |-> Nil,      \* the task being saved
         copy |-> Nil,     \* the Task object at hand
         base |-> Nil,     \* what the session believes is stored
         sess |-> <<>>,    \* the session's identity map
         writes |-> <<>>,  \* flushed, not committed
         todo |-> {},      \* tasks the planner has yet to save
         planning |-> FALSE]

Partial(S) == UNION {[D -> S] : D \in SUBSET Ids}

TypeOK ==
    /\ rows \in [Ids -> MaybeRow]
    /\ linked \subseteq Ids
    /\ events \in [Ids -> Titles \cup {Nil}]
    /\ copies \in [Ids -> MaybeRow]
    /\ list = Nil \/ (DOMAIN list \subseteq Ids /\ \A t \in DOMAIN list : list[t] \in Row)
    /\ redis \in BOOLEAN /\ raced \in BOOLEAN /\ known \subseteq Ids
    /\ left \in 0..MaxMutations
    /\ \A p \in Procs :
        LET r == req[p] IN
        /\ r.step \in Steps /\ r.kind \in Kinds
        /\ r.id \in Ids \cup {Nil} /\ r.cur \in Ids \cup {Nil}
        /\ r.title \in Titles \cup {Nil}
        /\ r.copy \in MaybeRow /\ r.base \in MaybeRow
        /\ DOMAIN r.sess \subseteq Ids /\ DOMAIN r.writes \subseteq Ids
        /\ \A t \in DOMAIN r.writes : r.writes[t] \in MaybeRow
        /\ r.todo \subseteq Ids /\ r.planning \in BOOLEAN

\* A user with at most one task, planned or not, mirrored or not.
Init ==
    /\ rows \in {[t \in Ids |-> IF t \in S THEN r ELSE Nil] :
                    S \in {D \in SUBSET Ids : Cardinality(D) <= 1},
                    r \in {x \in Row : ~x.deleted /\ ~x.syncError /\ x.status = "Todo"
                                        /\ (x.event => x.dated)}}
    /\ known = {t \in Ids : rows[t] # Nil}
    /\ linked \in SUBSET known
    /\ events = [t \in Ids |-> IF rows[t] # Nil /\ rows[t].event THEN rows[t].title ELSE Nil]
    /\ copies = [t \in Ids |-> Nil] /\ list = Nil
    /\ redis \in BOOLEAN
    /\ req = [p \in Procs |-> Idle]
    /\ faults = {} /\ raced = FALSE /\ left = MaxMutations

-----------------------------------------------------------------------------
(* Building blocks *)

At(p, step) == req[p].step = step
Set(p, r) == req' = [req EXCEPT ![p] = r]
With(f, t, v) == [x \in DOMAIN f \cup {t} |-> IF x = t THEN v ELSE f[x]]
Busy == {p \in Procs : req[p].step # "idle"}

\* READ COMMITTED, and the transaction's own writes.
Seen(r, t) == IF t \in DOMAIN r.writes THEN r.writes[t] ELSE rows[t]

\* An uncommitted write keeps the row, or the new key, locked.
Owner(t) == {p \in Procs : t \in DOMAIN req[p].writes}
LockFree(p, t) == Owner(t) \subseteq {p}

\* Slip: a hand-picked list of columns forgets one.
SomeColumns(row) == [c \in DOMAIN row \ {"syncError"} |-> row[c]]

\* serialize_task: every column of the table.
Serialized(row) == row

\* Slip: the list survives a write.
KeptList == list

\* cache.delete("tasks:active:user:...")
DroppedList == IF redis THEN Nil ELSE list

\* Slip: the copy of a deleted task stays.
OldCopy(t, row) == IF Live(row) THEN Serialized(row) ELSE copies[t]

\* What task:id:<id> holds after a write.
NewCopy(t, row) == IF Live(row) THEN Serialized(row) ELSE Nil

\* Redis after a flush, before the commit.
Cache(t, row) ==
    /\ copies' = IF redis THEN [copies EXCEPT ![t] = NewCopy(t, row)] ELSE copies
    /\ list' = DroppedList
    /\ UNCHANGED redis

\* TasksRepository.get_by_id: <<the object, was it loaded by this session>>
Found(r, t) ==
    IF Live(copies[t]) THEN <<copies[t], FALSE>>
    ELSE IF ~Live(Seen(r, t)) THEN <<Nil, FALSE>>
    ELSE <<IF t \in DOMAIN r.sess THEN r.sess[t] ELSE Seen(r, t), TRUE>>
GetById(r, t) ==
    LET found == Found(r, t) IN
    [r EXCEPT !.copy = found[1],
              !.sess = IF found[2] THEN With(r.sess, t, found[1]) ELSE @]
FillCopy(r, t) ==
    /\ copies' = IF redis /\ Found(r, t)[2] THEN [copies EXCEPT ![t] = Serialized(Found(r, t)[1])]
                 ELSE copies
    /\ UNCHANGED <<list, redis>>

\* Slip: the UPDATE writes every column.
WholeRow(base, copy, now) == copy

\* UPDATE sets the columns that differ from what was loaded.
Updated(base, copy, now) ==
    [c \in DOMAIN now |-> IF copy[c] # base[c] THEN copy[c] ELSE now[c]]

\* What a mutation wants of the task it has read.
Wanted(r) ==
    IF r.planning THEN [r.copy EXCEPT !.dated = TRUE, !.status = "Scheduled"]
    ELSE CASE r.kind = "edit" -> [r.copy EXCEPT !.title = r.title]
           [] r.kind = "done" -> [r.copy EXCEPT !.status = "Done"]
           [] r.kind = "remove" -> [r.copy EXCEPT !.deleted = (r.copy.status = "Done")]

\* Slip: nothing is only marked.
ErasesAll(r) == r.kind = "remove" /\ ~r.planning

\* Completed tasks are only marked as deleted; the others go.
Erases(r) == r.kind = "remove" /\ ~r.planning /\ r.copy.status # "Done"

Fault(kind) == Cardinality(faults) < MaxFaults /\ faults' = faults \cup {kind}
NoFault == UNCHANGED faults

-----------------------------------------------------------------------------
(* A mutation arrives *)

Start(p, kind, t, title) ==
    /\ At(p, "idle") /\ left > 0 /\ ~raced
    /\ IF kind = "create"
       THEN /\ t \notin known /\ copies[t] = Nil
            /\ \A q \in Busy : req[q].id # t
       ELSE t \in known
    /\ Set(p, [Idle EXCEPT !.step = IF kind = "create" THEN "event" ELSE "find",
                           !.kind = kind, !.id = t, !.cur = t,
                           !.title = IF kind \in {"create", "edit"} THEN title ELSE Nil])
    /\ raced' = (raced \/ Busy # {}) /\ left' = left - 1
    /\ UNCHANGED <<rows, linked, events, cached, faults, known>>

\* TasksService.create: a task with a date is mirrored, if the user connected
\* Google and Google takes it; its answer may be lost.
CreateEvent(p, dated, made, answered) ==
    LET r == req[p]
        row == [title |-> r.title, status |-> "Todo", dated |-> dated,
                event |-> made /\ answered, syncError |-> FALSE, deleted |-> FALSE]
    IN /\ At(p, "event")
       /\ made => dated
       /\ events' = IF made THEN [events EXCEPT ![r.id] = r.title] ELSE events
       /\ IF answered THEN NoFault ELSE made /\ Fault("google")
       /\ Set(p, [r EXCEPT !.copy = row, !.step = "insert"])
       /\ UNCHANGED <<rows, linked, cached, raced, known, left>>

Insert(p) ==
    LET r == req[p] IN
    /\ At(p, "insert") /\ LockFree(p, r.id)
    /\ Set(p, [r EXCEPT !.writes = With(@, r.id, r.copy),
                        !.sess = With(@, r.id, r.copy), !.step = "plan"])
    /\ Cache(r.id, r.copy)
    /\ UNCHANGED <<rows, linked, events, history>>

\* find_one, which checks the owner; then update or delete read it again.
\* An edit that changes nothing writes nothing.
Read(p) ==
    LET r == req[p]
        got == GetById(r, r.id)
        noChange == \/ r.kind = "edit" /\ got.copy.title = r.title
                    \/ r.kind = "done" /\ got.copy.status = "Done"
    IN /\ r.step \in {"find", "read"}
       /\ Set(p, IF got.copy = Nil THEN Idle
                 ELSE IF r.step = "find" THEN [got EXCEPT !.copy = Nil, !.step = "read"]
                 ELSE [got EXCEPT !.step = IF noChange THEN "commit" ELSE "google"])
       /\ FillCopy(r, r.id)
       /\ UNCHANGED <<rows, linked, events, history>>

\* save: an object that came from Redis is merged with the row the session
\* has, or reads now.
Merged(r) == [r EXCEPT !.base = IF r.cur \in DOMAIN r.sess THEN r.sess[r.cur]
                                ELSE Seen(r, r.cur),
                       !.step = "flush"]

\* Slip: a patch that failed is not recorded.
PatchedQuietly(p, ok) ==
    LET r == req[p] IN
    /\ events' = IF r.copy.event /\ r.copy.dated /\ ok /\ events[r.id] # Nil
                 THEN [events EXCEPT ![r.id] = Wanted(r).title] ELSE events
    /\ Set(p, Merged([r EXCEPT !.copy = Wanted(r)]))

\* sync_update_to_google: the outcome goes into sync_status.  A patch fails on
\* an event that is gone; one whose answer is lost may have been applied.
Patched(p, ok) ==
    LET r == req[p]
        want == Wanted(r)
    IN IF r.copy.event /\ r.copy.dated
       THEN IF ok /\ events[r.id] # Nil
            THEN /\ events' = [events EXCEPT ![r.id] = want.title]
                 /\ Set(p, Merged([r EXCEPT !.copy = [want EXCEPT !.syncError = FALSE]]))
            ELSE /\ events' \in {events, IF events[r.id] = Nil THEN events
                                        ELSE [events EXCEPT ![r.id] = want.title]}
                 /\ Set(p, Merged([r EXCEPT !.copy = [want EXCEPT !.syncError = TRUE]]))
       ELSE UNCHANGED events /\ Set(p, Merged([r EXCEPT !.copy = want]))

\* sync_delete_to_google, before the transaction: a failure is ignored.
Google(p, ok) ==
    LET r == req[p] IN
    /\ At(p, "google")
    /\ IF r.kind = "remove"
       THEN /\ events' = IF r.copy.event /\ ok THEN [events EXCEPT ![r.id] = Nil] ELSE events
            /\ Set(p, Merged(r))
       ELSE Patched(p, ok)
    /\ IF ok THEN NoFault ELSE r.copy.event /\ Fault("google")
    /\ UNCHANGED <<rows, linked, cached, raced, known, left>>

\* The row the flush leaves, as a set: empty when the database or SQLAlchemy
\* refuses it (a duplicate key, an UPDATE that finds no row, a DELETE of an
\* object that was never stored).
Flushed(r) ==
    LET now == Seen(r, r.cur)
        want == IF r.planning \/ r.kind = "remove" THEN Wanted(r) ELSE r.copy
    IN IF Erases(r) THEN IF r.base = Nil THEN {} ELSE {Nil}
       ELSE IF r.base = Nil THEN IF now = Nil THEN {want} ELSE {}
       ELSE IF now = Nil THEN {} ELSE {Updated(r.base, want, now)}

AfterFlush(r) == IF r.planning THEN "next" ELSE "plan"

\* The statement, once the row is free, and what the repository does to Redis
\* right after it: before the commit.
Flush(p) ==
    LET r == req[p] IN
    /\ At(p, "flush") /\ LockFree(p, r.cur)
    /\ \E row \in Flushed(r) :
        /\ Set(p, [r EXCEPT !.writes = With(@, r.cur, row),
                            !.sess = IF row = Nil
                                     THEN [t \in DOMAIN @ \ {r.cur} |-> @[t]]
                                     ELSE With(@, r.cur, row),
                            !.copy = Nil, !.base = Nil, !.step = AfterFlush(r)])
        /\ Cache(r.cur, row)
    /\ UNCHANGED <<rows, linked, events, history>>

-----------------------------------------------------------------------------
(* run_scheduling_pipeline, in the same transaction *)

\* What Postgres answers a SELECT of the active tasks.
Active(r) == {t \in Ids : Live(Seen(r, t))}

\* get_all_active_by_user, which fills the list; of the tasks without dates
\* that are not done some find a place.
Plan(p, placed) ==
    LET r == req[p]
        stored == [t \in Active(r) |->
                     IF t \in DOMAIN r.sess THEN r.sess[t] ELSE Seen(r, t)]
        seen == IF list # Nil THEN list ELSE stored
    IN /\ At(p, "plan")
       /\ placed \in SUBSET {t \in DOMAIN seen : ~seen[t].dated /\ seen[t].status # "Done"}
       /\ list' = IF redis THEN seen ELSE list
       /\ Set(p, [r EXCEPT !.todo = placed, !.planning = TRUE, !.copy = Nil,
                           !.sess = IF list # Nil THEN @
                                    ELSE [t \in DOMAIN @ \cup Active(r) |->
                                            IF t \in DOMAIN @ THEN @[t] ELSE stored[t]],
                           !.step = "next"])
       /\ UNCHANGED <<rows, linked, events, copies, redis, history>>

\* The next task to save, read by id again; a missing one is passed over.
SavePlanned(p, t) ==
    LET r == req[p]
        got == GetById(r, t)
    IN /\ At(p, "next") /\ t \in r.todo
       /\ Set(p, [got EXCEPT !.todo = @ \ {t}, !.cur = t,
                             !.step = IF got.copy = Nil THEN "next" ELSE "merge"])
       /\ FillCopy(r, t)
       /\ UNCHANGED <<rows, linked, events, history>>

MergePlanned(p) ==
    /\ At(p, "merge")
    /\ Set(p, Merged(req[p]))
    /\ UNCHANGED <<rows, linked, events, cached, history>>

-----------------------------------------------------------------------------
(* The end of the mutation *)

\* Slip: the workspaces keep pointing to it.
KeepsLinks(r) == {}

\* The tasks a removal took from the workspaces that show them.
Unlinked(r) == IF r.kind = "remove" /\ r.writes # <<>> THEN {r.id} ELSE {}

\* Nothing to save, or nothing left to save.
AtCommit(r) == r.step = "commit" \/ (r.step = "next" /\ r.todo = {})

Commit(p) ==
    LET r == req[p] IN
    /\ AtCommit(r)
    /\ rows' = [t \in Ids |-> IF t \in DOMAIN r.writes THEN r.writes[t] ELSE rows[t]]
    /\ linked' = linked \ Unlinked(r)
    /\ known' = known \cup {t \in Ids : rows'[t] # Nil}
    /\ Set(p, Idle)
    /\ UNCHANGED <<events, cached, faults, raced, left>>

\* Slip: the event stays.
LeavesEvent(r) == Idle

\* Rolled back.  create deletes the event it made, if the exception reaches it.
Mirrored(r) ==
    /\ r.kind = "create"
    /\ \/ r.step = "insert" /\ r.copy.event
       \/ r.step \in {"plan", "next", "flush"} /\ r.writes[r.id].event
RolledBack(r) == IF Mirrored(r) THEN [Idle EXCEPT !.step = "undo", !.id = r.id] ELSE Idle

\* A flush that is refused, or that waits for a row whose owner waits for one
\* of ours: Postgres ends one of the two.
Waits(p) == req[p].step \in {"flush", "insert"} /\ ~LockFree(p, req[p].cur)
Deadlocked(p) ==
    /\ Waits(p)
    /\ \E q \in Owner(req[p].cur) \ {p} : Waits(q) /\ p \in Owner(req[q].cur)
Refused(p) == At(p, "flush") /\ LockFree(p, req[p].cur) /\ Flushed(req[p]) = {}

Abort(p) ==
    /\ Refused(p) \/ Deadlocked(p)
    /\ Set(p, RolledBack(req[p]))
    /\ UNCHANGED <<rows, linked, events, cached, history>>

\* A statement or the commit itself fails.
Fail(p) ==
    LET r == req[p] IN
    /\ r.step \in {"insert", "flush", "plan", "next", "commit"}
    /\ \/ ~AtCommit(r) /\ Fault("statement") /\ Set(p, RolledBack(r))
       \/ AtCommit(r) /\ Fault("commit") /\ Set(p, Idle)
    /\ UNCHANGED <<rows, linked, events, cached, raced, known, left>>

\* The compensating delete_event; a failure is ignored.
Undo(p, ok) ==
    /\ At(p, "undo")
    /\ events' = IF ok THEN [events EXCEPT ![req[p].id] = Nil] ELSE events
    /\ IF ok THEN NoFault ELSE Fault("google")
    /\ Set(p, Idle)
    /\ UNCHANGED <<rows, linked, cached, raced, known, left>>

\* A copy outlives its hour in Redis (bound: between mutations).
Expire ==
    /\ Busy = {}
    /\ \/ \E t \in Ids : copies[t] # Nil /\ copies' = [copies EXCEPT ![t] = Nil] /\ UNCHANGED list
       \/ list # Nil /\ list' = Nil /\ UNCHANGED copies
    /\ UNCHANGED <<rows, linked, events, redis, req, history>>

\* The bound on the mutations is reached; anything else that stops is stuck.
Finished == (left = 0 \/ raced) /\ Busy = {} /\ UNCHANGED vars

Step(p) ==
    \/ \E dated, made, answered \in BOOLEAN : CreateEvent(p, dated, made, answered)
    \/ Insert(p)
    \/ Read(p)
    \/ \E ok \in BOOLEAN : Google(p, ok)
    \/ MergePlanned(p)
    \/ Flush(p)
    \/ \E placed \in SUBSET Ids : Plan(p, placed)
    \/ \E t \in Ids : SavePlanned(p, t)
    \/ Commit(p)
    \/ Abort(p)
    \/ Fail(p)
    \/ \E ok \in BOOLEAN : Undo(p, ok)

Next ==
    \/ \E p \in Procs : Step(p)
    \/ \E p \in Procs, kind \in Kinds, t \in Ids, title \in Titles : Start(p, kind, t, title)
    \/ Expire
    \/ Finished

Spec == Init /\ [][Next]_vars

-----------------------------------------------------------------------------
(* Properties.  Those with Alone hold as long as no two mutations of the   *)
(* user overlapped: each takes its copies from Redis, and nothing tells    *)
(* them apart from the rows.                                               *)

Quiet == \A p \in Procs : At(p, "idle")
Alone == ~raced \/ ~redis
OnlyGoogleFailed == faults \subseteq {"google"}

\* Between mutations that did not overlap or fail, Redis holds what Postgres
\* holds: the task by id and the list of the active ones, although both are
\* written before the commit.
CopiesAreRows ==
    Quiet /\ ~raced /\ OnlyGoogleFailed =>
        /\ \A t \in Ids : copies[t] # Nil => copies[t] = rows[t]
        /\ list # Nil => list = [t \in {u \in Ids : Live(rows[u])} |-> rows[t]]

\* An event made for a task belongs to a task that is still there, whatever
\* overlaps and whichever statement fails: only a failure of Google, or of the
\* commit itself, which create never sees, leaves one behind.
NoOrphans ==
    Quiet /\ faults \subseteq {"statement"} =>
        \A t \in Ids : events[t] # Nil => Live(rows[t]) /\ rows[t].event

\* A task that says it is synced has its title in Google.
SyncedIsTrue ==
    Quiet /\ ~raced /\ OnlyGoogleFailed =>
        \A t \in Ids : Live(rows[t]) /\ rows[t].event /\ ~rows[t].syncError
                        => events[t] = rows[t].title

\* No workspace points to a task that is gone.
LinksAreLive == \A t \in linked : Live(rows[t])

\* Every completed task stays stored and completed in this step.
CompletedRemain ==
    \A t \in Ids : rows[t] # Nil /\ rows[t].status = "Done"
                        => rows'[t] # Nil /\ rows'[t].status = "Done"

\* As long as no two mutations overlapped, a completed task stays in the
\* database, completed, even when it is removed: Insights counts it.  (A removal that
\* read the task before another mutation completed it erases the row, and an edit's
\* stale copy takes the completion back.)
CompletedIsKept == [][~raced => CompletedRemain]_vars

\* A removed task does not come back.  With Redis and two mutations at once it
\* does: the other merges the copy it read and inserts the row again.
RemovedStaysRemoved ==
    [][Alone => \A t \in known : ~Live(rows[t]) => ~Live(rows'[t])]_vars

\* Nothing but an edit of its title changes a task's title: neither the
\* planner, which saves tasks the mutation was not about, nor the completion.
TitleByItsEdit ==
    [][Alone /\ (redis => OnlyGoogleFailed) =>
        \A t \in Ids : Live(rows[t]) /\ Live(rows'[t]) /\ rows[t].title # rows'[t].title
            => \E p \in Procs : AtCommit(req[p]) /\ req[p].kind = "edit" /\ req[p].id = t]_vars
=============================================================================
