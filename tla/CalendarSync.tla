---------------------------- MODULE CalendarSync ----------------------------
(***************************************************************************)
(* The synchronisation of tasks with the user's Google Calendar            *)
(* (google_calendar_service.sync_calendar).  A sync reads the changes      *)
(* since the token it stored, applies them to the tasks linked to an event *)
(* and stores the next token in the same commit.  Loading the calendar     *)
(* starts one, and so do Google's notifications and every edit of an event *)
(* through the API; they overlap.  Meanwhile an edit of a linked task is   *)
(* pushed to Google before it is committed (tasks_sync_service), and the   *)
(* user edits events in Google itself.                                     *)
(***************************************************************************)
EXTENDS Integers, FiniteSets

CONSTANTS Events,     \* events of the calendar, each mirrored by one task
          Procs,      \* syncs that can run at the same time
          MaxVersion, \* bound: changes of the calendar
          MaxFaults,  \* bound: failing requests, tokens Google no longer takes
          Nil

VARIABLES g,        \* Google: every event's date, its last change (its etag), alive or cancelled
          version,  \* Google: changes so far; a sync token is one
          floor,    \* Google: tokens below it are answered 410
          rows,     \* Postgres: the linked tasks
          token,    \* Postgres: User.googleCalendarSyncToken
          channel,  \* Postgres and Google: a push channel is registered
          throttle, \* Redis: gcal:sync:<user>
          sync,     \* the syncs under way
          edit,     \* the edit of a linked task under way
          kept,     \* history: dates whose push failed, and the version they were set on
          excused,  \* history: syncs overlapped, an old date was pushed or committed over
                    \* a later one, a deadline was pushed for a task that a sync gave
                    \* estimated dates meanwhile, a cancellation was lost
          faults

vars == <<g, version, floor, rows, token, channel, throttle, sync, edit, kept,
          excused, faults>>
google == <<g, version, floor>>

\* An event is given a date it never had before: the version it got it at.
Versions == 0..MaxVersion
\* A date that is in the row only, its push having failed.
Unpushed == -1
Dates == Versions \cup {Unpushed}
Event == [when : Dates, at : Versions, alive : BOOLEAN]
\* The calendar shows a task at its estimated dates or, without them (~est), at its
\* deadline; the deadline of a task that has both is not followed.
Row == [when : Dates, est : BOOLEAN, etag : Versions]
Kinds == {"move", "due", "touch", "remove"}
Rest == [step |-> "rest",
         token |-> Nil,       \* as it was read
         snap |-> <<>>,       \* linked_tasks: rows loaded once
         items |-> <<>>,      \* items_to_process
         next |-> Nil,        \* nextSyncToken
         writes |-> <<>>,     \* rows written and not committed
         late |-> FALSE]      \* another sync committed since it began
Still == [step |-> "rest", event |-> Nil, kind |-> "move", was |-> Nil, pushed |-> Nil]

TypeOK ==
    /\ g \in [Events -> Event] /\ version \in Versions /\ floor \in Versions
    /\ rows \in [Events -> Row \cup {Nil}] /\ token \in Versions \cup {Nil}
    /\ channel \in BOOLEAN /\ throttle \in BOOLEAN
    /\ \A p \in Procs :
        /\ sync[p].step \in {"rest", "link", "fetch", "apply", "watch"}
        /\ DOMAIN sync[p].items \subseteq Events /\ DOMAIN sync[p].writes \subseteq Events
        /\ \A e \in DOMAIN sync[p].items : sync[p].items[e] \in Event
    /\ excused \in BOOLEAN /\ faults \in 0..MaxFaults
    /\ edit.step \in {"rest", "push", "commit"}
    /\ kept \in [Events -> Versions \cup {Nil}]

Init ==
    /\ g = [e \in Events |-> [when |-> 0, at |-> 0, alive |-> TRUE]]
    /\ version = 0 /\ floor = 0
    /\ \E est \in [Events -> BOOLEAN] :
            rows = [e \in Events |-> [when |-> 0, est |-> est[e], etag |-> 0]]
    /\ token \in {Nil, 0}
    /\ channel = FALSE /\ throttle = FALSE
    /\ sync = [p \in Procs |-> Rest] /\ edit = Still
    /\ kept = [e \in Events |-> Nil]
    /\ excused = FALSE /\ faults = MaxFaults

Set(p, s) == sync' = [sync EXCEPT ![p] = s]
Fault == faults > 0 /\ faults' = faults - 1

\* Every change of an event is a version.
Change(e, event) ==
    /\ version < MaxVersion
    /\ version' = version + 1
    /\ g' = [g EXCEPT ![e] = [event EXCEPT !.at = version + 1]]

\* Rows another transaction wrote and has not committed.
Locked(e) == \E p \in Procs : e \in DOMAIN sync[p].writes

-----------------------------------------------------------------------------
(* Google *)

External(e) ==
    /\ g[e].alive
    /\ \E alive \in BOOLEAN : Change(e, [g[e] EXCEPT !.when = version + 1, !.alive = alive])
    /\ UNCHANGED <<floor, rows, token, channel, throttle, sync, edit, kept, excused, faults>>

\* Google drops its old tokens: what was cancelled before is not said again.
Forget ==
    /\ floor < version /\ Fault
    /\ floor' = version
    /\ excused' = (excused \/ \E e \in Events : ~g[e].alive /\ rows[e] # Nil)
    /\ UNCHANGED <<g, version, rows, token, channel, throttle, sync, edit, kept>>

\* A channel lasts a week.
ChannelExpires ==
    /\ channel /\ channel' = FALSE
    /\ UNCHANGED <<google, rows, token, throttle, sync, edit, kept, excused, faults>>

-----------------------------------------------------------------------------
(* What starts a sync *)

\* user_repo.get_by_id: the token of this sync.
Begin(p) == Set(p, [Rest EXCEPT !.step = "link", !.token = token])

\* GET /events, start_background_sync: at most once a minute.
PageLoad(p) ==
    /\ sync[p].step = "rest" /\ ~throttle
    /\ Begin(p) /\ throttle' = TRUE
    /\ UNCHANGED <<google, rows, token, channel, edit, kept, excused, faults>>

ThrottleExpires ==
    /\ throttle /\ throttle' = FALSE
    /\ UNCHANGED <<google, rows, token, channel, sync, edit, kept, excused, faults>>

\* handle_google_webhook: of the registered channel only, and never throttled.
\* Notifications come late, twice or not at all.
Webhook(p) ==
    /\ sync[p].step = "rest" /\ channel
    /\ Begin(p)
    /\ UNCHANGED <<google, rows, token, channel, throttle, edit, kept, excused, faults>>

\* PATCH and DELETE /events/{id}: Google first, then a sync in the same request.
Route(p, e) ==
    /\ sync[p].step = "rest" /\ g[e].alive
    /\ \E alive \in BOOLEAN : Change(e, [g[e] EXCEPT !.when = version + 1, !.alive = alive])
    /\ Begin(p)
    /\ UNCHANGED <<floor, rows, token, channel, throttle, edit, kept, excused, faults>>

-----------------------------------------------------------------------------
(* sync_calendar *)

\* linked_tasks
Link(p) ==
    /\ sync[p].step = "link"
    /\ Set(p, [sync[p] EXCEPT !.step = "fetch",
                              !.snap = [e \in {x \in Events : rows[x] # Nil} |-> rows[e]]])
    /\ UNCHANGED <<google, rows, token, channel, throttle, edit, kept, excused, faults>>

\* 410: the token is dropped, in a commit of its own, and the reading restarts.
Gone(p) ==
    /\ sync[p].step = "fetch" /\ sync[p].token # Nil /\ sync[p].token < floor
    /\ token' = Nil
    /\ Set(p, [sync[p] EXCEPT !.token = Nil])
    /\ excused' = (excused \/ \E e \in Events : ~g[e].alive /\ rows[e] # Nil)
    /\ UNCHANGED <<google, rows, channel, throttle, edit, kept, faults>>

\* Without a token, only what is alive is listed (and began in the last thirty days, as
\* the events here did).  Events without a task are skipped.
Listed(p, e) ==
    IF sync[p].token = Nil THEN g[e].alive ELSE g[e].at > sync[p].token

Fetch(p) ==
    /\ sync[p].step = "fetch" /\ (sync[p].token # Nil => sync[p].token >= floor)
    /\ Set(p, [sync[p] EXCEPT !.step = "apply", !.token = Nil, !.next = version,
                              !.items = [e \in {x \in DOMAIN sync[p].snap : Listed(p, x)} |-> g[e]]])
    /\ excused' = (excused \/ (sync[p].token = Nil
                               /\ \E e \in Events : ~g[e].alive /\ rows[e] # Nil))
    /\ UNCHANGED <<google, rows, token, channel, throttle, edit, kept, faults>>

\* Slip: the echo of a push is taken for an edit.
NeverOurs(item, was) == FALSE

\* preserve_dates: the version is the one the row was pushed or synced at.
Preserved(item, was) == item.at = was.etag

\* The date the update leaves where it is: the estimated one when it is preserved (the
\* deadline is written all the same), and whatever is as the row loaded at the start
\* had it, since only columns that differ from that are written.
Stays(row, was, item) ==
    IF Preserved(item, was) THEN row.est \/ item.when = was.when
    ELSE was.est /\ item.when = was.when

\* TasksService.update of the row loaded at the start.  (The status is Scheduled
\* again, whatever it was.)
Updated(row, was, item) ==
    [when |-> IF Stays(row, was, item) THEN row.when ELSE item.when,
     est |-> row.est \/ ~Preserved(item, was),
     etag |-> IF item.at = was.etag THEN row.etag ELSE item.at]

\* What an item makes of the row: a deletion, an update, or a task again when it was deleted since linked_tasks was read
\* (get_by_google_event_id finds nothing).
Applied(p, e) ==
    LET item == sync[p].items[e] IN
    IF ~item.alive THEN Nil
    ELSE IF rows[e] # Nil THEN Updated(rows[e], sync[p].snap[e], item)
    ELSE [when |-> item.when, est |-> TRUE, etag |-> item.at]

\* Cancelled, and its task is gone already: TasksService.delete raises.
Raises(p, e) == ~sync[p].items[e].alive /\ rows[e] = Nil

Left(p) == DOMAIN sync[p].items

\* The next item, in any order.
Apply(p, e) ==
    /\ sync[p].step = "apply" /\ e \in Left(p) /\ ~Locked(e)
    /\ Set(p, IF Raises(p, e) THEN Rest
              ELSE [sync[p] EXCEPT
                     !.items = [x \in Left(p) \ {e} |-> @[x]],
                     !.writes = [x \in DOMAIN @ \cup {e} |-> IF x = e THEN Applied(p, e) ELSE @[x]]])
    /\ UNCHANGED <<google, rows, token, channel, throttle, edit, kept, excused, faults>>

\* Slip: the token of the moment of the commit.
Newest(p) == version

NextToken(p) == sync[p].next

Commit(p) ==
    /\ sync[p].step = "apply" /\ Left(p) = {}
    /\ rows' = [e \in Events |->
                  IF e \in DOMAIN sync[p].writes THEN sync[p].writes[e] ELSE rows[e]]
    /\ token' = NextToken(p)
    /\ excused' = (excused \/ sync[p].late)
    /\ sync' = [q \in Procs |->
                  IF q = p THEN [Rest EXCEPT !.step = "watch"]
                  ELSE IF sync[q].step \in {"rest", "watch"} THEN sync[q]
                  ELSE [sync[q] EXCEPT !.late = TRUE]]
    /\ UNCHANGED <<google, channel, throttle, edit, kept, faults>>

\* watch_calendar: nothing to do, registered, or failed in silence.
Watch(p) ==
    /\ sync[p].step = "watch"
    /\ channel' \in {channel, TRUE}
    /\ Set(p, Rest)
    /\ UNCHANGED <<google, rows, token, throttle, edit, kept, excused, faults>>

\* Google, the database or the process fails: the transaction is rolled back.
SyncFails(p) ==
    /\ sync[p].step \in {"link", "fetch", "apply"} /\ Fault
    /\ Set(p, Rest)
    /\ UNCHANGED <<google, rows, token, channel, throttle, edit, kept, excused>>

-----------------------------------------------------------------------------
(* Edits of linked tasks: dragged to other estimated dates, given another     *)
(* deadline, changed otherwise (completed, ...), removed                      *)

EditRead(e, kind) ==
    /\ edit.step = "rest" /\ rows[e] # Nil /\ (kind = "due" => ~rows[e].est)
    /\ edit' = [step |-> "push", event |-> e, kind |-> kind,
                was |-> IF kind = "touch" THEN rows[e].when ELSE Nil, pushed |-> Nil]
    /\ UNCHANGED <<google, rows, token, channel, throttle, sync, kept, excused, faults>>

\* sync_update_to_google, sync_delete_to_google: the whole event as the row has it.
Pushed ==
    LET e == edit.event IN
    CASE edit.kind \in {"move", "due"} -> [g[e] EXCEPT !.when = version + 1]
      [] edit.kind = "touch" -> [g[e] EXCEPT !.when = edit.was]
      [] edit.kind = "remove" -> [g[e] EXCEPT !.alive = FALSE]

EditPush ==
    LET e == edit.event IN
    /\ edit.step = "push" /\ g[e].alive
    /\ Change(e, Pushed)
    /\ edit' = [edit EXCEPT !.step = "commit", !.pushed = version + 1]
    /\ excused' = (excused \/ (edit.kind = "touch" /\ g[e].when # edit.was))
    /\ UNCHANGED <<floor, rows, token, channel, throttle, sync, kept, faults>>

\* sync_error: the edit goes on without Google.
PushFails ==
    /\ edit.step = "push"
    /\ IF g[edit.event].alive THEN Fault ELSE UNCHANGED faults
    /\ edit' = [edit EXCEPT !.step = "commit"]
    /\ UNCHANGED <<google, rows, token, channel, throttle, sync, kept, excused>>

\* The date the calendar shows is one the edit sets.
Redated(row) == edit.kind = "move" \/ (edit.kind = "due" /\ ~row.est)

\* What the edit makes of the row: the columns it changed.
Edited(row) ==
    [when |-> IF ~Redated(row) THEN row.when
              ELSE IF edit.pushed = Nil THEN Unpushed ELSE edit.pushed,
     est |-> row.est \/ edit.kind = "move",
     etag |-> IF edit.pushed = Nil THEN row.etag ELSE edit.pushed]

\* A sync under way loaded the row before it got the version it has.
Outdated(e) ==
    \E p \in Procs : e \in DOMAIN sync[p].snap /\ sync[p].snap[e].etag # rows[e].etag

EditCommit ==
    LET e == edit.event IN
    /\ edit.step = "commit" /\ ~Locked(e) /\ rows[e] # Nil
    /\ rows' = [rows EXCEPT ![e] = IF edit.kind = "remove" THEN Nil ELSE Edited(@)]
    /\ kept' = [kept EXCEPT ![e] =
                  IF edit.kind # "remove" /\ ~Redated(rows[e]) THEN @
                  ELSE IF edit.kind # "remove" /\ edit.pushed = Nil /\ ~Outdated(e)
                  THEN rows[e].etag ELSE Nil]
    /\ excused' = (excused \/ (edit.pushed # Nil
         /\ \/ rows[e].etag > edit.pushed
            \/ edit.kind = "touch" /\ rows[e].when # edit.was
            \/ edit.kind = "due" /\ rows[e].est))
    /\ edit' = Still
    /\ UNCHANGED <<google, token, channel, throttle, sync, faults>>

\* The commit fails, or the row is gone.
EditFails ==
    /\ edit.step = "commit"
    /\ IF rows[edit.event] = Nil THEN UNCHANGED faults ELSE Fault
    /\ edit' = Still
    /\ UNCHANGED <<google, rows, token, channel, throttle, sync, kept, excused>>

Next ==
    \/ \E p \in Procs :
        \/ PageLoad(p) \/ Webhook(p) \/ Link(p) \/ Gone(p) \/ Fetch(p)
        \/ Commit(p) \/ Watch(p) \/ SyncFails(p)
        \/ \E e \in Events : Route(p, e) \/ Apply(p, e)
    \/ \E e \in Events : \/ External(e)
                        \/ \E kind \in Kinds : EditRead(e, kind)
    \/ EditPush \/ PushFails \/ EditCommit \/ EditFails
    \/ Forget \/ ChannelExpires \/ ThrottleExpires

Spec == Init /\ [][Next]_vars

-----------------------------------------------------------------------------
(* Properties *)

\* What the stored token claims to have seen, the tasks show: no change of a
\* linked event is skipped, though edits race with the sync, pushes and syncs
\* fail, and Google forgets its tokens.  (Not so when two syncs overlap, when an
\* edit pushes a stale date or commits its own after a sync brought a later one,
\* or when a cancellation was older than a 410.)
TokenIsHonest ==
    (token # Nil /\ ~excused) => \A e \in Events :
        (rows[e] # Nil /\ g[e].at <= token) =>
            g[e].alive /\ rows[e].when \in {g[e].when, Unpushed}

\* An estimated date the user set while Google was out of reach stays until the event
\* changes there, even when the whole calendar is read again ("silently let a
\* still-in-flight local drag/resize get overwritten by a stale Google copy");
\* except by a sync that loaded the row before its last version.  (A deadline does not
\* stay, since every sync writes it.)
UnpushedStays ==
    ~excused => \A e \in Events :
        (kept[e] # Nil /\ rows[e] # Nil /\ g[e].at = kept[e] /\ rows[e].est)
        => rows[e].when = Unpushed
=============================================================================
