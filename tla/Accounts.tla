------------------------------ MODULE Accounts ------------------------------
(***************************************************************************)
(* The account of one email address: its row in Postgres, the two copies   *)
(* of it in Redis (user:id:<id> and user:email:<email>), and the requests  *)
(* that read and write it through UsersRepository and transaction_scope:   *)
(* sign-in, profile edits, the acceptance of the terms, the calendar sync  *)
(* and the deletion.                                                       *)
(*                                                                         *)
(* A sign-up makes a new id, so one email may have several, of which       *)
(* Postgres keeps one.  The columns are grouped by who changes them: the   *)
(* plan, which is billing's, and the details, which requests bring (name,  *)
(* settings, terms, Google tokens and channel).                            *)
(***************************************************************************)
EXTENDS Integers

CONSTANTS Procs,       \* requests that can run at the same time
          MaxAccounts, \* bound: ids ever made for the email
          Details,     \* what the details may be
          NoDetails,   \* the details of a new account
          Kinds        \* the requests this instance receives

ASSUME BoundsAssumption == MaxAccounts \in Nat \ {0}
ASSUME DetailsAssumption == NoDetails \in Details
ASSUME KindsAssumption ==
    Kinds \subseteq {"google", "magic", "patch", "terms", "calendar", "delete"}

VARIABLES rows,      \* Postgres: the committed row of each id
          byId,      \* Redis: user:id:<id>
          byEmail,   \* Redis: user:email:<email>
          redis,     \* FALSE: there is no Redis at all
          req,       \* the request each process is serving
          everPro,   \* history: ids that billing ever made Pro
          signedIn   \* browsers: ids with a session cookie

vars == <<rows, byId, byEmail, redis, req, everPro, signedIn>>
cached == <<byId, byEmail, redis>>
history == <<everPro, signedIn>>

Ids == 1..MaxAccounts
NoId == 0

Row == [stored : BOOLEAN, plan : {"free", "pro"}, details : Details]
NoRow == [stored |-> FALSE, plan |-> "free", details |-> NoDetails]
NewRow == [NoRow EXCEPT !.stored = TRUE]
EmailEntry == [id : Ids \cup {NoId}, row : Row]
NoEntry == [id |-> NoId, row |-> NoRow]

Locations == {"idle", "get", "fill", "merge", "flush", "refresh", "publish",
              "listIds", "erase", "exit", "answer"}
AllKinds == {"google", "magic", "patch", "terms", "calendar", "delete"}
Request == [pc : Locations, kind : AllKinds \cup {"none"},
            id : Ids \cup {NoId},
            inTx : BOOLEAN,                       \* AsyncSession.in_transaction()
            scope : {"none", "outer", "nested"},  \* the transaction_scope it is in
            loaded : Row,    \* the row as the session's identity map has it
            mem : Row,       \* the User object at hand
            dirty : {"no", "write", "erase"}]     \* flushed and not committed
IdleRequest == [pc |-> "idle", kind |-> "none", id |-> NoId,
                inTx |-> FALSE, scope |-> "none", loaded |-> NoRow, mem |-> NoRow,
                dirty |-> "no"]

TypeOK ==
    /\ rows \in [Ids -> Row]
    /\ byId \in [Ids -> Row] /\ byEmail \in EmailEntry
    /\ redis \in BOOLEAN
    /\ req \in [Procs -> Request]
    /\ everPro \subseteq Ids
    /\ signedIn \subseteq Ids

\* A new email, or one whose account is stored; with Redis or without it.
Init ==
    /\ rows \in {[i \in Ids |-> NoRow], [i \in Ids |-> IF i = 1 THEN NewRow ELSE NoRow]}
    /\ byId = [i \in Ids |-> NoRow] /\ byEmail = NoEntry
    /\ redis \in BOOLEAN
    /\ req = [p \in Procs |-> IdleRequest]
    /\ everPro = {}
    /\ signedIn = {i \in Ids : rows[i].stored}

-----------------------------------------------------------------------------
(* Building blocks *)

At(p, location) == req[p].pc = location
Continue(p, r) == req' = [req EXCEPT ![p] = r]
\* The session closes: what was not committed is rolled back.
End(p) == Continue(p, IdleRequest)

SignsIn(r) == r.kind \in {"google", "magic"}
Stored == {i \in Ids : rows[i].stored}

\* An uncommitted write keeps the row (and the email) locked.
LockFree(p) == \A q \in Procs \ {p} : req[q].dirty = "no"

\* uuid4: an id that nobody ever saw.
NewIds == {i \in Ids : /\ ~rows[i].stored /\ ~byId[i].stored /\ byEmail.id # i
                       /\ i \notin signedIn
                       /\ \A q \in Procs : req[q].id # i}

\* Slip: always a savepoint.
Savepoint(r) == "nested"

\* A transaction under way, if only by a query, gets a savepoint.
ScopeFor(r) == IF r.inTx THEN "nested" ELSE "outer"

\* async with transaction_scope(...)
InScope(r) == [r EXCEPT !.scope = ScopeFor(r), !.inTx = TRUE]

\* Slip: the answer forgets who it is for.
DoneForAnyone(r) == [IdleRequest EXCEPT !.pc = "answer", !.kind = r.kind]

\* Only the response is left; what was not committed still holds its lock.
Done(r) == [IdleRequest EXCEPT !.pc = "answer", !.kind = r.kind, !.id = r.id,
                               !.dirty = r.dirty]

\* Where a request goes once it has the user.  An edit checks that the account
\* is there, and reads it again in its scope.
AfterRead(r) ==
    CASE r.kind = "patch" /\ r.scope = "none" -> InScope([r EXCEPT !.mem = NoRow, !.pc = "get"])
      [] r.kind = "google" -> InScope([r EXCEPT !.pc = "merge"])
      [] r.kind = "magic" -> Done(r)
      [] OTHER -> [r EXCEPT !.pc = "merge"]
AfterSave(r) ==
    CASE r.scope # "none" -> [r EXCEPT !.pc = "exit"]
      [] r.scope = "none" /\ r.kind = "delete" -> [r EXCEPT !.mem = NoRow, !.pc = "listIds"]
      [] OTHER -> Done(r)

-----------------------------------------------------------------------------
(* Requests.  Each but the sign-ins carries the id of a session cookie. *)

StartSignIn(p, kind, i) ==
    /\ kind \in Kinds /\ At(p, "idle") /\ i \in NewIds
    /\ Continue(p, [IdleRequest EXCEPT !.pc = "get", !.kind = kind, !.id = i])
    /\ UNCHANGED <<rows, cached, history>>

\* accept_terms opens the scope before it reads anything.
StartEdit(p, kind, i) ==
    /\ kind \in Kinds /\ At(p, "idle") /\ i \in signedIn
    /\ LET r == [IdleRequest EXCEPT !.pc = "get", !.kind = kind, !.id = i]
       IN Continue(p, IF kind = "terms" THEN InScope(r) ELSE r)
    /\ UNCHANGED <<rows, cached, history>>

StartDelete(p, i) ==
    /\ "delete" \in Kinds /\ At(p, "idle") /\ i \in signedIn
    /\ Continue(p, [IdleRequest EXCEPT !.pc = "get", !.kind = "delete", !.id = i])
    /\ UNCHANGED <<rows, cached, history>>

-----------------------------------------------------------------------------
(* UsersRepository.get_by_id and get_by_email *)

\* The cached copy, detached from the session; or a query, when nothing is
\* cached or Redis does not answer.  The query begins a transaction; a row the
\* session has already stays as it was loaded.
Get(p) ==
    LET r == req[p]
        hit == IF SignsIn(r) THEN byEmail ELSE [id |-> r.id, row |-> byId[r.id]]
        found == IF SignsIn(r) THEN Stored ELSE Stored \cap {r.id}
    IN /\ At(p, "get")
       /\ \/ /\ redis /\ hit.row.stored
             /\ Continue(p, AfterRead([r EXCEPT !.id = hit.id, !.mem = hit.row]))
          \/ \E i \in found :
               LET row == IF r.loaded.stored THEN r.loaded ELSE rows[i]
               IN Continue(p, [r EXCEPT !.id = i, !.inTx = TRUE, !.loaded = row,
                                        !.mem = row, !.pc = "fill"])
          \/ /\ found = {} /\ SignsIn(r)
             /\ Continue(p, InScope([r EXCEPT !.inTx = TRUE, !.mem = NewRow, !.pc = "merge"]))
          \/ found = {} /\ ~SignsIn(r) /\ End(p)
       /\ UNCHANGED <<rows, cached, history>>

\* Both keys are set after a read or a save, and deleted after a delete; each
\* call may fail, and then does nothing.
Published(p) ==
    LET r == req[p]
        row == IF r.dirty = "erase" THEN NoRow ELSE r.mem
        entry == IF r.dirty = "erase" THEN NoEntry ELSE [id |-> r.id, row |-> r.mem]
    IN /\ byId' \in {byId} \cup (IF redis THEN {[byId EXCEPT ![r.id] = row]} ELSE {})
       /\ byEmail' \in {byEmail} \cup (IF redis THEN {entry} ELSE {})

FillCache(p) ==
    /\ At(p, "fill") /\ Published(p)
    /\ Continue(p, AfterRead(req[p]))
    /\ UNCHANGED <<rows, redis, history>>

-----------------------------------------------------------------------------
(* The end of a transaction_scope *)

CommitWrites(r) ==
    \/ r.dirty = "no" /\ UNCHANGED rows
    \/ r.dirty = "write" /\ rows' = [rows EXCEPT ![r.id] = r.mem]
    \/ r.dirty = "erase" /\ rows' = [rows EXCEPT ![r.id] = NoRow]

\* The outermost scope commits; a savepoint is only released.
ExitScope(p) ==
    LET r == req[p]
    IN /\ At(p, "exit")
       /\ \/ /\ r.scope = "outer" /\ CommitWrites(r)
             /\ Continue(p, Done([r EXCEPT !.dirty = "no"]))
          \/ /\ r.scope = "nested"
             /\ Continue(p, Done(r))
             /\ UNCHANGED rows
       /\ UNCHANGED <<cached, history>>

-----------------------------------------------------------------------------
(* UsersRepository.create, save and delete *)

\* Slip: the plan the browser echoes back is not discarded.
EditedWithPlan(r) == {[r.mem EXCEPT !.details = d, !.plan = "pro"] : d \in Details}

\* The object as the handler changes it.  A sign-in may bring a new refresh
\* token; a deletion first stops the calendar's channel, if there is one.
Edited(r) ==
    IF r.kind = "magic" THEN {r.mem} ELSE {[r.mem EXCEPT !.details = d] : d \in Details}

\* A detached object is merged into the row, which is read for it, unless the
\* session has the row.
Merge(p) ==
    LET r == req[p]
    IN /\ At(p, "merge")
       /\ \E row \in Edited(r) :
            Continue(p, [r EXCEPT !.mem = row, !.inTx = TRUE, !.pc = "flush",
                            !.loaded = IF r.loaded.stored THEN r.loaded ELSE rows[r.id]])
       /\ UNCHANGED <<rows, cached, history>>

\* No channel, or it could not be stopped: the deletion goes on.
StopFails(p) ==
    /\ At(p, "merge") /\ req[p].kind = "delete"
    /\ Continue(p, [req[p] EXCEPT !.mem = NoRow, !.loaded = NoRow, !.pc = "listIds"])
    /\ UNCHANGED <<rows, cached, history>>

\* Slip: UPDATE writes every column.
WholeRow(r) == r.mem

\* UPDATE writes the columns that differ from the row as loaded; INSERT all.
Changed(new, old, now) == IF new # old THEN new ELSE now
Written(r) ==
    LET now == rows[r.id]
    IN IF ~r.loaded.stored THEN r.mem
       ELSE [now EXCEPT !.plan = Changed(r.mem.plan, r.loaded.plan, @),
                        !.details = Changed(r.mem.details, r.loaded.details, @)]

\* The email is unique, and what is updated must be there.
Conflict(r) == IF r.loaded.stored THEN r.id \notin Stored ELSE Stored # {}

\* save(commit=True) is for the calendar alone.
CommitsAtOnce(r) == r.scope = "none"

Flush(p) ==
    LET r == req[p]
        flushed == [r EXCEPT !.mem = Written(r), !.loaded = NoRow, !.dirty = "write", !.pc = "refresh"]
    IN /\ At(p, "flush")
       /\ \/ /\ r.mem = r.loaded
             /\ Continue(p, [r EXCEPT !.pc = "refresh"])
             /\ UNCHANGED rows
          \/ /\ r.mem # r.loaded /\ LockFree(p) /\ Conflict(r)
             /\ End(p) /\ UNCHANGED rows
          \/ /\ r.mem # r.loaded /\ LockFree(p) /\ ~Conflict(r)
             /\ \/ ~CommitsAtOnce(r) /\ Continue(p, flushed) /\ UNCHANGED rows
                \/ /\ CommitsAtOnce(r) /\ CommitWrites(flushed)
                   /\ Continue(p, [flushed EXCEPT !.dirty = "no"])
       /\ UNCHANGED <<cached, history>>

\* The object takes the row's values, its own uncommitted ones included.
Refresh(p) ==
    LET r == req[p]
        row == IF r.dirty = "write" THEN r.mem ELSE rows[r.id]
    IN /\ At(p, "refresh")
       /\ Continue(p, [r EXCEPT !.mem = row, !.loaded = NoRow, !.inTx = TRUE, !.pc = "publish"])
       /\ UNCHANGED <<rows, cached, history>>

\* After the row is refreshed, the cached copies are.
UpdateCache(p) ==
    /\ At(p, "publish") /\ Published(p)
    /\ Continue(p, AfterSave(req[p]))
    /\ UNCHANGED <<rows, redis, history>>

\* The ids of what the user owns are read, then everything goes in one scope.
ListIds(p) ==
    /\ At(p, "listIds")
    /\ Continue(p, InScope([req[p] EXCEPT !.inTx = TRUE, !.loaded = NoRow, !.pc = "erase"]))
    /\ UNCHANGED <<rows, cached, history>>

\* A row that is not there is an error.
Erase(p) ==
    LET r == req[p]
    IN /\ At(p, "erase") /\ LockFree(p)
       /\ \/ r.id \notin Stored /\ End(p)
          \/ /\ r.id \in Stored
             /\ Continue(p, [r EXCEPT !.dirty = "erase", !.pc = "publish"])
       /\ UNCHANGED <<rows, cached, history>>

-----------------------------------------------------------------------------
(* Answers, failures and the others *)

Answer(p) ==
    /\ At(p, "answer")
    /\ signedIn' = IF SignsIn(req[p]) THEN signedIn \cup {req[p].id} ELSE signedIn
    /\ End(p)
    /\ UNCHANGED <<rows, cached, everPro>>

\* An exception or the death of the worker, at any point.
RequestFails(p) ==
    /\ ~At(p, "idle") /\ End(p)
    /\ UNCHANGED <<rows, cached, history>>

\* sync_subscription writes the plan column and knows nothing of the cache.
BillingChanges(i) ==
    /\ i \in Stored /\ \A q \in Procs : req[q].dirty = "no"
    /\ \E plan \in {"free", "pro"} :
          /\ plan # rows[i].plan
          /\ rows' = [rows EXCEPT ![i].plan = plan]
          /\ everPro' = IF plan = "pro" THEN everPro \cup {i} ELSE everPro
    /\ UNCHANGED <<cached, req, signedIn>>

\* An hour, or an eviction.
Expires ==
    /\ \/ /\ \E i \in Ids : byId[i].stored /\ byId' = [byId EXCEPT ![i] = NoRow]
          /\ UNCHANGED byEmail
       \/ byEmail # NoEntry /\ byEmail' = NoEntry /\ UNCHANGED byId
    /\ UNCHANGED <<rows, redis, req, history>>

Start(p) ==
    \/ \E i \in Ids :
          \/ \E kind \in {"google", "magic"} : StartSignIn(p, kind, i)
          \/ \E kind \in {"patch", "terms", "calendar"} : StartEdit(p, kind, i)
    \/ \E i \in Ids : StartDelete(p, i)
Proceed(p) ==
    \/ Get(p) \/ FillCache(p) \/ ExitScope(p) \/ Answer(p)
    \/ Merge(p) \/ StopFails(p) \/ Flush(p) \/ Refresh(p) \/ UpdateCache(p)
    \/ ListIds(p) \/ Erase(p)

Next ==
    \/ \E p \in Procs : Start(p) \/ Proceed(p) \/ RequestFails(p)
    \/ \E i \in Ids : BillingChanges(i)
    \/ Expires

Spec == Init /\ [][Next]_vars

-----------------------------------------------------------------------------
(* Properties *)

\* Whoever was told the terms are accepted is in Postgres, even if the sign-up
\* itself never got there, and whatever Redis does meanwhile (accept_terms).
AcceptedIsStored ==
    [][\A p \in Procs : Answer(p) /\ req[p].kind = "terms" => req[p].id \in Stored]_vars

\* Nobody becomes Pro but through billing: no stale copy, retry or merge makes
\* an account Pro that Stripe never did (sync_subscription: "the browser never
\* decides who is Pro").
PlanIsNeverInvented ==
    \A i \in Ids : "pro" \in {rows[i].plan, byId[i].plan} => i \in everPro

\* The plan of a stored account is only changed by billing.
PlanStays == \A i \in Stored : rows'[i].plan # rows[i].plan => req' = req

\* Without Redis, however requests and billing overlap, no request writes the
\* plan it once loaded: UsersRepository.save writes an attached object column
\* by column.
PlanIsStripesUncached == [][~redis => PlanStays]_vars

\* The same with Redis (sync_subscription: "Stripe is the source of truth").
PlanIsStripes == [][PlanStays]_vars

\* An account whose deletion was confirmed is gone ("Permanently deletes a
\* user and everything that belongs to them").
DeletionIsPermanent ==
    [][\A p \in Procs : Answer(p) /\ req[p].kind = "delete" => req[p].id \notin Stored']_vars
=============================================================================
