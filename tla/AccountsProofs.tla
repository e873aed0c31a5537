--------------------------- MODULE AccountsProofs ---------------------------
(***************************************************************************)
(* What holds of an account for any number of requests, ids and details,   *)
(* with Redis and without it: the types, that nobody becomes Pro but       *)
(* through billing, that accepted terms are stored and, without Redis,     *)
(* that no request writes a plan.                                          *)
(***************************************************************************)
EXTENDS Accounts, TLAPS

\* A row that says Pro is of an id that billing made Pro.
Earned(i, row) == row.plan = "pro" => i \in everPro

RowsInv ==
    /\ rows \in [Ids -> Row]
    /\ everPro \subseteq Ids /\ signedIn \subseteq Ids
    /\ \A i \in Ids : Earned(i, rows[i])
CacheInv ==
    /\ redis \in BOOLEAN
    /\ byId \in [Ids -> Row] /\ byEmail \in EmailEntry
    /\ \A i \in Ids : Earned(i, byId[i])
    /\ Earned(byEmail.id, byEmail.row)
    /\ byEmail.row.stored => byEmail.id \in Ids

\* What a request is and knows wherever it is.
Sane(r) ==
    /\ r.pc # "idle" => r.id \in Ids
    /\ Earned(r.id, r.mem) /\ Earned(r.id, r.loaded)
    /\ r.pc = "get" /\ SignsIn(r) => r.loaded = NoRow
    /\ r.pc \in {"fill", "merge", "flush"} => r.mem.stored
    /\ r.dirty = "write" /\ r.pc # "answer" => r.mem.stored
    /\ r.dirty # "no" => r.pc \in {"refresh", "publish", "exit", "answer"}
    /\ r.dirty # "no" /\ r.pc # "answer" => r.scope # "none"
    /\ r.pc = "erase" => r.scope # "none"
    /\ r.pc \in {"listIds", "erase"} => r.kind = "delete"
    /\ r.dirty = "erase" => r.kind = "delete"
\* The acceptance of the terms commits, a deletion never does, and nothing
\* that was stored is lost.
Scoped(r) ==
    /\ r.loaded.stored => r.id \in Stored
    /\ r.kind = "terms" /\ r.pc # "answer" => r.scope = "outer"
    /\ r.kind = "terms" /\ r.pc \in {"refresh", "publish", "exit", "answer"} =>
          r.id \in Stored \/ (r.dirty = "write" /\ r.pc # "answer")
    /\ r.kind = "delete" => r.scope # "outer"
\* Without Redis the object at hand has the plan the session loaded, and once
\* flushed the plan of the row.
Own(r) ==
    /\ r.pc \in {"fill", "merge", "flush"} /\ r.loaded.stored => r.mem.plan = r.loaded.plan
    /\ r.pc = "fill" => r.loaded.stored
    /\ r.pc = "merge" => r.loaded.stored \/ SignsIn(r)
    /\ r.dirty = "write" /\ r.pc # "answer" /\ r.id \in Stored =>
          r.mem.plan = rows[r.id].plan
RequestOK(r) == r \in Request /\ Sane(r) /\ Scoped(r) /\ (~redis => Own(r))
RequestInv ==
    /\ req \in [Procs -> Request]
    /\ \A p \in Procs : RequestOK(req[p])

\* One request at a time has uncommitted writes.
LockInv == \A p, q \in Procs : req[p].dirty # "no" /\ req[q].dirty # "no" => p = q

\* Without Redis nobody else knows the id of a sign-up under way.
Fresh(r) == SignsIn(r) /\ r.pc \in {"get", "merge", "flush"} /\ ~r.loaded.stored
FreshInv ==
    ~redis => \A p \in Procs : Fresh(req[p]) =>
        /\ req[p].id \notin Stored \cup signedIn
        /\ \A q \in Procs \ {p} : req[q].id # req[p].id
IInv == RowsInv /\ CacheInv /\ RequestInv /\ LockInv /\ FreshInv

-----------------------------------------------------------------------------
(* The building blocks *)

\* Records the code starts from are well typed, and nobody's.
LEMMA ConstantTypes ==
  /\ NoRow \in Row /\ NewRow \in Row /\ NoEntry \in EmailEntry
  /\ ~NoRow.stored /\ NewRow.stored /\ NoRow.plan = "free" /\ NewRow.plan = "free"
  /\ NoId \notin Ids /\ IdleRequest \in Request
<1>1. NoRow \in Row /\ ~NoRow.stored /\ NoRow.plan = "free"
  BY DetailsAssumption DEF NoRow, Row
<1>2. NewRow \in Row /\ NewRow.stored /\ NewRow.plan = "free"
  BY <1>1 DEF NewRow, NoRow, Row
<1>3. NoId \notin Ids /\ NoEntry \in EmailEntry
  BY <1>1, BoundsAssumption DEF NoId, Ids, NoEntry, EmailEntry
<1>4. IdleRequest \in Request
  BY <1>1 DEF IdleRequest, Request, Locations, AllKinds
<1> QED
  BY <1>1, <1>2, <1>3, <1>4

LEMMA IdleIsOK == RequestOK(IdleRequest) /\ ~Fresh(IdleRequest)
BY ConstantTypes
   DEF RequestOK, Sane, Scoped, Own, Earned, Fresh, SignsIn, IdleRequest

\* A request that moves to a sound record, while no row changes, leaves all of
\* them sound; another takes no lock, or finds it free.
LEMMA MoveStep ==
  ASSUME IInv, NEW p \in Procs, NEW r, Continue(p, r), RequestOK(r),
         UNCHANGED <<rows, redis, history>>,
         r.dirty # "no" => req[p].dirty # "no" \/ LockFree(p),
         ~redis => \/ r.id = req[p].id /\ (Fresh(r) => Fresh(req[p]))
                   \/ r.id \in Stored \cup signedIn \cup {NoId} /\ ~Fresh(r)
                   \/ r.id \in NewIds
  PROVE  RowsInv' /\ RequestInv' /\ LockInv' /\ FreshInv'
<1>1. req \in [Procs -> Request] /\ req' = [req EXCEPT ![p] = r] /\ r \in Request
  BY DEF IInv, RequestInv, Continue, RequestOK
<1>2. RowsInv' /\ Stored' = Stored
  BY DEF IInv, RowsInv, Earned, history, Stored
<1>3. RequestInv'
  <2>1. \A q \in Procs : RequestOK(req'[q])
    BY <1>1 DEF IInv, RequestInv
  <2>2. ASSUME NEW q \in Procs PROVE RequestOK(req[q])'
    BY <1>1, <1>2, <2>1 DEF RequestOK, Sane, Scoped, Own, Earned, history, SignsIn
  <2> QED
    BY <1>1, <2>2 DEF RequestInv
<1>4. LockInv'
  BY <1>1 DEF IInv, LockInv, LockFree
<1>5. FreshInv'
  <2> SUFFICES ASSUME ~redis', NEW a \in Procs, Fresh(req[a])'
               PROVE  /\ req'[a].id \notin Stored \cup signedIn
                      /\ \A q \in Procs \ {a} : req'[q].id # req'[a].id
    BY <1>2 DEF FreshInv, history
  <2>1. ~redis /\ Fresh(req'[a])
    BY DEF Fresh, SignsIn
  <2> DEFINE known == a # p \/ r.id \notin NewIds
  <2>2. ASSUME known PROVE Fresh(req[a]) /\ req'[a].id = req[a].id
    BY <1>1, <2>1, <2>2, ConstantTypes
  <2>3. CASE known
    <3>1. req[a].id \in Ids
      BY <2>2, <2>3 DEF IInv, RequestInv, RequestOK, Sane, Fresh
    <3>2. /\ req[a].id \notin Stored \cup signedIn
          /\ \A q \in Procs \ {a} : req[q].id # req[a].id
      BY <2>1, <2>2, <2>3 DEF IInv, FreshInv
    <3> QED
      BY <1>1, <2>1, <2>2, <2>3, <3>1, <3>2, ConstantTypes DEF NewIds
  <2>4. CASE ~known
    BY <1>1, <2>4 DEF NewIds, Stored
  <2> QED
    BY <2>3, <2>4
<1> QED
  BY <1>2, <1>3, <1>4, <1>5

\* So does one that ends.
LEMMA EndStep ==
  ASSUME IInv, NEW p \in Procs, End(p), UNCHANGED <<rows, redis, history>>
  PROVE  RowsInv' /\ RequestInv' /\ LockInv' /\ FreshInv'
<1>1. IdleRequest.dirty = "no" /\ IdleRequest.id = NoId
  BY DEF IdleRequest
<1> QED
  BY <1>1, IdleIsOK, MoveStep DEF End

\* A commit stores a row that has the plan it had, if it was there.
LEMMA CommitStep ==
  ASSUME IInv, NEW p \in Procs, NEW r, Continue(p, r), NEW row \in Row, LockFree(p),
         req[p].pc # "idle", UNCHANGED <<redis, history>>,
         rows' = [rows EXCEPT ![req[p].id] = row],
         row.stored, Earned(req[p].id, row),
         r \in Request, Sane(r), r.id = req[p].id, r.dirty = "no",
         r.pc \in {"refresh", "answer"}, r.kind = req[p].kind,
         r.pc # "answer" => r.kind # "terms", r.kind = "delete" => r.scope # "outer"
  PROVE  RowsInv' /\ RequestInv' /\ LockInv' /\ FreshInv'
<1> DEFINE i == req[p].id
<1>1. req \in [Procs -> Request] /\ req' = [req EXCEPT ![p] = r] /\ i \in Ids
  BY DEF IInv, RequestInv, Continue, RequestOK, Sane
<1>2. RowsInv'
  BY <1>1 DEF IInv, RowsInv, Earned, history
<1>3. Stored' = Stored \cup {i} /\ \A j \in Ids \ {i} : rows'[j] = rows[j]
  BY <1>1, <1>2 DEF IInv, RowsInv, Stored
<1>4. RequestInv'
  <2>1. RequestOK(req[p])'
    BY <1>1, <1>3 DEF RequestOK, Sane, Scoped, Own, Earned, history, SignsIn
  <2>2. ASSUME NEW q \in Procs, q # p PROVE RequestOK(req[q])'
    <3>1. RequestOK(req[q]) /\ req'[q] = req[q] /\ req[q].dirty = "no"
      BY <1>1, <2>2 DEF IInv, RequestInv, LockFree
    <3> QED
      BY <3>1, <1>3 DEF RequestOK, Sane, Scoped, Own, Earned, history, SignsIn
  <2> QED
    BY <1>1, <2>1, <2>2 DEF RequestInv
<1>5. LockInv'
  BY <1>1 DEF IInv, LockInv, LockFree
<1>6. FreshInv'
  <2> SUFFICES ASSUME ~redis, NEW a \in Procs, Fresh(req'[a])
               PROVE  /\ req'[a].id \notin Stored' \cup signedIn
                      /\ \A q \in Procs \ {a} : req'[q].id # req'[a].id
    BY DEF FreshInv, history, Fresh, SignsIn
  <2>1. a # p /\ req'[a] = req[a]
    BY <1>1 DEF Fresh
  <2>2. /\ req[a].id \notin Stored \cup signedIn
        /\ \A q \in Procs \ {a} : req[q].id # req[a].id
    BY <2>1 DEF IInv, FreshInv
  <2> QED
    BY <1>1, <1>3, <2>1, <2>2
<1> QED
  BY <1>2, <1>4, <1>5, <1>6

\* The caches stay sound while no account becomes Pro.
LEMMA QuietCache ==
  ASSUME CacheInv, UNCHANGED <<cached, everPro>>
  PROVE  CacheInv'
BY DEF CacheInv, cached, Earned

LEMMA PublishedStep ==
  ASSUME IInv, NEW p \in Procs, Published(p), req[p].pc # "idle",
         UNCHANGED <<redis, everPro>>
  PROVE  CacheInv'
<1>1. RequestOK(req[p]) /\ req[p].id \in Ids /\ req[p].mem \in Row
  BY DEF IInv, RequestInv, RequestOK, Sane, Request
<1>2. ASSUME NEW row \in Row, Earned(req[p].id, row)
      PROVE  LET f == [byId EXCEPT ![req[p].id] = row]
             IN f \in [Ids -> Row] /\ \A i \in Ids : Earned(i, f[i])
  BY <1>1, <1>2 DEF IInv, CacheInv, Earned
<1>3. byId' \in [Ids -> Row] /\ \A i \in Ids : Earned(i, byId'[i])
  BY <1>1, <1>2, ConstantTypes DEF Published, RequestOK, Sane, Earned, IInv, CacheInv
<1>4. /\ byEmail' \in EmailEntry /\ Earned(byEmail'.id, byEmail'.row)
      /\ byEmail'.row.stored => byEmail'.id \in Ids
  BY <1>1, ConstantTypes
     DEF Published, RequestOK, Sane, Earned, IInv, CacheInv, EmailEntry, NoEntry
<1> QED
  BY <1>3, <1>4 DEF IInv, CacheInv, Earned

-----------------------------------------------------------------------------
(* Where a request goes next *)

\* The request record of a process, as the invariant describes it.
LEMMA ReqOK ==
  ASSUME IInv, NEW p \in Procs
  PROVE  req[p] \in Request /\ RequestOK(req[p])
BY DEF IInv, RequestInv, RequestOK

\* Having the user, a request goes on soundly: from the cache when there is
\* one, else with a row that is loaded.
LEMMA AfterReadOK ==
  ASSUME NEW r \in Request, Sane([r EXCEPT !.pc = "fill"]), Scoped(r),
         r.pc # "answer", r.dirty = "no",
         ~redis => r.loaded.stored /\ r.mem.plan = r.loaded.plan
  PROVE  /\ RequestOK(AfterRead(r)) /\ AfterRead(r).id = r.id
         /\ AfterRead(r).dirty = "no" /\ (~redis => ~Fresh(AfterRead(r)))
<1>1. CASE r.kind = "patch" /\ r.scope = "none"
  <2> DEFINE s == InScope([r EXCEPT !.mem = NoRow, !.pc = "get"])
  <2>1. s \in Request /\ s.id = r.id /\ s.dirty = "no"
    BY ConstantTypes DEF InScope, ScopeFor, Request, Locations
  <2>2. Sane(s) /\ Scoped(s) /\ Own(s) /\ ~Fresh(s)
    BY <1>1, ConstantTypes
       DEF InScope, Request, Sane, Scoped, Own, Fresh, SignsIn, Earned
  <2>3. AfterRead(r) = s
    BY <1>1 DEF AfterRead
  <2> QED
    BY <2>1, <2>2, <2>3 DEF RequestOK
<1>2. CASE r.kind = "google"
  <2> DEFINE s == InScope([r EXCEPT !.pc = "merge"])
  <2>1. s \in Request /\ s.id = r.id /\ s.dirty = "no"
    BY DEF InScope, ScopeFor, Request, Locations
  <2>2. Sane(s) /\ Scoped(s) /\ (~redis => Own(s) /\ ~Fresh(s))
    BY <1>2 DEF InScope, Request, Sane, Scoped, Own, Fresh, SignsIn, Earned
  <2>3. AfterRead(r) = s
    BY <1>2 DEF AfterRead
  <2> QED
    BY <2>1, <2>2, <2>3 DEF RequestOK
<1>3. CASE r.kind = "magic"
  <2> DEFINE s == Done(r)
  <2>1. s \in Request /\ s.id = r.id /\ s.dirty = "no"
    BY ConstantTypes DEF Done, IdleRequest, Request, Locations
  <2>2. Sane(s) /\ Scoped(s) /\ Own(s) /\ ~Fresh(s)
    BY <1>3, ConstantTypes
       DEF Done, IdleRequest, Request, Sane, Scoped, Own, Fresh, SignsIn, Earned
  <2>3. AfterRead(r) = s
    BY <1>3 DEF AfterRead
  <2> QED
    BY <2>1, <2>2, <2>3 DEF RequestOK
<1>4. CASE ~(r.kind = "patch" /\ r.scope = "none") /\ r.kind \notin {"google", "magic"}
  <2> DEFINE s == [r EXCEPT !.pc = "merge"]
  <2>1. s \in Request /\ s.id = r.id /\ s.dirty = "no"
    BY DEF Request, Locations
  <2>2. Sane(s) /\ Scoped(s) /\ (~redis => Own(s) /\ ~Fresh(s))
    BY <1>4 DEF Request, Sane, Scoped, Own, Fresh, SignsIn, Earned
  <2>3. AfterRead(r) = s
    BY <1>4 DEF AfterRead
  <2> QED
    BY <2>1, <2>2, <2>3 DEF RequestOK
<1> QED
  BY <1>1, <1>2, <1>3, <1>4

\* An answered request remembers who it is for, and whether it holds a lock.
LEMMA DoneOK ==
  ASSUME NEW r \in Request, r.pc # "idle", r.id \in Ids,
         r.dirty = "erase" => r.kind = "delete"
  PROVE  /\ Done(r) \in Request /\ Sane(Done(r)) /\ ~Fresh(Done(r)) /\ Done(r).id = r.id
         /\ Done(r).dirty = r.dirty /\ Done(r).kind = r.kind
         /\ Done(r).pc = "answer" /\ Done(r).scope = "none"
         /\ (r.kind = "terms" => r.id \in Stored) => RequestOK(Done(r))
<1> DEFINE s == Done(r)
<1>1. s \in Request /\ s.id = r.id /\ s.dirty = r.dirty /\ s.kind = r.kind /\ s.pc = "answer"
  BY ConstantTypes DEF Done, IdleRequest, Request, Locations
<1>2. ~s.loaded.stored /\ ~s.mem.stored /\ s.mem.plan = "free" /\ s.loaded.plan = "free"
      /\ s.scope = "none"
  BY ConstantTypes DEF Done, IdleRequest
<1>3. /\ Sane(s) /\ Own(s) /\ ~Fresh(s)
      /\ (r.kind = "terms" => r.id \in Stored) => Scoped(s)
  BY <1>1, <1>2 DEF Sane, Scoped, Own, Fresh, Earned
<1> HIDE DEF s
<1> QED
  BY <1>1, <1>2, <1>3 DEF RequestOK, s

-----------------------------------------------------------------------------
(* Requests start *)

LEMMA StartSignInStep ==
  ASSUME IInv, NEW p \in Procs, NEW kind \in {"google", "magic"}, NEW i \in Ids,
         StartSignIn(p, kind, i)
  PROVE  IInv'
<1> DEFINE r == [IdleRequest EXCEPT !.pc = "get", !.kind = kind, !.id = i]
<1>1. RequestOK(r) /\ r.id \in NewIds /\ r.dirty = "no"
  BY ConstantTypes
     DEF IdleRequest, Request, Locations, AllKinds, RequestOK, Sane, Scoped, Own, Earned,
         SignsIn, StartSignIn
<1>2. RowsInv' /\ RequestInv' /\ LockInv' /\ FreshInv'
  BY <1>1, MoveStep DEF StartSignIn, cached
<1> QED
  BY <1>2, QuietCache DEF IInv, StartSignIn, history

\* A request of a browser that has a session.
LEMMA StartEditStep ==
  ASSUME IInv, NEW p \in Procs, NEW kind \in {"patch", "terms", "calendar"}, NEW i \in Ids,
         StartEdit(p, kind, i)
  PROVE  IInv'
<1> DEFINE r == [IdleRequest EXCEPT !.pc = "get", !.kind = kind, !.id = i]
<1> DEFINE s == IF kind = "terms" THEN InScope(r) ELSE r
<1>1. r.inTx = FALSE /\ r \in Request
  BY ConstantTypes DEF IdleRequest, Request, Locations, AllKinds
<1>2. s \in Request /\ s.id = i /\ s.dirty = "no" /\ ~Fresh(s)
  BY <1>1 DEF InScope, ScopeFor, Request, Fresh, SignsIn, IdleRequest
<1>3. Sane(s) /\ Scoped(s) /\ Own(s)
  BY <1>1, ConstantTypes
     DEF InScope, ScopeFor, IdleRequest, Sane, Scoped, Own, Earned, SignsIn, Request
<1>4. RowsInv' /\ RequestInv' /\ LockInv' /\ FreshInv'
  BY <1>2, <1>3, MoveStep DEF StartEdit, cached, RequestOK
<1> QED
  BY <1>4, QuietCache DEF IInv, StartEdit, history

LEMMA StartDeleteStep ==
  ASSUME IInv, NEW p \in Procs, NEW i \in Ids, StartDelete(p, i)
  PROVE  IInv'
<1> DEFINE r == [IdleRequest EXCEPT !.pc = "get", !.kind = "delete", !.id = i]
<1>1. RequestOK(r) /\ r.id \in signedIn /\ r.dirty = "no" /\ ~Fresh(r)
  BY ConstantTypes
     DEF IdleRequest, Request, Locations, AllKinds, RequestOK, Sane, Scoped, Own, Earned,
         SignsIn, StartDelete, Fresh
<1>2. RowsInv' /\ RequestInv' /\ LockInv' /\ FreshInv'
  BY <1>1, MoveStep DEF StartDelete, cached
<1> QED
  BY <1>2, QuietCache DEF IInv, StartDelete, history

-----------------------------------------------------------------------------
(* Reading *)

\* What Get looks at and what it makes of it.
HitOf(r) == IF SignsIn(r) THEN byEmail ELSE [id |-> r.id, row |-> byId[r.id]]
WithHit(r) == [r EXCEPT !.id = HitOf(r).id, !.mem = HitOf(r).row]
RowFor(r, i) == IF r.loaded.stored THEN r.loaded ELSE rows[i]
WithRow(r, i) == [r EXCEPT !.id = i, !.inTx = TRUE, !.loaded = RowFor(r, i),
                           !.mem = RowFor(r, i), !.pc = "fill"]
WithNew(r) == InScope([r EXCEPT !.inTx = TRUE, !.mem = NewRow, !.pc = "merge"])

\* A request that read the row has it loaded.
LEMMA FoundOK ==
  ASSUME IInv, NEW p \in Procs, At(p, "get"), NEW i \in Stored,
         ~SignsIn(req[p]) => i = req[p].id
  PROVE  LET s == WithRow(req[p], i)
         IN RequestOK(s) /\ ~Fresh(s) /\ s.id = i /\ s.dirty = "no"
<1> DEFINE r == req[p]
<1> DEFINE row == RowFor(r, i)
<1> DEFINE s == WithRow(r, i)
<1>1. r \in Request /\ RequestOK(r) /\ r.pc = "get" /\ r.dirty = "no"
  BY ReqOK DEF At, RequestOK, Sane, Request
<1>2. SignsIn(r) => ~r.loaded.stored
  BY <1>1, ConstantTypes DEF RequestOK, Sane
<1>3. i \in Ids /\ rows[i] \in Row /\ rows[i].stored /\ Earned(i, rows[i])
  BY DEF Stored, IInv, RowsInv
<1>4. row \in Row /\ row.stored /\ Earned(i, row)
  BY <1>1, <1>2, <1>3 DEF RequestOK, Sane, Request, RowFor
<1> HIDE DEF row
<1>5. s = [r EXCEPT !.id = i, !.inTx = TRUE, !.loaded = row, !.mem = row, !.pc = "fill"]
  BY DEF row, WithRow
<1> HIDE DEF s
<1>6. s \in Request
  BY <1>1, <1>3, <1>4, <1>5 DEF Request, Locations
<1>7. Sane(s) /\ Scoped(s) /\ Own(s) /\ ~Fresh(s) /\ s.id = i /\ s.dirty = "no"
  BY <1>1, <1>3, <1>4, <1>5 DEF RequestOK, Sane, Scoped, Own, Fresh, Request, SignsIn
<1> QED
  BY <1>6, <1>7 DEF RequestOK, s

\* Nobody has the email yet: the sign-up goes on with a new object.
LEMMA NotFoundOK ==
  ASSUME IInv, NEW p \in Procs, At(p, "get"), SignsIn(req[p])
  PROVE  LET s == WithNew(req[p])
         IN RequestOK(s) /\ Fresh(req[p]) /\ s.id = req[p].id /\ s.dirty = "no"
<1> DEFINE r == req[p]
<1> DEFINE s == WithNew(r)
<1>1. r \in Request /\ RequestOK(r) /\ r.pc = "get" /\ r.dirty = "no" /\ r.loaded = NoRow
  BY ReqOK DEF At, RequestOK, Sane, Request
<1>2. s \in Request /\ s.id = r.id /\ s.dirty = "no"
  BY <1>1, ConstantTypes DEF InScope, ScopeFor, Request, Locations, WithNew
<1>3. Sane(s) /\ Scoped(s) /\ Own(s) /\ Fresh(r)
  BY <1>1, ConstantTypes
     DEF WithNew, InScope, RequestOK, Sane, Scoped, Own, Fresh, Request, SignsIn, Earned
<1> QED
  BY <1>2, <1>3 DEF RequestOK

\* A cached copy is of an account that may have it.
LEMMA HitOK ==
  ASSUME IInv, NEW p \in Procs, At(p, "get"), redis, HitOf(req[p]).row.stored
  PROVE  LET r == WithHit(req[p])
         IN /\ r \in Request /\ r.pc = "get" /\ r.dirty = "no"
            /\ Scoped(r) /\ Sane([r EXCEPT !.pc = "fill"])
<1> DEFINE hit == HitOf(req[p])
<1> DEFINE r == WithHit(req[p])
<1>1. req[p] \in Request /\ RequestOK(req[p]) /\ req[p].pc = "get" /\ req[p].dirty = "no"
  BY ReqOK DEF At, RequestOK, Sane, Request
<1>2. req[p].id \in Ids /\ (SignsIn(req[p]) => req[p].loaded = NoRow)
  BY <1>1 DEF RequestOK, Sane
<1>3. hit.id \in Ids /\ hit.row \in Row /\ Earned(hit.id, hit.row)
  BY <1>2 DEF IInv, CacheInv, EmailEntry, HitOf
<1>4. ~SignsIn(req[p]) => hit.id = req[p].id
  BY DEF HitOf
<1>5. hit.row.stored
  OBVIOUS
<1> HIDE DEF hit
<1>6. r = [req[p] EXCEPT !.id = hit.id, !.mem = hit.row]
  BY DEF hit, WithHit
<1> HIDE DEF r
<1>7. r \in Request /\ r.pc = "get" /\ r.dirty = "no"
  BY <1>1, <1>3, <1>6 DEF Request
<1>8. Scoped(r)
  BY <1>1, <1>2, <1>4, <1>6, ConstantTypes DEF RequestOK, Scoped, Request, SignsIn
<1>9. Sane([r EXCEPT !.pc = "fill"])
  BY <1>1, <1>2, <1>3, <1>4, <1>5, <1>6, ConstantTypes
     DEF RequestOK, Sane, Request, SignsIn, Earned
<1> QED
  BY <1>7, <1>8, <1>9 DEF r

LEMMA GetStep ==
  ASSUME IInv, NEW p \in Procs, Get(p)
  PROVE  IInv'
<1> DEFINE r == req[p]
<1> DEFINE Moved == RowsInv' /\ RequestInv' /\ LockInv' /\ FreshInv'
<1>1. At(p, "get") /\ UNCHANGED <<rows, redis, history>> /\ UNCHANGED cached
  BY DEF Get, cached
<1>2. ASSUME redis, HitOf(r).row.stored, Continue(p, AfterRead(WithHit(r)))
      PROVE  Moved
  <2>1. LET s == WithHit(r)
        IN /\ s \in Request /\ s.pc = "get" /\ s.dirty = "no"
           /\ Scoped(s) /\ Sane([s EXCEPT !.pc = "fill"])
    BY <1>1, <1>2, HitOK
  <2>2. RequestOK(AfterRead(WithHit(r))) /\ AfterRead(WithHit(r)).dirty = "no"
    BY <2>1, <1>2, AfterReadOK
  <2> QED
    BY <2>2, <1>1, <1>2, MoveStep
<1>3. ASSUME NEW i \in Stored, ~SignsIn(r) => i = r.id, Continue(p, WithRow(r, i))
      PROVE  Moved
  <2>1. LET s == WithRow(r, i)
        IN RequestOK(s) /\ ~Fresh(s) /\ s.id = i /\ s.dirty = "no"
    BY <1>1, <1>3, FoundOK
  <2> QED
    BY <2>1, <1>1, <1>3, MoveStep
<1>4. ASSUME SignsIn(r), Continue(p, WithNew(r))
      PROVE  Moved
  <2>1. LET s == WithNew(r)
        IN RequestOK(s) /\ Fresh(r) /\ s.id = r.id /\ s.dirty = "no"
    BY <1>1, <1>4, NotFoundOK
  <2> QED
    BY <2>1, <1>1, <1>4, MoveStep
<1>5. ASSUME End(p)
      PROVE  Moved
  BY <1>1, <1>5, EndStep
<1>6. \/ redis /\ HitOf(r).row.stored /\ Continue(p, AfterRead(WithHit(r)))
      \/ \E i \in Stored : (~SignsIn(r) => i = r.id) /\ Continue(p, WithRow(r, i))
      \/ SignsIn(r) /\ Continue(p, WithNew(r))
      \/ End(p)
  BY Zenon DEF Get, HitOf, WithHit, RowFor, WithRow, WithNew
<1>7. Moved
  BY <1>2, <1>3, <1>4, <1>5, <1>6
<1> QED
  BY <1>1, <1>7, QuietCache DEF IInv, history, cached

LEMMA FillCacheStep ==
  ASSUME IInv, NEW p \in Procs, FillCache(p)
  PROVE  IInv'
<1> DEFINE r == req[p]
<1>1. r \in Request /\ RequestOK(r) /\ r.pc = "fill" /\ r.dirty = "no"
  BY ReqOK DEF FillCache, At, RequestOK, Sane, Request
<1>2. [r EXCEPT !.pc = "fill"] = r
  BY <1>1 DEF Request
<1>3. /\ RequestOK(AfterRead(r)) /\ AfterRead(r).id = r.id
      /\ AfterRead(r).dirty = "no" /\ (~redis => ~Fresh(AfterRead(r)))
  BY <1>1, <1>2, AfterReadOK DEF RequestOK, Own
<1>4. RowsInv' /\ RequestInv' /\ LockInv' /\ FreshInv'
  BY <1>3, MoveStep DEF FillCache
<1>5. CacheInv'
  BY <1>1, PublishedStep DEF FillCache, history
<1> QED
  BY <1>4, <1>5 DEF IInv

-----------------------------------------------------------------------------
(* Saving and deleting *)

LEMMA MergeStep ==
  ASSUME IInv, NEW p \in Procs, Merge(p)
  PROVE  IInv'
<1> DEFINE r == req[p]
<1> DEFINE loaded == IF r.loaded.stored THEN r.loaded ELSE rows[r.id]
<1>1. r \in Request /\ RequestOK(r) /\ r.pc = "merge" /\ r.dirty = "no" /\ r.id \in Ids
  BY ReqOK DEF Merge, At, RequestOK, Sane, Request
<1>2. PICK row \in Edited(r) :
        Continue(p, [r EXCEPT !.mem = row, !.inTx = TRUE, !.pc = "flush", !.loaded = loaded])
  BY DEF Merge
<1> DEFINE s == [r EXCEPT !.mem = row, !.inTx = TRUE, !.pc = "flush", !.loaded = loaded]
<1>3. row \in Row /\ row.stored = r.mem.stored /\ row.plan = r.mem.plan
  BY <1>1 DEF Edited, Request, Row
<1>4. loaded \in Row /\ Earned(r.id, loaded) /\ (loaded.stored => r.id \in Stored)
  BY <1>1 DEF IInv, RowsInv, RequestOK, Sane, Scoped, Request, Stored
<1>5. ASSUME ~redis PROVE r.loaded.stored \/ (Fresh(r) /\ ~loaded.stored)
  BY <1>1, <1>4, <1>5 DEF RequestOK, Own, Fresh, IInv, FreshInv
<1> DEFINE same == r.loaded.stored => loaded = r.loaded
<1>6. same
  OBVIOUS
<1> HIDE DEF loaded, same
<1>7. s \in Request /\ s.id = r.id /\ s.dirty = "no"
  BY <1>1, <1>3, <1>4 DEF Request, Locations
<1>8. Sane(s) /\ Scoped(s)
  BY <1>1, <1>3, <1>4 DEF RequestOK, Sane, Scoped, Request, SignsIn, Earned
<1>9. ~redis => Own(s) /\ (Fresh(s) => Fresh(r))
  BY <1>1, <1>3, <1>5, <1>6 DEF RequestOK, Own, Fresh, Request, SignsIn, same
<1>10. RowsInv' /\ RequestInv' /\ LockInv' /\ FreshInv'
  <2>1. RequestOK(s)
    BY <1>7, <1>8, <1>9 DEF RequestOK
  <2>2. UNCHANGED <<rows, redis, history>>
    BY DEF Merge, cached
  <2> HIDE DEF s
  <2>3. Continue(p, s)
    BY <1>2 DEF s
  <2> QED
    BY <2>1, <2>2, <2>3, <1>7, <1>9, MoveStep
<1> QED
  BY <1>10, QuietCache DEF IInv, Merge, history

LEMMA StopFailsStep ==
  ASSUME IInv, NEW p \in Procs, StopFails(p)
  PROVE  IInv'
<1> DEFINE r == req[p]
<1> DEFINE s == [r EXCEPT !.mem = NoRow, !.loaded = NoRow, !.pc = "listIds"]
<1>1. r \in Request /\ RequestOK(r) /\ r.dirty = "no" /\ r.id \in Ids /\ r.kind = "delete"
  BY ReqOK DEF StopFails, At, RequestOK, Sane, Request
<1>2. s \in Request /\ s.id = r.id /\ s.dirty = "no" /\ ~Fresh(s)
  BY <1>1, ConstantTypes DEF Request, Locations, Fresh
<1>3. Sane(s) /\ Scoped(s) /\ Own(s)
  BY <1>1, ConstantTypes DEF RequestOK, Sane, Scoped, Own, Request, SignsIn, Earned
<1>4. RowsInv' /\ RequestInv' /\ LockInv' /\ FreshInv'
  BY <1>2, <1>3, MoveStep DEF StopFails, cached, RequestOK
<1> QED
  BY <1>4, QuietCache DEF IInv, StopFails, history

\* What UPDATE or INSERT writes is a row that has, without Redis, the plan the
\* row had.
LEMMA WrittenOK ==
  ASSUME IInv, NEW p \in Procs, At(p, "flush"), ~Conflict(req[p])
  PROVE  LET r == req[p]
             row == Written(r)
         IN /\ row \in Row /\ row.stored /\ Earned(r.id, row)
            /\ ~redis /\ r.id \in Stored => row.plan = rows[r.id].plan
<1> DEFINE r == req[p]
<1> DEFINE row == Written(r)
<1>1. r \in Request /\ RequestOK(r) /\ r.pc = "flush" /\ r.id \in Ids
  BY ReqOK DEF At, RequestOK, Sane
<1>2. rows[r.id] \in Row /\ Earned(r.id, rows[r.id])
  BY <1>1 DEF IInv, RowsInv
<1>3. CASE ~r.loaded.stored
  BY <1>1, <1>3 DEF Written, Conflict, RequestOK, Sane, Request
<1>4. CASE r.loaded.stored
  <2>1. r.id \in Stored /\ rows[r.id].stored
    BY <1>4 DEF Conflict, Stored
  <2>2. /\ row \in Row /\ row.stored = rows[r.id].stored
        /\ row.plan = Changed(r.mem.plan, r.loaded.plan, rows[r.id].plan)
    BY <1>1, <1>2, <1>4 DEF Written, Changed, Request, Row
  <2> HIDE DEF row
  <2>3. Earned(r.id, row)
    BY <1>1, <1>2, <2>2 DEF Changed, RequestOK, Sane, Earned
  <2>4. ~redis => row.plan = rows[r.id].plan
    BY <1>1, <1>4, <2>2 DEF Changed, RequestOK, Own
  <2> QED
    BY <2>1, <2>2, <2>3, <2>4 DEF row
<1> QED
  BY <1>3, <1>4

LEMMA FlushStep ==
  ASSUME IInv, NEW p \in Procs, Flush(p)
  PROVE  IInv'
<1> DEFINE r == req[p]
<1> DEFINE Moved == RowsInv' /\ RequestInv' /\ LockInv' /\ FreshInv'
<1> DEFINE s == [r EXCEPT !.mem = Written(r), !.loaded = NoRow, !.dirty = "write", !.pc = "refresh"]
<1>1. /\ r \in Request /\ RequestOK(r) /\ r.pc = "flush" /\ r.dirty = "no"
      /\ r.id \in Ids /\ r.mem.stored
  BY ReqOK DEF Flush, At, RequestOK, Sane, Request
<1>2. UNCHANGED <<redis, history>> /\ UNCHANGED cached
  BY DEF Flush, cached
<1>3. ASSUME r.mem = r.loaded, Continue(p, [r EXCEPT !.pc = "refresh"]), UNCHANGED rows
      PROVE  Moved
  <2> DEFINE u == [r EXCEPT !.pc = "refresh"]
  <2>1. u \in Request /\ u.id = r.id /\ u.dirty = "no" /\ ~Fresh(u)
    BY <1>1 DEF Request, Locations, Fresh
  <2>2. Sane(u) /\ Scoped(u) /\ Own(u)
    BY <1>1, <1>3 DEF RequestOK, Sane, Scoped, Own, Request
  <2>3. RequestOK(u)
    BY <2>1, <2>2 DEF RequestOK
  <2> QED
    BY <2>1, <2>3, <1>2, <1>3, MoveStep
<1>4. ASSUME End(p), UNCHANGED rows
      PROVE  Moved
  BY <1>2, <1>4, EndStep
<1>5. ASSUME LockFree(p), ~Conflict(r), ~CommitsAtOnce(r), Continue(p, s), UNCHANGED rows
      PROVE  Moved
  <2> DEFINE row == Written(r)
  <2>1. /\ row \in Row /\ row.stored /\ Earned(r.id, row)
        /\ ~redis /\ r.id \in Stored => row.plan = rows[r.id].plan
    BY <1>5, WrittenOK DEF Flush
  <2> HIDE DEF row
  <2>2. s = [r EXCEPT !.mem = row, !.loaded = NoRow, !.dirty = "write", !.pc = "refresh"]
    BY DEF row
  <2> HIDE DEF s
  <2>3. s \in Request /\ s.id = r.id /\ ~Fresh(s)
    BY <1>1, <2>1, <2>2, ConstantTypes DEF Request, Locations, Fresh
  <2>4. Sane(s) /\ Scoped(s) /\ (~redis => Own(s))
    BY <1>1, <1>5, <2>1, <2>2, ConstantTypes
       DEF RequestOK, Sane, Scoped, Own, Request, CommitsAtOnce, Earned, SignsIn
  <2>5. RequestOK(s)
    BY <2>3, <2>4 DEF RequestOK
  <2> QED
    BY <2>3, <2>5, <1>2, <1>5, MoveStep
<1>6. ASSUME LockFree(p), ~Conflict(r), CommitsAtOnce(r), CommitWrites(s),
             Continue(p, [s EXCEPT !.dirty = "no"])
      PROVE  Moved
  <2> DEFINE row == Written(r)
  <2> DEFINE u == [s EXCEPT !.dirty = "no"]
  <2>1. row \in Row /\ row.stored /\ Earned(r.id, row)
    BY <1>6, WrittenOK DEF Flush
  <2> HIDE DEF row
  <2>2. s = [r EXCEPT !.mem = row, !.loaded = NoRow, !.dirty = "write", !.pc = "refresh"]
    BY DEF row
  <2> HIDE DEF s
  <2>3. rows' = [rows EXCEPT ![r.id] = row]
    BY <1>1, <1>6, <2>2 DEF CommitWrites, Request
  <2>4. u = [r EXCEPT !.mem = row, !.loaded = NoRow, !.dirty = "no", !.pc = "refresh"]
    BY <1>1, <2>2 DEF Request
  <2>5. Continue(p, u)
    BY <1>6
  <2> HIDE DEF u
  <2>6. /\ u \in Request /\ u.id = r.id /\ u.dirty = "no" /\ u.pc = "refresh"
        /\ u.kind = r.kind /\ u.scope = "none"
    BY <1>1, <1>6, <2>1, <2>4, ConstantTypes DEF Request, Locations, CommitsAtOnce
  <2>7. Sane(u)
    BY <1>1, <2>1, <2>4, ConstantTypes DEF RequestOK, Sane, Request, Earned, SignsIn
  <2>8. r.kind # "terms"
    BY <1>1, <1>6 DEF RequestOK, Scoped, CommitsAtOnce
  <2>9. u.kind = "delete" => u.scope # "outer"
    BY <2>6
  <2> QED
    BY <1>1, <1>2, <1>6, <2>1, <2>3, <2>5, <2>6, <2>7, <2>8, <2>9, CommitStep
<1>7. Moved
  <2>1. \/ /\ r.mem = r.loaded /\ Continue(p, [r EXCEPT !.pc = "refresh"]) /\ UNCHANGED rows
        \/ End(p) /\ UNCHANGED rows
        \/ /\ LockFree(p) /\ ~Conflict(r) /\ ~CommitsAtOnce(r)
           /\ Continue(p, s) /\ UNCHANGED rows
        \/ /\ LockFree(p) /\ ~Conflict(r) /\ CommitsAtOnce(r)
           /\ CommitWrites(s) /\ Continue(p, [s EXCEPT !.dirty = "no"])
    BY Zenon DEF Flush
  <2> HIDE DEF s
  <2> QED
    BY <1>3, <1>4, <1>5, <1>6, <2>1
<1> QED
  BY <1>2, <1>7, QuietCache DEF IInv, history, cached

LEMMA RefreshStep ==
  ASSUME IInv, NEW p \in Procs, Refresh(p)
  PROVE  IInv'
<1> DEFINE r == req[p]
<1> DEFINE row == IF r.dirty = "write" THEN r.mem ELSE rows[r.id]
<1> DEFINE s == [r EXCEPT !.mem = row, !.loaded = NoRow, !.inTx = TRUE, !.pc = "publish"]
<1>1. r \in Request /\ RequestOK(r) /\ r.pc = "refresh" /\ r.id \in Ids
  BY ReqOK DEF Refresh, At, RequestOK, Sane
<1>2. row \in Row /\ Earned(r.id, row) /\ (r.dirty = "write" => row = r.mem)
  BY <1>1 DEF IInv, RowsInv, RequestOK, Sane, Request
<1>3. Continue(p, s) /\ UNCHANGED <<rows, redis, history>> /\ UNCHANGED cached
  BY DEF Refresh, cached
<1> HIDE DEF row
<1>4. s \in Request /\ s.id = r.id /\ s.dirty = r.dirty /\ ~Fresh(s)
  BY <1>1, <1>2, ConstantTypes DEF Request, Locations, Fresh
<1>5. Sane(s) /\ Scoped(s) /\ (~redis => Own(s))
  BY <1>1, <1>2, ConstantTypes DEF RequestOK, Sane, Scoped, Own, Request, SignsIn, Earned
<1>6. RequestOK(s)
  BY <1>4, <1>5 DEF RequestOK
<1> HIDE DEF s
<1>7. RowsInv' /\ RequestInv' /\ LockInv' /\ FreshInv'
  BY <1>3, <1>4, <1>6, MoveStep
<1> QED
  BY <1>3, <1>7, QuietCache DEF IInv, history, cached

LEMMA UpdateCacheStep ==
  ASSUME IInv, NEW p \in Procs, UpdateCache(p)
  PROVE  IInv'
<1> DEFINE r == req[p]
<1> DEFINE s == AfterSave(r)
<1>1. r \in Request /\ RequestOK(r) /\ r.pc = "publish" /\ r.id \in Ids
  BY ReqOK DEF UpdateCache, At, RequestOK, Sane
<1>2. RequestOK(s) /\ s.id = r.id /\ s.dirty = r.dirty /\ ~Fresh(s)
  <2>1. CASE r.scope # "none"
    <3>1. s = [r EXCEPT !.pc = "exit"]
      BY <2>1 DEF AfterSave
    <3>2. s \in Request /\ s.id = r.id /\ s.dirty = r.dirty /\ ~Fresh(s)
      BY <1>1, <3>1 DEF Request, Locations, Fresh
    <3>3. Sane(s) /\ Scoped(s) /\ (~redis => Own(s))
      BY <1>1, <3>1 DEF RequestOK, Sane, Scoped, Own, Request
    <3> QED
      BY <3>2, <3>3 DEF RequestOK
  <2>2. CASE r.scope = "none" /\ r.kind = "delete"
    <3>1. s = [r EXCEPT !.mem = NoRow, !.pc = "listIds"] /\ r.dirty = "no"
      BY <1>1, <2>2 DEF AfterSave, RequestOK, Sane, Request
    <3>2. s \in Request /\ s.id = r.id /\ s.dirty = r.dirty /\ ~Fresh(s)
      BY <1>1, <3>1, ConstantTypes DEF Request, Locations, Fresh
    <3>3. Sane(s) /\ Scoped(s) /\ Own(s)
      BY <1>1, <2>2, <3>1, ConstantTypes DEF RequestOK, Sane, Scoped, Own, Request, Earned
    <3> QED
      BY <3>2, <3>3 DEF RequestOK
  <2>3. CASE r.scope = "none" /\ r.kind # "delete"
    <3>1. s = Done(r)
      BY <2>3 DEF AfterSave
    <3>2. r.kind # "terms" /\ (r.dirty = "erase" => r.kind = "delete")
      BY <1>1, <2>3 DEF RequestOK, Sane, Scoped
    <3> QED
      BY <1>1, <3>1, <3>2, DoneOK
  <2> QED
    BY <2>1, <2>2, <2>3
<1>3. RowsInv' /\ RequestInv' /\ LockInv' /\ FreshInv'
  <2>1. Continue(p, s) /\ UNCHANGED <<rows, redis, history>>
    BY DEF UpdateCache
  <2> HIDE DEF s
  <2> QED
    BY <2>1, <1>2, MoveStep
<1>4. CacheInv'
  BY <1>1, PublishedStep DEF UpdateCache, history
<1> QED
  BY <1>3, <1>4 DEF IInv

LEMMA ListIdsStep ==
  ASSUME IInv, NEW p \in Procs, ListIds(p)
  PROVE  IInv'
<1> DEFINE r == req[p]
<1> DEFINE s == InScope([r EXCEPT !.inTx = TRUE, !.loaded = NoRow, !.pc = "erase"])
<1>1. /\ r \in Request /\ RequestOK(r) /\ r.dirty = "no"
      /\ r.id \in Ids /\ r.kind = "delete"
  BY ReqOK DEF ListIds, At, RequestOK, Sane, Request
<1>2. s \in Request /\ s.id = r.id /\ s.dirty = "no" /\ ~Fresh(s) /\ s.scope = "nested"
  BY <1>1, ConstantTypes DEF InScope, ScopeFor, Request, Locations, Fresh
<1>3. Sane(s) /\ Scoped(s) /\ Own(s)
  BY <1>1, <1>2, ConstantTypes
     DEF InScope, RequestOK, Sane, Scoped, Own, Request, SignsIn, Earned
<1>4. RowsInv' /\ RequestInv' /\ LockInv' /\ FreshInv'
  BY <1>2, <1>3, MoveStep DEF ListIds, cached, RequestOK
<1> QED
  BY <1>4, QuietCache DEF IInv, ListIds, history

LEMMA EraseStep ==
  ASSUME IInv, NEW p \in Procs, Erase(p)
  PROVE  IInv'
<1> DEFINE r == req[p]
<1> DEFINE s == [r EXCEPT !.dirty = "erase", !.pc = "publish"]
<1>1. /\ r \in Request /\ RequestOK(r) /\ r.pc = "erase" /\ r.dirty = "no" /\ LockFree(p)
      /\ r.id \in Ids /\ r.kind = "delete" /\ r.scope # "none"
  BY ReqOK DEF Erase, At, RequestOK, Sane, Request
<1>2. RequestOK(s) /\ s.id = r.id /\ ~Fresh(s)
  <2>1. s \in Request /\ s.id = r.id /\ ~Fresh(s)
    BY <1>1 DEF Request, Locations, Fresh
  <2>2. Sane(s) /\ Scoped(s) /\ Own(s)
    BY <1>1 DEF RequestOK, Sane, Scoped, Own, Request, SignsIn
  <2> QED
    BY <2>1, <2>2 DEF RequestOK
<1>3. UNCHANGED <<rows, redis, history>> /\ UNCHANGED cached
  BY DEF Erase, cached
<1>4. End(p) \/ Continue(p, s)
  BY DEF Erase
<1> HIDE DEF s
<1>5. RowsInv' /\ RequestInv' /\ LockInv' /\ FreshInv'
  BY <1>1, <1>2, <1>3, <1>4, MoveStep, EndStep
<1> QED
  BY <1>3, <1>5, QuietCache DEF IInv, history, cached

\* The outermost scope commits what was written: never an erasure.
LEMMA ExitScopeStep ==
  ASSUME IInv, NEW p \in Procs, ExitScope(p)
  PROVE  IInv'
<1> DEFINE r == req[p]
<1> DEFINE u == [r EXCEPT !.dirty = "no"]
<1> DEFINE Moved == RowsInv' /\ RequestInv' /\ LockInv' /\ FreshInv'
<1>1. r \in Request /\ RequestOK(r) /\ r.pc = "exit" /\ r.id \in Ids
  BY ReqOK DEF ExitScope, At, RequestOK, Sane
<1>2. UNCHANGED <<redis, history>> /\ UNCHANGED cached
  BY DEF ExitScope, cached
<1>3. /\ u \in Request /\ u.pc = "exit" /\ u.id = r.id /\ u.kind = r.kind /\ u.dirty = "no"
  BY <1>1 DEF Request
<1> HIDE DEF u
<1>4. /\ Done(u) \in Request /\ Sane(Done(u)) /\ ~Fresh(Done(u)) /\ Done(u).id = r.id
      /\ Done(u).dirty = "no" /\ Done(u).kind = r.kind
      /\ Done(u).pc = "answer" /\ Done(u).scope = "none"
      /\ (r.kind = "terms" => r.id \in Stored) => RequestOK(Done(u))
  BY <1>1, <1>3, DoneOK
<1>5. ASSUME r.dirty = "no", UNCHANGED rows, Continue(p, Done(u))
      PROVE  Moved
  <2>1. r.kind = "terms" => r.id \in Stored
    BY <1>1, <1>5 DEF RequestOK, Scoped
  <2> QED
    BY <2>1, <1>2, <1>4, <1>5, MoveStep
<1>6. ASSUME r.dirty = "write", rows' = [rows EXCEPT ![r.id] = r.mem], Continue(p, Done(u))
      PROVE  Moved
  <2>1. r.mem \in Row /\ r.mem.stored /\ Earned(r.id, r.mem)
    BY <1>1, <1>6 DEF RequestOK, Sane, Request
  <2>2. LockFree(p)
    BY <1>6 DEF IInv, LockInv, LockFree
  <2> QED
    BY <2>1, <2>2, <1>1, <1>2, <1>4, <1>6, CommitStep
<1>7. ASSUME r.scope = "nested", UNCHANGED rows, Continue(p, Done(r))
      PROVE  Moved
  <2>1. r.kind # "terms" /\ (r.dirty = "erase" => r.kind = "delete")
    BY <1>1, <1>7 DEF RequestOK, Sane, Scoped
  <2>2. RequestOK(Done(r)) /\ ~Fresh(Done(r)) /\ Done(r).id = r.id /\ Done(r).dirty = r.dirty
    BY <1>1, <2>1, DoneOK
  <2> QED
    BY <2>2, <1>2, <1>7, MoveStep
<1>8. ~(r.scope = "outer" /\ r.dirty = "erase")
  BY <1>1 DEF RequestOK, Sane, Scoped
<1>9. Moved
  <2>1. \/ r.scope = "outer" /\ CommitWrites(r) /\ Continue(p, Done(u))
        \/ r.scope = "nested" /\ Continue(p, Done(r)) /\ UNCHANGED rows
    BY DEF ExitScope, u
  <2> QED
    BY <1>5, <1>6, <1>7, <1>8, <2>1 DEF CommitWrites
<1> QED
  BY <1>2, <1>9, QuietCache DEF IInv, history, cached

-----------------------------------------------------------------------------
(* Answers, failures and the others *)

LEMMA AnswerStep ==
  ASSUME IInv, NEW p \in Procs, Answer(p)
  PROVE  IInv'
<1>1. RequestOK(req[p]) /\ req[p].pc = "answer" /\ req[p].id \in Ids
  BY ReqOK DEF Answer, At, RequestOK, Sane
<1>2. /\ signedIn' \in {signedIn, signedIn \cup {req[p].id}}
      /\ req \in [Procs -> Request] /\ req' = [req EXCEPT ![p] = IdleRequest]
      /\ UNCHANGED <<rows, cached, everPro>> /\ redis' = redis
  BY DEF Answer, End, Continue, IInv, RequestInv, cached
<1>3. RowsInv' /\ Stored' = Stored
  BY <1>1, <1>2 DEF IInv, RowsInv, Earned, Stored
<1>4. RequestInv'
  <2>1. \A q \in Procs : RequestOK(req'[q])
    BY <1>2, IdleIsOK DEF IInv, RequestInv
  <2>2. ASSUME NEW q \in Procs PROVE RequestOK(req[q])'
    BY <1>2, <1>3, <2>1 DEF RequestOK, Sane, Scoped, Own, Earned, SignsIn
  <2> QED
    BY <1>2, <2>2, ConstantTypes DEF RequestInv
<1>5. LockInv'
  <2>1. IdleRequest.dirty = "no"
    BY DEF IdleRequest
  <2> QED
    BY <1>2, <2>1 DEF IInv, LockInv
<1>6. FreshInv'
  <2> SUFFICES ASSUME ~redis, NEW a \in Procs, Fresh(req'[a])
               PROVE  /\ req'[a].id \notin Stored \cup signedIn'
                      /\ \A q \in Procs \ {a} : req'[q].id # req'[a].id
    BY <1>2, <1>3 DEF FreshInv, Fresh, SignsIn
  <2>1. a # p /\ req'[a] = req[a]
    BY <1>2, IdleIsOK
  <2>2. /\ req[a].id \notin Stored \cup signedIn
        /\ \A q \in Procs \ {a} : req[q].id # req[a].id
    BY <2>1 DEF IInv, FreshInv
  <2>3. req[a].id \in Ids
    BY <2>1, ReqOK DEF RequestOK, Sane, Fresh
  <2>4. IdleRequest.id = NoId
    BY DEF IdleRequest
  <2> QED
    BY <1>2, <2>1, <2>2, <2>3, <2>4, ConstantTypes
<1> QED
  BY <1>2, <1>3, <1>4, <1>5, <1>6, QuietCache DEF IInv

LEMMA RequestFailsStep ==
  ASSUME IInv, NEW p \in Procs, RequestFails(p)
  PROVE  IInv'
<1>1. UNCHANGED <<rows, redis, history>> /\ UNCHANGED cached
  BY DEF RequestFails, cached
<1> QED
  BY <1>1, EndStep, QuietCache DEF IInv, RequestFails, history

LEMMA BillingChangesStep ==
  ASSUME IInv, NEW i \in Ids, BillingChanges(i)
  PROVE  IInv'
<1>1. PICK plan \in {"free", "pro"} :
        /\ rows' = [rows EXCEPT ![i].plan = plan]
        /\ everPro' = IF plan = "pro" THEN everPro \cup {i} ELSE everPro
  BY DEF BillingChanges
<1>2. UNCHANGED <<redis, req, signedIn>> /\ UNCHANGED cached
  BY DEF BillingChanges, cached
<1>3. everPro \subseteq everPro' /\ (plan = "pro" => i \in everPro')
  BY <1>1
<1>4. /\ rows' \in [Ids -> Row]
      /\ \A j \in Ids : rows'[j].stored = rows[j].stored
      /\ \A j \in Ids : rows'[j].plan \in {rows[j].plan} \cup (IF j = i THEN {plan} ELSE {})
  BY <1>1 DEF IInv, RowsInv, Row
<1>5. RowsInv' /\ Stored' = Stored
  BY <1>1, <1>2, <1>3, <1>4 DEF IInv, RowsInv, Earned, Stored
<1>6. CacheInv'
  BY <1>2, <1>3 DEF IInv, CacheInv, Earned, cached
<1>7. RequestInv'
  <2>1. ASSUME NEW q \in Procs PROVE RequestOK(req[q])'
    <3>1. RequestOK(req[q]) /\ req[q].dirty = "no"
      BY ReqOK DEF BillingChanges
    <3> QED
      BY <1>2, <1>3, <1>5, <3>1 DEF RequestOK, Sane, Scoped, Own, Earned, SignsIn
  <2> QED
    BY <1>2, <2>1 DEF IInv, RequestInv
<1>8. LockInv' /\ FreshInv'
  BY <1>2, <1>5 DEF IInv, LockInv, FreshInv, Fresh, SignsIn
<1> QED
  BY <1>5, <1>6, <1>7, <1>8 DEF IInv

\* What changes no row, no request and no history leaves requests sound.
LEMMA QuietRequests ==
  ASSUME IInv, UNCHANGED <<rows, redis, req, everPro, signedIn>>
  PROVE  RowsInv' /\ RequestInv' /\ LockInv' /\ FreshInv'
<1>1. RowsInv' /\ Stored' = Stored
  BY DEF IInv, RowsInv, Earned, Stored
<1>2. RequestInv'
  <2>1. ASSUME NEW q \in Procs PROVE RequestOK(req[q])'
    BY <1>1, ReqOK DEF RequestOK, Sane, Scoped, Own, Earned, SignsIn
  <2> QED
    BY <2>1 DEF IInv, RequestInv
<1> QED
  BY <1>1, <1>2 DEF IInv, LockInv, FreshInv, Fresh, SignsIn

LEMMA ExpiresStep ==
  ASSUME IInv, Expires
  PROVE  IInv'
<1>1. CacheInv'
  BY ConstantTypes DEF IInv, CacheInv, Expires, Earned, NoEntry, history
<1> QED
  BY <1>1, QuietRequests DEF IInv, Expires, history

-----------------------------------------------------------------------------
(* The plan, without Redis *)

\* A row written with the plan it had changes no plan.
LEMMA SamePlan ==
  ASSUME IInv, NEW i \in Ids, NEW row, rows' = [rows EXCEPT ![i] = row],
         i \in Stored => row.plan = rows[i].plan
  PROVE  PlanStays
BY DEF IInv, RowsInv, PlanStays, Stored

LEMMA FlushKeepsPlan ==
  ASSUME IInv, ~redis, NEW p \in Procs, Flush(p)
  PROVE  PlanStays
<1> DEFINE r == req[p]
<1> DEFINE s == [r EXCEPT !.mem = Written(r), !.loaded = NoRow, !.dirty = "write", !.pc = "refresh"]
<1>1. r \in Request /\ RequestOK(r) /\ r.id \in Ids
  BY ReqOK DEF Flush, At, RequestOK, Sane
<1>2. ASSUME ~Conflict(r), CommitWrites(s)
      PROVE  PlanStays
  <2>1. r.id \in Stored => Written(r).plan = rows[r.id].plan
    BY <1>2, WrittenOK DEF Flush
  <2>2. rows' = [rows EXCEPT ![r.id] = Written(r)]
    BY <1>1, <1>2 DEF CommitWrites, Request
  <2> QED
    BY <1>1, <2>1, <2>2, SamePlan
<1>3. UNCHANGED rows \/ (~Conflict(r) /\ CommitWrites(s))
  BY DEF Flush
<1> HIDE DEF s
<1> QED
  BY <1>2, <1>3 DEF PlanStays

LEMMA ExitScopeKeepsPlan ==
  ASSUME IInv, ~redis, NEW p \in Procs, ExitScope(p)
  PROVE  PlanStays
<1> DEFINE r == req[p]
<1>1. r \in Request /\ RequestOK(r) /\ r.pc = "exit" /\ r.id \in Ids
  BY ReqOK DEF ExitScope, At, RequestOK, Sane
<1>2. ~(r.scope = "outer" /\ r.dirty = "erase")
  BY <1>1 DEF RequestOK, Sane, Scoped
<1>3. ASSUME r.dirty = "write", rows' = [rows EXCEPT ![r.id] = r.mem]
      PROVE  PlanStays
  <2>1. r.id \in Stored => r.mem.plan = rows[r.id].plan
    BY <1>1, <1>3 DEF RequestOK, Own
  <2> QED
    BY <1>1, <1>3, <2>1, SamePlan
<1>4. UNCHANGED rows \/ (r.dirty = "write" /\ rows' = [rows EXCEPT ![r.id] = r.mem])
  BY <1>2 DEF ExitScope, CommitWrites
<1> QED
  BY <1>3, <1>4 DEF PlanStays

LEMMA StepKeepsPlan ==
  ASSUME IInv, ~redis, [Next]_vars
  PROVE  PlanStays
<1>1. ASSUME UNCHANGED rows \/ UNCHANGED req
      PROVE  PlanStays
  BY <1>1 DEF PlanStays
<1>2. ASSUME NEW p \in Procs, Start(p) \/ RequestFails(p)
      PROVE  UNCHANGED rows
  BY <1>2 DEF Start, StartSignIn, StartEdit, StartDelete, RequestFails
<1>3. ASSUME NEW p \in Procs, Proceed(p)
      PROVE  PlanStays
  <2>1. CASE Flush(p)
    BY <2>1, FlushKeepsPlan
  <2>2. CASE ExitScope(p)
    BY <2>2, ExitScopeKeepsPlan
  <2>3. CASE Get(p) \/ FillCache(p) \/ Answer(p) \/ Merge(p) \/ StopFails(p)
    <3>1. UNCHANGED rows
      BY <2>3 DEF Get, FillCache, Answer, Merge, StopFails
    <3> QED
      BY <3>1, <1>1
  <2>4. CASE Refresh(p) \/ UpdateCache(p) \/ ListIds(p) \/ Erase(p)
    <3>1. UNCHANGED rows
      BY <2>4 DEF Refresh, UpdateCache, ListIds, Erase
    <3> QED
      BY <3>1, <1>1
  <2> QED
    BY <1>3, <2>1, <2>2, <2>3, <2>4 DEF Proceed
<1>4. ASSUME NEW i \in Ids, BillingChanges(i)
      PROVE  UNCHANGED req
  BY <1>4 DEF BillingChanges
<1>5. ASSUME Expires \/ UNCHANGED vars
      PROVE  UNCHANGED rows
  BY <1>5 DEF Expires, vars
<1> QED
  BY <1>1, <1>2, <1>3, <1>4, <1>5 DEF Next

-----------------------------------------------------------------------------
(* The theorems *)

LEMMA InitIInv == Init => IInv
<1> SUFFICES ASSUME Init PROVE IInv
  OBVIOUS
<1>1. RowsInv /\ CacheInv
  BY ConstantTypes DEF Init, RowsInv, CacheInv, Earned, NoEntry
<1>2. \A p \in Procs : req[p] = IdleRequest
  BY DEF Init
<1>3. RequestInv
  BY <1>2, IdleIsOK, ConstantTypes DEF Init, RequestInv
<1>4. LockInv
  BY <1>2 DEF LockInv, IdleRequest
<1>5. FreshInv
  BY <1>2, IdleIsOK DEF FreshInv
<1> QED
  BY <1>1, <1>3, <1>4, <1>5 DEF IInv

LEMMA NextIInv == IInv /\ [Next]_vars => IInv'
<1> SUFFICES ASSUME IInv, [Next]_vars PROVE IInv'
  OBVIOUS
<1>1. ASSUME NEW p \in Procs, Start(p)
      PROVE  IInv'
  BY <1>1, StartSignInStep, StartEditStep, StartDeleteStep DEF Start
<1>2. ASSUME NEW p \in Procs, Proceed(p)
      PROVE  IInv'
  BY <1>2, GetStep, FillCacheStep, ExitScopeStep, AnswerStep, MergeStep, StopFailsStep,
     FlushStep, RefreshStep, UpdateCacheStep, ListIdsStep, EraseStep DEF Proceed
<1>3. ASSUME NEW p \in Procs, RequestFails(p)
      PROVE  IInv'
  BY <1>3, RequestFailsStep
<1>4. ASSUME NEW i \in Ids, BillingChanges(i)
      PROVE  IInv'
  BY <1>4, BillingChangesStep
<1>5. CASE Expires
  BY <1>5, ExpiresStep
<1>6. CASE UNCHANGED vars
  BY <1>6, QuietRequests, QuietCache DEF vars, IInv, cached
<1> QED
  BY <1>1, <1>2, <1>3, <1>4, <1>5, <1>6 DEF Next

\* The inductive invariant holds throughout: what requests and caches know is
\* of accounts that may have it, and uncommitted writes exclude one another.
THEOREM Invariance == Spec => []IInv
  BY InitIInv, NextIInv, PTL DEF Spec

\* Every variable keeps its type, whatever the interleaving.
THEOREM TypeCorrect == Spec => []TypeOK
<1>1. IInv => TypeOK
  BY DEF IInv, RowsInv, CacheInv, RequestInv, TypeOK
<1> QED
  BY <1>1, Invariance, PTL

\* Nobody becomes Pro but through billing: whatever is cached, merged or
\* retried, a row that says Pro is of an account sync_subscription made Pro.
THEOREM PlanIsEarned == Spec => []PlanIsNeverInvented
<1>1. IInv => PlanIsNeverInvented
  BY DEF IInv, RowsInv, CacheInv, Earned, PlanIsNeverInvented
<1> QED
  BY <1>1, Invariance, PTL

\* accept_terms answers only once the account is committed: it opens its
\* transaction_scope before it reads, so the scope commits.
THEOREM TermsAreStored == Spec => AcceptedIsStored
<1>1. IInv /\ [Next]_vars =>
        [\A p \in Procs : Answer(p) /\ req[p].kind = "terms" => req[p].id \in Stored]_vars
  BY ReqOK DEF Answer, At, RequestOK, Scoped
<1> QED
  BY <1>1, Invariance, PTL DEF Spec, AcceptedIsStored

\* Without Redis no request changes the plan of a stored account: what it
\* writes is, column by column, what it did not change.
THEOREM PlanIsKept == Spec => PlanIsStripesUncached
<1>1. IInv /\ [Next]_vars => [~redis => PlanStays]_vars
  BY StepKeepsPlan
<1> QED
  BY <1>1, Invariance, PTL DEF Spec, PlanIsStripesUncached
=============================================================================
