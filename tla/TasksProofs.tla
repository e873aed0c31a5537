---------------------------- MODULE TasksProofs ----------------------------
(***************************************************************************)
(* The mutations keep the types, and the properties of Tasks: for any      *)
(* number of processes, tasks, titles, mutations and failures.             *)
(***************************************************************************)
EXTENDS Tasks, TLAPS

Req == [step : Steps, kind : Kinds, id : Ids \cup {Nil}, title : Titles \cup {Nil},
        cur : Ids \cup {Nil}, copy : MaybeRow, base : MaybeRow, sess : Partial(Row),
        writes : Partial(MaybeRow), todo : SUBSET Ids, planning : BOOLEAN]

\* Where a mutation is tells what it has at hand.
Empty(r) == r.sess = <<>> /\ r.writes = <<>>
Fits(r) ==
    /\ r.step = "idle" => r = Idle
    /\ r.step = "undo" => r = [Idle EXCEPT !.step = "undo", !.id = r.id]
    /\ r.step # "idle" => r.id \in Ids
    /\ r.step \in {"event", "insert"} => r.kind = "create" /\ r.cur = r.id /\ Empty(r)
    /\ r.step \in {"event", "find", "read", "next"} => r.copy = Nil
    /\ r.step \in {"insert", "google", "merge", "flush"} => r.copy \in Row /\ r.cur \in Ids
    /\ r.step # "flush" => r.base = Nil
    /\ r.step \in {"find", "read", "google", "commit"} => r.kind # "create" /\ r.cur = r.id
    /\ r.step = "flush" /\ ~r.planning => r.kind # "create" /\ r.cur = r.id
    /\ r.step \in {"event", "insert", "find", "read", "google", "plan", "commit"} => ~r.planning
    /\ ~r.planning => r.todo = {}
    /\ r.step \in {"merge", "next"} => r.planning
    /\ r.kind = "edit" \/ r.step \in {"event", "insert"} => r.title \in Titles
    /\ r.step \in {"find", "read", "google", "commit"} => r.writes = <<>>
    /\ r.kind = "create" /\ r.step \in {"plan", "next", "merge", "flush"} =>
         r.id \in DOMAIN r.writes

StoredInv ==
    /\ rows \in [Ids -> MaybeRow] /\ linked \subseteq Ids
    /\ events \in [Ids -> Titles \cup {Nil}]
    /\ copies \in [Ids -> MaybeRow]
    /\ list = Nil \/ list \in Partial(Row)
    /\ redis \in BOOLEAN /\ raced \in BOOLEAN /\ known \subseteq Ids
    /\ left \in 0..MaxMutations
ReqInv == req \in [Procs -> Req] /\ \A p \in Procs : Fits(req[p])
Typed == StoredInv /\ ReqInv

\* Rows that agree in some columns; what a mutation has of a task is among them.
LiveRows == {o \in Row : ~o.deleted}
GoodRows == {o \in Row : o.event /\ ~o.deleted}
DoneRows == {o \in Row : o.status = "Done"}
Kept(r, t, G) ==
    /\ t \in DOMAIN r.sess => r.sess[t] \in G
    /\ t \in DOMAIN r.writes => r.writes[t] \in G
    /\ r.cur = t => r.copy \in G \cup {Nil} /\ r.base \in G \cup {Nil}

\* Two mutations never have uncommitted writes of one task.
LockInv ==
    \A p, q \in Procs : p # q => DOMAIN req[p].writes \cap DOMAIN req[q].writes = {}

\* A session has what it wrote, else live tasks; so have the copies.
Backed(ss, w) ==
    \A t \in DOMAIN ss : IF t \in DOMAIN w THEN ss[t] = w[t] ELSE ss[t] \in LiveRows
SessionOK(r) == Backed(r.sess, r.writes) /\ r.copy \in LiveRows \cup {Nil}
SessInv == \A p \in Procs : SessionOK(req[p])
CacheInv ==
    /\ \A t \in Ids : copies[t] \in LiveRows \cup {Nil}
    /\ ~redis => list = Nil /\ \A t \in Ids : copies[t] = Nil

\* A task nobody committed is its creator's, until Redis has a copy.
Unborn(t) ==
    /\ rows[t] = Nil
    /\ \A p \in Procs : Kept(req[p], t, LiveRows)
    /\ copies[t] = Nil => \A p \in Procs : req[p].id = t \/ Kept(req[p], t, {})
Bears(p) ==
    /\ req[p].id \notin known /\ copies[req[p].id] = Nil
    /\ \A q \in Procs \ {p} : req[q].id # req[p].id
BirthInv ==
    /\ \A t \in Ids \ known : Unborn(t)
    /\ \A p \in Procs :
        /\ req[p].step \in {"event", "insert"} => Bears(p)
        /\ req[p].kind # "create" => req[p].id \in known

\* Only its removal takes a task that a workspace shows.
Removes(r, t) == r.kind = "remove" /\ r.id = t
LinkInv ==
    \A t \in linked :
        /\ t \in known /\ rows[t] \in LiveRows
        /\ \A p \in Procs : Removes(req[p], t) \/ Kept(req[p], t, LiveRows)

\* Who has a task with an event knows of it, and its creator will undo it.
Makes(r, t) ==
    r.kind = "create" /\ r.id = t
    /\ r.step \in {"insert", "plan", "next", "merge", "flush", "undo"}
EventInv ==
    faults \subseteq {"statement"} =>
        /\ \A p \in Procs :
             req[p].kind = "remove" /\ req[p].step = "flush" /\ ~req[p].planning
             => events[req[p].id] = Nil
        /\ \A t \in Ids : events[t] # Nil =>
             /\ rows[t] \in GoodRows \cup {Nil} /\ copies[t] \in GoodRows \cup {Nil}
             /\ \A p \in Procs : Kept(req[p], t, GoodRows)
             /\ rows[t] # Nil \/ \E p \in Procs : Makes(req[p], t)

\* Alone, a mutation finds nothing of a task that is gone.
SingleInv == ~raced => \A p, q \in Procs : p # q => At(p, "idle") \/ At(q, "idle")
Drops(r, t) == t \in DOMAIN r.writes /\ ~Live(r.writes[t])
Aloof(r, t) ==
    /\ t \in DOMAIN r.writes => ~Live(r.writes[t])
    /\ t \notin r.todo
    /\ r.cur = t => r.step \notin {"google", "merge", "flush"}
Gone(r, t) == ~Live(rows[t]) \/ Drops(r, t)
Uncached(t) == copies[t] = Nil /\ (list = Nil \/ t \notin DOMAIN list)
GoneInv ==
    /\ ~raced => \A t \in known, p \in Procs :
                    Gone(req[p], t) => Uncached(t) /\ Aloof(req[p], t)
    /\ ~redis => \A t \in known, p \in Procs : ~Live(rows[t]) /\ t \in DOMAIN req[p].writes =>
                    ~Live(req[p].writes[t])

\* Without Redis every object is one the session loaded.
OnlyTitled(r) == r.copy.title = r.base.title \/ (r.kind = "edit" /\ ~r.planning)
Loaded(r) ==
    /\ r.step \in {"google", "merge", "flush"} => r.cur \in DOMAIN r.sess
    /\ r.step \in {"google", "merge"} => r.copy = r.sess[r.cur]
    /\ r.step = "flush" =>
        r.base = r.sess[r.cur] /\ r.copy.deleted = r.base.deleted /\ OnlyTitled(r)
UncachedInv == ~redis => \A p \in Procs : Loaded(req[p])

\* Alone, a mutation knows of every completed task that it is.
KnowsDone(r, t) ==
    Kept(r, t, DoneRows) /\ t \notin r.todo /\ (r.planning /\ r.cur = t => r.copy = Nil)
HasDone(r, t) ==
    rows[t] \in DoneRows \/ (t \in DOMAIN r.writes /\ r.writes[t] \in DoneRows)
CopyDone(t) ==
    /\ copies[t] \in DoneRows \cup {Nil}
    /\ list = Nil \/ t \notin DOMAIN list \/ list[t] \in DoneRows
DoneInv ==
    ~raced => \A t \in Ids, p \in Procs :
        HasDone(req[p], t) => CopyDone(t) /\ KnowsDone(req[p], t)

\* Alone, as long as only Google fails, whatever a mutation has of a task is what
\* it would read now, and what says it is synced is.
Synced(row, title) == row.event => row.dated /\ (row.syncError \/ row.title = title)
Patching(r, t) == r.step = "flush" /\ ~r.planning /\ r.id = t
View(r) == [t \in Ids |-> Seen(r, t)]
CacheExact(cs, l, v) ==
    /\ \A t \in Ids : cs[t] # Nil => cs[t] = v[t]
    /\ l # Nil => l = [t \in {u \in Ids : Live(v[u])} |-> v[t]]
HandExact(r, v, es) ==
    /\ r.step # "undo"
    /\ \A t \in DOMAIN r.sess : r.sess[t] = v[t]
    /\ r.step \in {"google", "merge"} => r.copy = v[r.cur]
    /\ r.step = "flush" =>
        /\ r.base = v[r.cur] /\ r.base # Nil /\ OnlyTitled(r)
        /\ r.planning \/ r.kind = "remove" => r.copy = r.base
        /\ ~r.planning /\ r.kind # "remove" => Synced(r.copy, es[r.id])
    /\ r.step = "insert" => Synced(r.copy, es[r.id])
EventsExact(r, v, es) ==
    \A t \in Ids : Live(v[t]) =>
        IF Patching(r, t) THEN v[t].event => v[t].dated ELSE Synced(v[t], es[t])
Exact(r) ==
    /\ CacheExact(copies, list, View(r)) /\ HandExact(r, View(r), events)
    /\ EventsExact(r, View(r), events)
ExactInv ==
    ~raced /\ OnlyGoogleFailed =>
        /\ Quiet => Exact(Idle)
        /\ \A p \in Procs : ~At(p, "idle") => Exact(req[p])

\* Only an edit has written another title.
TitleInv ==
    Alone /\ (redis => OnlyGoogleFailed) =>
        \A p \in Procs, t \in Ids :
            /\ t \in DOMAIN req[p].writes /\ Live(rows[t]) /\ Live(req[p].writes[t])
            /\ rows[t].title # req[p].writes[t].title
            => req[p].kind = "edit" /\ req[p].id = t

IInv == /\ Typed /\ LockInv /\ SessInv /\ CacheInv /\ BirthInv /\ LinkInv /\ EventInv
        /\ SingleInv /\ GoneInv /\ UncachedInv /\ DoneInv /\ ExactInv /\ TitleInv

-----------------------------------------------------------------------------
(* Data *)

LEMMA PartialFacts ==
  ASSUME NEW S, NEW f \in Partial(S)
  PROVE  DOMAIN f \in SUBSET Ids /\ f \in [DOMAIN f -> S] /\ \A t \in DOMAIN f : f[t] \in S
BY DEF Partial

LEMMA EmptyPartial ==
  ASSUME NEW S
  PROVE  <<>> \in Partial(S) /\ DOMAIN <<>> = {}
<1>1. <<>> \in [{} -> S]
  OBVIOUS
<1> QED
  BY <1>1 DEF Partial

LEMMA WithFacts ==
  ASSUME NEW S, NEW f \in Partial(S), NEW t \in Ids, NEW v \in S
  PROVE  /\ With(f, t, v) \in Partial(S)
         /\ DOMAIN With(f, t, v) = DOMAIN f \cup {t}
         /\ With(f, t, v)[t] = v
         /\ \A x \in DOMAIN f : x # t => With(f, t, v)[x] = f[x]
<1>1. DOMAIN f \in SUBSET Ids /\ \A x \in DOMAIN f : f[x] \in S
  BY PartialFacts
<1>2. With(f, t, v) \in [DOMAIN f \cup {t} -> S]
  BY <1>1 DEF With
<1>3. With(f, t, v) \in Partial(S)
  BY <1>1, <1>2 DEF Partial
<1> QED
  BY <1>1, <1>3 DEF With

LEMMA NilFacts == Nil \notin Row /\ Nil \notin Titles /\ Nil \notin Ids
BY NilAssumption, RowAssumption

\* An UPDATE sets each column to what is wanted or to what is there.
LEMMA UpdatedFacts ==
  ASSUME NEW base \in Row, NEW copy \in Row, NEW now \in Row
  PROVE  LET row == Updated(base, copy, now) IN
         /\ row \in Row
         /\ row.title = IF copy.title # base.title THEN copy.title ELSE now.title
         /\ row.status = IF copy.status # base.status THEN copy.status ELSE now.status
         /\ row.dated = IF copy.dated # base.dated THEN copy.dated ELSE now.dated
         /\ row.event = IF copy.event # base.event THEN copy.event ELSE now.event
         /\ row.syncError = IF copy.syncError # base.syncError THEN copy.syncError
                            ELSE now.syncError
         /\ row.deleted = IF copy.deleted # base.deleted THEN copy.deleted ELSE now.deleted
<1> DEFINE Pick(c) == IF copy[c] # base[c] THEN copy[c] ELSE now[c]
<1>1. DOMAIN now = {"title", "status", "dated", "event", "syncError", "deleted"}
  BY DEF Row
<1>2. Updated(base, copy, now) =
        [title |-> Pick("title"), status |-> Pick("status"), dated |-> Pick("dated"),
         event |-> Pick("event"), syncError |-> Pick("syncError"), deleted |-> Pick("deleted")]
  BY <1>1 DEF Updated
<1>3. /\ Pick("title") \in Titles /\ Pick("status") \in {"Todo", "Scheduled", "Done"}
      /\ Pick("dated") \in BOOLEAN /\ Pick("event") \in BOOLEAN
      /\ Pick("syncError") \in BOOLEAN /\ Pick("deleted") \in BOOLEAN
  BY DEF Row
<1>4. Updated(base, copy, now) \in Row
  BY <1>2, <1>3 DEF Row
<1> QED
  BY <1>2, <1>4

\* An UPDATE of what is there gives what is wanted.
LEMMA UpdatedExactly ==
  ASSUME NEW base \in Row, NEW copy \in Row
  PROVE  Updated(base, copy, base) = copy
<1>1. /\ DOMAIN base = {"title", "status", "dated", "event", "syncError", "deleted"}
      /\ DOMAIN copy = DOMAIN base /\ copy = [c \in DOMAIN copy |-> copy[c]]
  BY DEF Row
<1> QED
  BY <1>1 DEF Updated

\* What a mutation wants differs in the columns it is about.
LEMMA WantedFacts ==
  ASSUME NEW r \in Req, r.copy \in Row, r.planning \/ r.kind # "create",
         ~r.planning /\ r.kind = "edit" => r.title \in Titles
  PROVE  LET want == Wanted(r) IN
         /\ want \in Row /\ want.event = r.copy.event /\ want.syncError = r.copy.syncError
         /\ want.dated = (r.copy.dated \/ r.planning)
         /\ want.title = IF ~r.planning /\ r.kind = "edit" THEN r.title ELSE r.copy.title
         /\ want.status = IF r.planning THEN "Scheduled"
                          ELSE IF r.kind = "done" THEN "Done" ELSE r.copy.status
         /\ want.deleted = IF ~r.planning /\ r.kind = "remove" THEN r.copy.status = "Done"
                           ELSE r.copy.deleted
<1>1. r.kind \in Kinds /\ r.planning \in BOOLEAN
  BY DEF Req
<1>2. CASE r.planning
  <2>1. Wanted(r) = [r.copy EXCEPT !.dated = TRUE, !.status = "Scheduled"]
    BY <1>2 DEF Wanted
  <2> QED
    BY <1>2, <2>1 DEF Row
<1>3. CASE ~r.planning /\ r.kind = "edit"
  <2>1. Wanted(r) = [r.copy EXCEPT !.title = r.title]
    BY <1>3 DEF Wanted
  <2> QED
    BY <1>3, <2>1 DEF Row
<1>4. CASE ~r.planning /\ r.kind = "done"
  <2>1. Wanted(r) = [r.copy EXCEPT !.status = "Done"]
    BY <1>4 DEF Wanted
  <2> QED
    BY <1>4, <2>1 DEF Row
<1>5. CASE ~r.planning /\ r.kind = "remove"
  <2>1. Wanted(r) = [r.copy EXCEPT !.deleted = (r.copy.status = "Done")]
    BY <1>5 DEF Wanted
  <2> QED
    BY <1>5, <2>1 DEF Row
<1> QED
  BY <1>1, <1>2, <1>3, <1>4, <1>5 DEF Kinds

LEMMA ReqFacts ==
  ASSUME Typed, NEW p \in Procs
  PROVE  req[p] \in Req /\ Fits(req[p])
BY DEF Typed, ReqInv

LEMMA IdleFits == Idle \in Req /\ Fits(Idle) /\ DOMAIN Idle.sess = {} /\ DOMAIN Idle.writes = {}
<1>1. <<>> \in Partial(Row) /\ <<>> \in Partial(MaybeRow) /\ DOMAIN <<>> = {}
  BY EmptyPartial
<1>2. Idle \in Req
  BY <1>1 DEF Idle, Req, Steps, Kinds, MaybeRow
<1>3. Fits(Idle)
  BY DEF Fits, Idle
<1> QED
  BY <1>1, <1>2, <1>3 DEF Idle

\* Reading a task takes the copy, else the row a transaction sees, by way of the
\* objects of its session.
Fetched(r, t) == IF t \in DOMAIN r.sess THEN r.sess[t] ELSE Seen(r, t)
Loads(r, t, o, ss) ==
    \/ Live(copies[t]) /\ o = copies[t] /\ ss = r.sess
    \/ ~Live(copies[t]) /\ ~Live(Seen(r, t)) /\ o = Nil /\ ss = r.sess
    \/ ~Live(copies[t]) /\ Live(Seen(r, t)) /\ o = Fetched(r, t) /\ ss = With(r.sess, t, o)
Fills(r, t, o) ==
    copies' = IF redis /\ ~Live(copies[t]) /\ Live(Seen(r, t)) THEN [copies EXCEPT ![t] = o]
              ELSE copies

LEMMA SeenFacts ==
  ASSUME StoredInv, NEW r \in Req, NEW t \in Ids
  PROVE  Seen(r, t) \in MaybeRow /\ (Live(Seen(r, t)) => Fetched(r, t) \in Row)
<1>1. r.sess \in Partial(Row) /\ r.writes \in Partial(MaybeRow) /\ rows[t] \in MaybeRow
  BY DEF Req, StoredInv
<1>2. t \in DOMAIN r.writes => r.writes[t] \in MaybeRow
  BY <1>1, PartialFacts
<1>3. t \in DOMAIN r.sess => r.sess[t] \in Row
  BY <1>1, PartialFacts
<1> QED
  BY <1>1, <1>2, <1>3 DEF Seen, Fetched, Live, MaybeRow

LEMMA GetByIdFacts ==
  ASSUME StoredInv, NEW r \in Req, NEW t \in Ids
  PROVE  LET got == GetById(r, t) IN
         /\ got = [r EXCEPT !.copy = got.copy, !.sess = got.sess]
         /\ got.copy \in MaybeRow /\ got.sess \in Partial(Row)
         /\ Loads(r, t, got.copy, got.sess)
         /\ FillCopy(r, t) => Fills(r, t, got.copy) /\ UNCHANGED <<list, redis>>
<1> DEFINE got == GetById(r, t)
<1>0. /\ Seen(r, t) \in MaybeRow /\ (Live(Seen(r, t)) => Fetched(r, t) \in Row)
      /\ copies[t] \in MaybeRow /\ r.sess \in Partial(Row)
  BY SeenFacts DEF StoredInv, Req
<1>1. CASE Live(copies[t])
  <2>1. Found(r, t) = <<copies[t], FALSE>>
    BY <1>1 DEF Found
  <2>2. got = [r EXCEPT !.copy = copies[t], !.sess = r.sess]
    BY <2>1 DEF GetById
  <2>3. got.copy = copies[t] /\ got.sess = r.sess
    BY <2>2 DEF Req
  <2> QED
    BY <1>0, <1>1, <2>1, <2>2, <2>3 DEF Loads, Fills, FillCopy
<1>2. CASE ~Live(copies[t]) /\ ~Live(Seen(r, t))
  <2>1. Found(r, t) = <<Nil, FALSE>>
    BY <1>2 DEF Found
  <2>2. got = [r EXCEPT !.copy = Nil, !.sess = r.sess]
    BY <2>1 DEF GetById
  <2>3. got.copy = Nil /\ got.sess = r.sess
    BY <2>2 DEF Req
  <2> QED
    BY <1>0, <1>2, <2>1, <2>2, <2>3 DEF Loads, Fills, FillCopy, MaybeRow
<1>3. CASE ~Live(copies[t]) /\ Live(Seen(r, t))
  <2>1. Found(r, t) = <<Fetched(r, t), TRUE>>
    BY <1>3 DEF Found, Fetched
  <2>2. got = [r EXCEPT !.copy = Fetched(r, t), !.sess = With(r.sess, t, Fetched(r, t))]
    BY <2>1 DEF GetById
  <2>3. got.copy = Fetched(r, t) /\ got.sess = With(r.sess, t, Fetched(r, t))
    BY <2>2 DEF Req
  <2>4. With(r.sess, t, Fetched(r, t)) \in Partial(Row)
    BY <1>0, <1>3, WithFacts
  <2>5. FillCopy(r, t) => Fills(r, t, Fetched(r, t)) /\ UNCHANGED <<list, redis>>
    BY <1>3, <2>1 DEF FillCopy, Fills, Serialized
  <2> QED
    BY <1>0, <1>3, <2>2, <2>3, <2>4, <2>5 DEF Loads, MaybeRow
<1> QED
  BY <1>1, <1>2, <1>3

\* The session after a load has the object, and what it had.
Holds(r, t, o, ss) ==
    /\ ss \in Partial(Row)
    /\ DOMAIN ss = DOMAIN r.sess \cup (IF ~Live(copies[t]) /\ Live(Seen(r, t)) THEN {t} ELSE {})
    /\ \A x \in DOMAIN ss : x # t => x \in DOMAIN r.sess /\ ss[x] = r.sess[x]
    /\ t \in DOMAIN ss => IF ~Live(copies[t]) /\ Live(Seen(r, t)) THEN ss[t] = o
                          ELSE t \in DOMAIN r.sess /\ ss[t] = r.sess[t]

LEMMA LoadsFacts ==
  ASSUME StoredInv, NEW r \in Req, NEW t \in Ids, NEW o, NEW ss, o \in MaybeRow, Loads(r, t, o, ss)
  PROVE  Holds(r, t, o, ss)
<1>1. r.sess \in Partial(Row) /\ (Live(Seen(r, t)) => Fetched(r, t) \in Row)
  BY SeenFacts DEF Req
<1>2. CASE ~Live(copies[t]) /\ Live(Seen(r, t))
  <2>1. o \in Row /\ ss = With(r.sess, t, o)
    BY <1>1, <1>2 DEF Loads
  <2>a. r.sess \in Partial(Row) /\ o \in Row
    BY <1>1, <2>1
  <2>2. /\ ss \in Partial(Row) /\ DOMAIN ss = DOMAIN r.sess \cup {t} /\ ss[t] = o
        /\ \A x \in DOMAIN r.sess : x # t => ss[x] = r.sess[x]
    <3> DEFINE f == r.sess
    <3> HIDE DEF f
    <3>1. f \in Partial(Row) /\ o \in Row
      BY <2>a DEF f
    <3>2. /\ With(f, t, o) \in Partial(Row)
          /\ DOMAIN With(f, t, o) = DOMAIN f \cup {t} /\ With(f, t, o)[t] = o
          /\ \A x \in DOMAIN f : x # t => With(f, t, o)[x] = f[x]
      BY <3>1, WithFacts
    <3> QED
      BY <2>1, <3>2 DEF f
  <2> QED
    BY <1>2, <2>2 DEF Holds
<1>3. CASE ~(~Live(copies[t]) /\ Live(Seen(r, t)))
  <2>1. ss = r.sess
    BY <1>3 DEF Loads
  <2> QED
    BY <1>1, <1>3, <2>1 DEF Holds
<1> QED
  BY <1>2, <1>3

\* A copy that was filled, and one that was written.
LEMMA FillsFacts ==
  ASSUME StoredInv, NEW r \in Req, NEW t \in Ids, NEW o, o \in MaybeRow, Fills(r, t, o)
  PROVE  /\ copies' \in [Ids -> MaybeRow]
         /\ \A x \in Ids : copies'[x] = IF x = t /\ redis /\ ~Live(copies[t]) /\ Live(Seen(r, t))
                                       THEN o ELSE copies[x]
BY DEF Fills, StoredInv

LEMMA CacheFacts ==
  ASSUME StoredInv, NEW t \in Ids, NEW row \in MaybeRow, Cache(t, row)
  PROVE  /\ copies' \in [Ids -> MaybeRow] /\ (list' = Nil \/ list' \in Partial(Row))
         /\ \A x \in Ids : copies'[x] = IF x = t /\ redis
                                       THEN IF Live(row) THEN row ELSE Nil
                                       ELSE copies[x]
         /\ list' = (IF redis THEN Nil ELSE list) /\ redis' = redis
BY DEF Cache, NewCopy, Serialized, DroppedList, StoredInv, MaybeRow

-----------------------------------------------------------------------------
(* What each action does to the mutation, and its types *)

Others(p) == \A q \in Procs \ {p} : req'[q] = req[q]
Job(r, s) == s.kind = r.kind /\ s.id = r.id /\ s.title = r.title

LEMMA SetFacts ==
  ASSUME Typed, NEW p \in Procs, NEW s \in Req, Fits(s), Set(p, s)
  PROVE  ReqInv' /\ Others(p) /\ req'[p] = s
<1>1. req' = [req EXCEPT ![p] = s] /\ req \in [Procs -> Req]
  BY DEF Set, Typed, ReqInv
<1>2. req'[p] = s /\ \A q \in Procs : q # p => req'[q] = req[q]
  BY <1>1
<1>3. req' \in [Procs -> Req]
  BY <1>1
<1>4. \A q \in Procs : Fits(req'[q])
  BY <1>2 DEF Typed, ReqInv
<1> QED
  BY <1>2, <1>3, <1>4 DEF ReqInv, Others

\* The mutation ends, undone or not.
LEMMA ResetEffect ==
  ASSUME Typed, NEW p \in Procs, Set(p, Idle)
  PROVE  ReqInv' /\ Others(p) /\ req'[p] = Idle
BY IdleFits, SetFacts

LEMMA StartEffect ==
  ASSUME Typed, NEW p \in Procs, NEW kind \in Kinds, NEW t \in Ids, NEW title \in Titles,
         Start(p, kind, t, title)
  PROVE  LET s == req'[p] IN
         /\ Typed' /\ Others(p) /\ req[p] = Idle
         /\ s.step = (IF kind = "create" THEN "event" ELSE "find")
         /\ s.kind = kind /\ s.id = t /\ s.cur = t /\ s.copy = Nil /\ s.base = Nil
         /\ s.sess = <<>> /\ s.writes = <<>> /\ s.todo = {} /\ s.planning = FALSE
<1> DEFINE first == IF kind = "create" THEN "event" ELSE "find"
<1> DEFINE new == IF kind \in {"create", "edit"} THEN title ELSE Nil
<1> DEFINE s == [Idle EXCEPT !.step = first, !.kind = kind, !.id = t, !.cur = t, !.title = new]
<1>5. Set(p, s) /\ req[p].step = "idle" /\ left > 0
  BY DEF Start, At
<1>a. /\ first = (IF kind = "create" THEN "event" ELSE "find")
      /\ new \in Titles \cup {Nil} /\ (kind \in {"create", "edit"} => new \in Titles)
  OBVIOUS
<1> HIDE DEF first, new
<1>3. s \in Req
  BY <1>a, IdleFits DEF Req, Steps, Kinds
<1>2. s.step = first /\ s.kind = kind /\ s.id = t /\ s.title = new /\ s.cur = t
  BY <1>a, IdleFits DEF Req
<1>1. /\ s.step = first /\ s.kind = kind /\ s.id = t /\ s.title = new /\ s.cur = t
      /\ s.copy = Nil /\ s.base = Nil /\ s.sess = <<>> /\ s.writes = <<>>
      /\ s.todo = {} /\ s.planning = FALSE
  BY <1>2 DEF Idle
<1>4. Fits(s)
  BY <1>a, <1>1 DEF Fits, Empty, Kinds
<1> HIDE DEF s
<1>6. ReqInv' /\ Others(p) /\ req'[p] = s
  BY <1>3, <1>4, <1>5, SetFacts
<1>7. StoredInv'
  BY <1>5, BoundsAssumption DEF Start, StoredInv, Typed, cached
<1>8. req[p] = Idle
  BY <1>5, ReqFacts DEF Fits
<1> QED
  BY <1>a, <1>1, <1>6, <1>7, <1>8 DEF Typed

OnCreateEvent(r, s, dated, made, answered) ==
    /\ Job(r, s) /\ s.step = "insert" /\ r.step = "event"
    /\ s.cur = r.cur /\ s.base = Nil /\ s.sess = r.sess /\ s.writes = r.writes
    /\ s.todo = {} /\ s.planning = FALSE /\ s.copy \in Row
    /\ s.copy.title = r.title /\ s.copy.dated = dated /\ s.copy.event = (made /\ answered)
    /\ s.copy.syncError = FALSE /\ s.copy.deleted = FALSE
    /\ r.id \in Ids /\ r.title \in Titles /\ r.kind = "create" /\ r.cur = r.id
    /\ (made => dated)
    /\ events' = IF made THEN [events EXCEPT ![r.id] = r.title] ELSE events
    /\ IF answered THEN faults' = faults ELSE made /\ faults' = faults \cup {"google"}
    /\ UNCHANGED <<rows, linked, copies, list, redis, raced, known, left>>

LEMMA CreateEventEffect ==
  ASSUME Typed, NEW p \in Procs, NEW dated \in BOOLEAN, NEW made \in BOOLEAN,
         NEW answered \in BOOLEAN, CreateEvent(p, dated, made, answered)
  PROVE  Typed' /\ Others(p) /\ OnCreateEvent(req[p], req'[p], dated, made, answered)
<1> DEFINE r == req[p]
<1> DEFINE row == [title |-> r.title, status |-> "Todo", dated |-> dated,
                   event |-> made /\ answered, syncError |-> FALSE, deleted |-> FALSE]
<1> DEFINE s == [r EXCEPT !.copy = row, !.step = "insert"]
<1>1. r \in Req /\ Fits(r) /\ r.step = "event" /\ Set(p, s)
  BY ReqFacts DEF CreateEvent, At
<1>2. r.title \in Titles /\ r.kind = "create" /\ r.cur = r.id /\ r.id \in Ids /\ r.base = Nil
      /\ r.copy = Nil /\ ~r.planning /\ r.todo = {} /\ Empty(r)
  BY <1>1 DEF Fits
<1>3. row \in Row
  BY <1>2 DEF Row
<1> HIDE DEF row
<1>4. s \in Req
  BY <1>1, <1>3 DEF Req, MaybeRow, Steps
<1>5. /\ Job(r, s) /\ s.step = "insert" /\ s.copy = row
      /\ s.cur = r.cur /\ s.base = Nil /\ s.sess = r.sess /\ s.writes = r.writes
      /\ s.todo = {} /\ s.planning = FALSE
  BY <1>1, <1>2 DEF Req, Job
<1> HIDE DEF s
<1>6. Fits(s)
  BY <1>2, <1>3, <1>5 DEF Fits, Empty, Job
<1>7. ReqInv' /\ Others(p) /\ req'[p] = s
  BY <1>1, <1>4, <1>6, SetFacts
<1>8. StoredInv'
  BY <1>2 DEF CreateEvent, StoredInv, Typed, cached
<1>9. /\ (made => dated)
      /\ events' = IF made THEN [events EXCEPT ![r.id] = r.title] ELSE events
      /\ IF answered THEN faults' = faults ELSE made /\ faults' = faults \cup {"google"}
      /\ UNCHANGED <<rows, linked, copies, list, redis, raced, known, left>>
  BY DEF CreateEvent, NoFault, Fault, cached
<1> USE DEF OnCreateEvent, cached, history
<1> QED
  BY <1>1, <1>2, <1>3, <1>5, <1>7, <1>8, <1>9 DEF Typed, row

OnInsert(p, r, s) ==
    /\ Job(r, s) /\ r.step = "insert" /\ s.step = "plan"
    /\ LockFree(p, r.id) /\ r.id \in Ids /\ r.copy \in Row
    /\ s.cur = r.cur /\ s.copy = r.copy /\ s.base = Nil
    /\ s.todo = {} /\ s.planning = FALSE
    /\ DOMAIN r.writes = {} /\ DOMAIN r.sess = {}
    /\ DOMAIN s.writes = {r.id} /\ s.writes[r.id] = r.copy
    /\ DOMAIN s.sess = {r.id} /\ s.sess[r.id] = r.copy
    /\ Cache(r.id, r.copy) /\ UNCHANGED <<rows, linked, events, faults, raced, known, left>>

LEMMA InsertEffect ==
  ASSUME Typed, NEW p \in Procs, Insert(p)
  PROVE  Typed' /\ Others(p) /\ OnInsert(p, req[p], req'[p])
<1> DEFINE r == req[p]
<1> DEFINE w == With(r.writes, r.id, r.copy)
<1> DEFINE ss == With(r.sess, r.id, r.copy)
<1> DEFINE s == [r EXCEPT !.writes = w, !.sess = ss, !.step = "plan"]
<1>1. r \in Req /\ Fits(r) /\ r.step = "insert" /\ Set(p, s)
  BY ReqFacts DEF Insert, At
<1>2. /\ r.kind = "create" /\ r.cur = r.id /\ r.id \in Ids /\ r.base = Nil
      /\ r.copy \in Row /\ ~r.planning /\ r.todo = {} /\ r.sess = <<>> /\ r.writes = <<>>
      /\ r.title \in Titles
  BY <1>1 DEF Fits, Empty
<1>3. /\ w \in Partial(MaybeRow) /\ DOMAIN w = {r.id} /\ w[r.id] = r.copy
      /\ ss \in Partial(Row) /\ DOMAIN ss = {r.id} /\ ss[r.id] = r.copy
  <2>1. r.copy \in MaybeRow
    BY <1>2 DEF MaybeRow
  <2>2. <<>> \in Partial(MaybeRow) /\ <<>> \in Partial(Row) /\ DOMAIN <<>> = {}
    BY EmptyPartial
  <2> DEFINE e == <<>>
  <2> DEFINE t == r.id
  <2> DEFINE v == r.copy
  <2>3. e \in Partial(MaybeRow) /\ e \in Partial(Row) /\ DOMAIN e = {} /\ t \in Ids /\ v \in Row
        /\ v \in MaybeRow
    BY <1>2, <2>1, <2>2
  <2> HIDE DEF e, t, v
  <2>6. e \in Partial(MaybeRow) /\ t \in Ids /\ v \in MaybeRow
    BY <2>3
  <2>4. With(e, t, v) \in Partial(MaybeRow)
    BY <2>6, WithFacts
  <2>7. e \in Partial(Row) /\ t \in Ids /\ v \in Row
    BY <2>3
  <2>5. /\ With(e, t, v) \in Partial(Row) /\ DOMAIN With(e, t, v) = DOMAIN e \cup {t}
        /\ With(e, t, v)[t] = v
    BY <2>7, WithFacts
  <2> QED
    BY <1>2, <2>3, <2>4, <2>5 DEF e, t, v
<1> HIDE DEF w, ss
<1>4. s \in Req
  BY <1>1, <1>3 DEF Req, Steps
<1>5. /\ Job(r, s) /\ s.step = "plan" /\ s.cur = r.cur /\ s.copy = r.copy /\ s.base = Nil
      /\ s.writes = w /\ s.sess = ss /\ s.todo = {} /\ s.planning = FALSE
  BY <1>1, <1>2 DEF Req, Job
<1> HIDE DEF s
<1>6. Fits(s)
  BY <1>2, <1>3, <1>5 DEF Fits, Job
<1>7. ReqInv' /\ Others(p) /\ req'[p] = s
  BY <1>1, <1>4, <1>6, SetFacts
<1>8. Cache(r.id, r.copy) /\ UNCHANGED <<rows, linked, events, history>> /\ LockFree(p, r.id)
  BY DEF Insert
<1>9. r.copy \in MaybeRow /\ StoredInv
  BY <1>2 DEF MaybeRow, Typed
<1>10. copies' \in [Ids -> MaybeRow] /\ (list' = Nil \/ list' \in Partial(Row)) /\ redis' = redis
  BY <1>2, <1>8, <1>9, CacheFacts
<1>11. StoredInv'
  BY <1>8, <1>9, <1>10 DEF StoredInv, history
<1>12. DOMAIN r.writes = {} /\ DOMAIN r.sess = {}
  BY <1>2
<1> USE DEF OnInsert, cached, history
<1> QED
  BY <1>1, <1>2, <1>3, <1>5, <1>7, <1>8, <1>11, <1>12 DEF Typed

\* find_one, or the read before an update.
OnRead(r, s) ==
    /\ r.step \in {"find", "read"} /\ r.cur = r.id /\ r.id \in Ids
    /\ r.kind # "create" /\ DOMAIN r.writes = {} /\ r.writes = <<>>
    /\ UNCHANGED <<rows, linked, events, list, redis, faults, raced, known, left>>
    /\ \E o \in MaybeRow, ss \in Partial(Row) :
        /\ Loads(r, r.id, o, ss) /\ Fills(r, r.id, o)
        /\ o = Nil => s = Idle
        /\ o # Nil =>
            /\ \/ s.step = "read" /\ s.copy = Nil
               \/ s.step \in {"commit", "google"} /\ s.copy = o
            /\ Job(r, s) /\ s.cur = r.cur /\ s.base = Nil /\ s.writes = r.writes
            /\ s.sess = ss /\ s.todo = {} /\ s.planning = FALSE

LEMMA ReadEffect ==
  ASSUME Typed, NEW p \in Procs, Read(p)
  PROVE  Typed' /\ Others(p) /\ OnRead(req[p], req'[p])
<1> DEFINE r == req[p]
<1> DEFINE got == GetById(r, r.id)
<1> DEFINE o == got.copy
<1> DEFINE ss == got.sess
<1>1. r \in Req /\ Fits(r) /\ r.step \in {"find", "read"}
  BY ReqFacts DEF Read
<1>2. /\ r.kind # "create" /\ r.cur = r.id /\ r.id \in Ids /\ r.base = Nil
      /\ r.planning = FALSE /\ r.todo = {} /\ r.writes = <<>> /\ (r.kind = "edit" => r.title \in Titles)
  BY <1>1 DEF Fits, Req
<1>3. StoredInv /\ FillCopy(r, r.id) /\ UNCHANGED <<rows, linked, events, history>>
  BY DEF Read, Typed
<1>4. /\ got = [r EXCEPT !.copy = o, !.sess = ss] /\ o \in MaybeRow /\ ss \in Partial(Row)
      /\ Loads(r, r.id, o, ss) /\ Fills(r, r.id, o) /\ UNCHANGED <<list, redis>>
  BY <1>1, <1>2, <1>3, GetByIdFacts
<1>5. copies' \in [Ids -> MaybeRow]
  BY <1>1, <1>2, <1>3, <1>4, FillsFacts
<1>6. StoredInv'
  BY <1>3, <1>4, <1>5 DEF StoredInv, history
<1> USE DEF OnRead, cached, history
<1>7. CASE o = Nil
  <2>1. Set(p, Idle)
    BY <1>7 DEF Read
  <2>2. ReqInv' /\ Others(p) /\ req'[p] = Idle
    BY <2>1, ResetEffect
  <2>3. DOMAIN r.writes = {}
    BY <1>2
  <2> HIDE DEF r, o, ss, got
  <2> QED
    BY <1>1, <1>2, <1>3, <1>4, <1>6, <1>7, <2>2, <2>3 DEF Typed, r
<1>8. CASE o # Nil
  <2>1. PICK st \in {"read", "commit", "google"}, c \in {Nil, o} :
          /\ Set(p, [got EXCEPT !.copy = c, !.step = st])
          /\ IF st = "read" THEN c = Nil ELSE c = o
    <3>1. CASE r.step = "find"
      <4>1. Set(p, [got EXCEPT !.copy = Nil, !.step = "read"])
        BY <1>8, <3>1 DEF Read
      <4> QED
        BY <4>1
    <3>2. CASE r.step # "find"
      <4>1. PICK st \in {"commit", "google"} : Set(p, [got EXCEPT !.step = st])
        BY <1>8, <3>2 DEF Read
      <4> HIDE DEF o, ss, r
      <4>2. [got EXCEPT !.step = st] = [got EXCEPT !.copy = o, !.step = st]
        BY <1>1, <1>4 DEF Req
      <4> QED
        BY <4>1, <4>2
    <3> QED
      BY <3>1, <3>2
  <2> DEFINE s == [got EXCEPT !.copy = c, !.step = st]
  <2> HIDE DEF o, ss, r, got
  <2>2. s \in Req
    BY <1>1, <1>4, <2>1 DEF Req, Steps, MaybeRow
  <2>3. /\ s.step = st /\ s.copy = c /\ Job(r, s) /\ s.cur = r.cur /\ s.base = Nil
        /\ s.writes = r.writes /\ s.sess = ss /\ s.todo = {} /\ s.planning = FALSE
    BY <1>1, <1>2, <1>4 DEF Req, Job
  <2> HIDE DEF s
  <2>4. Fits(s)
    BY <1>2, <1>4, <1>8, <2>1, <2>3 DEF Fits, Job, MaybeRow
  <2>5. ReqInv' /\ Others(p) /\ req'[p] = s
    BY <2>1, <2>2, <2>4, SetFacts DEF s
  <2>6. DOMAIN r.writes = {}
    BY <1>2
  <2>7. \/ s.step = "read" /\ s.copy = Nil
        \/ s.step \in {"commit", "google"} /\ s.copy = o
    BY <2>1, <2>3
  <2> QED
    BY <1>1, <1>2, <1>3, <1>4, <1>6, <1>8, <2>3, <2>5, <2>6, <2>7 DEF Typed, r
<1> QED
  BY <1>7, <1>8

\* merge(): what the session believes is stored.
LEMMA MergedFacts ==
  ASSUME StoredInv, NEW r \in Req, r.cur \in Ids
  PROVE  LET s == Merged(r) IN
         /\ s \in Req /\ s.step = "flush" /\ s.base = Fetched(r, r.cur) /\ s.base \in MaybeRow
         /\ Job(r, s) /\ s.cur = r.cur /\ s.copy = r.copy /\ s.sess = r.sess
         /\ s.writes = r.writes /\ s.todo = r.todo /\ s.planning = r.planning
<1> DEFINE b == Fetched(r, r.cur)
<1>1. r.cur \in DOMAIN r.sess => r.sess[r.cur] \in Row
  BY PartialFacts DEF Req
<1>2. b \in MaybeRow
  BY <1>1, SeenFacts DEF Fetched, MaybeRow
<1>3. Merged(r) = [r EXCEPT !.base = b, !.step = "flush"]
  BY DEF Merged, Fetched
<1> HIDE DEF b
<1> QED
  BY <1>2, <1>3 DEF Req, Job, b, Steps

OnGoogle(r, s, ok) ==
    LET t == r.id IN
    /\ Job(r, s) /\ r.step = "google" /\ s.step = "flush"
    /\ r.kind # "create" /\ r.cur = t /\ t \in Ids /\ r.copy \in Row /\ DOMAIN r.writes = {}
    /\ s.cur = t /\ s.base = Fetched(r, t) /\ s.sess = r.sess /\ s.writes = r.writes
    /\ s.todo = {} /\ s.planning = FALSE /\ s.copy \in Row
    /\ s.copy.dated = r.copy.dated /\ s.copy.event = r.copy.event
    /\ s.copy.deleted = r.copy.deleted
    /\ s.copy.title = (IF r.kind = "edit" THEN r.title ELSE r.copy.title)
    /\ s.copy.status = (IF r.kind = "done" THEN "Done" ELSE r.copy.status)
    /\ IF r.kind = "remove"
       THEN /\ s.copy = r.copy
            /\ events' = IF r.copy.event /\ ok THEN [events EXCEPT ![t] = Nil] ELSE events
       ELSE IF r.copy.event /\ r.copy.dated
       THEN /\ s.copy.syncError = ~(ok /\ events[t] # Nil)
            /\ \/ events' = events /\ ~(ok /\ events[t] # Nil)
               \/ events[t] # Nil /\ events' = [events EXCEPT ![t] = s.copy.title]
       ELSE s.copy.syncError = r.copy.syncError /\ events' = events
    /\ IF ok THEN faults' = faults ELSE faults' = faults \cup {"google"} /\ r.copy.event
    /\ UNCHANGED <<rows, linked, copies, list, redis, raced, known, left>>

LEMMA GoogleEffect ==
  ASSUME Typed, NEW p \in Procs, NEW ok \in BOOLEAN, Google(p, ok)
  PROVE  Typed' /\ Others(p) /\ OnGoogle(req[p], req'[p], ok)
<1> USE DEF OnGoogle, cached, history
<1> DEFINE r == req[p]
<1> DEFINE t == req[p].id
<1>1. r \in Req /\ Fits(r) /\ r.step = "google" /\ StoredInv
  BY ReqFacts DEF Google, At, Typed
<1>2. /\ r.kind # "create" /\ r.cur = t /\ t \in Ids /\ r.copy \in Row /\ r.writes = <<>>
      /\ r.planning = FALSE /\ r.todo = {} /\ (r.kind = "edit" => r.title \in Titles)
  BY <1>1 DEF Fits, Req
<1>3. /\ UNCHANGED <<rows, linked, cached, raced, known, left>>
      /\ IF ok THEN faults' = faults ELSE faults' = faults \cup {"google"} /\ r.copy.event
  BY DEF Google, NoFault, Fault
<1>4. DOMAIN r.writes = {}
  BY <1>2
\* However the object changes, the merge follows.
<1>5. ASSUME NEW c \in Row, Set(p, Merged([r EXCEPT !.copy = c]))
      PROVE  LET s == req'[p] IN
             /\ ReqInv' /\ Others(p) /\ Job(r, s) /\ s.step = "flush" /\ s.cur = t
             /\ s.base = Fetched(r, t) /\ s.sess = r.sess /\ s.writes = r.writes
             /\ s.todo = {} /\ s.planning = FALSE /\ s.copy = c
  <2> DEFINE x == [r EXCEPT !.copy = c]
  <2> DEFINE s == Merged(x)
  <2> HIDE DEF r, t
  <2>1. x \in Req
    BY <1>1, <1>5 DEF Req, MaybeRow
  <2>2. /\ x.cur = r.cur /\ x.copy = c /\ x.sess = r.sess /\ x.writes = r.writes
        /\ x.todo = r.todo /\ x.planning = r.planning /\ Job(r, x)
    BY <1>1 DEF Req, Job
  <2> HIDE DEF x
  <2>3. x.cur \in Ids
    BY <1>2, <2>2
  <2>4. /\ s \in Req /\ s.step = "flush" /\ s.base = Fetched(x, x.cur) /\ s.base \in MaybeRow
        /\ Job(x, s) /\ s.cur = x.cur /\ s.copy = x.copy /\ s.sess = x.sess
        /\ s.writes = x.writes /\ s.todo = x.todo /\ s.planning = x.planning
    BY <1>1, <2>1, <2>3, MergedFacts
  <2>5. s.base = Fetched(r, t)
    BY <1>2, <2>2, <2>4 DEF Fetched, Seen
  <2> HIDE DEF s
  <2>8. /\ s.kind = r.kind /\ s.id = t /\ s.title = r.title /\ s.step = "flush" /\ s.cur = t
        /\ s.copy \in Row /\ s.planning = FALSE /\ s.todo = {}
    BY <1>2, <2>2, <2>4 DEF Job, t, r
  <2>6. Fits(s)
    BY <1>2, <2>8 DEF Fits
  <2>7. ReqInv' /\ Others(p) /\ req'[p] = s
    BY <1>5, <2>4, <2>6, SetFacts DEF s, x, r
  <2> QED
    BY <1>2, <2>2, <2>4, <2>5, <2>7 DEF Job
<1>6. CASE r.kind = "remove"
  <2>1. /\ Set(p, Merged(r))
        /\ events' = IF r.copy.event /\ ok THEN [events EXCEPT ![t] = Nil] ELSE events
    BY <1>6 DEF Google
  <2>2. r = [r EXCEPT !.copy = r.copy]
    BY <1>1 DEF Req
  <2>3. Set(p, Merged([r EXCEPT !.copy = r.copy]))
    BY <2>1, <2>2
  <2>4. StoredInv'
    BY <1>1, <1>2, <1>3, <2>1 DEF StoredInv, cached
  <2>5. r.copy \in Row
    BY <1>2
  <2> HIDE DEF r, t
  <2> QED
    BY <1>1, <1>2, <1>3, <1>4, <1>5, <1>6, <2>1, <2>3, <2>4, <2>5 DEF Typed, r, t
<1>7. CASE r.kind # "remove"
  <2> DEFINE want == Wanted(r)
  <2>1. /\ want \in Row /\ want.event = r.copy.event /\ want.syncError = r.copy.syncError
        /\ want.dated = r.copy.dated /\ want.deleted = r.copy.deleted
        /\ want.title = (IF r.kind = "edit" THEN r.title ELSE r.copy.title)
        /\ want.status = (IF r.kind = "done" THEN "Done" ELSE r.copy.status)
    <3>1. r.copy.dated \in BOOLEAN
      BY <1>2 DEF Row
    <3> QED
      BY <1>1, <1>2, <1>7, <3>1, WantedFacts
  <2>2. PICK c \in Row :
          /\ Set(p, Merged([r EXCEPT !.copy = c]))
          /\ c.title = want.title /\ c.status = want.status /\ c.dated = want.dated
          /\ c.event = want.event /\ c.deleted = want.deleted
          /\ IF r.copy.event /\ r.copy.dated
             THEN /\ c.syncError = ~(ok /\ events[t] # Nil)
                  /\ \/ events' = events /\ ~(ok /\ events[t] # Nil)
                     \/ events[t] # Nil /\ events' = [events EXCEPT ![t] = want.title]
             ELSE c.syncError = r.copy.syncError /\ events' = events
    <3> HIDE DEF want
    <3>0. Patched(p, ok)
      BY <1>7 DEF Google
    <3>1. CASE ~(r.copy.event /\ r.copy.dated)
      <4>1. UNCHANGED events /\ Set(p, Merged([r EXCEPT !.copy = want]))
        BY <3>0, <3>1 DEF Patched, want
      <4> QED
        BY <2>1, <3>1, <4>1
    <3>2. CASE r.copy.event /\ r.copy.dated /\ ok /\ events[t] # Nil
      <4> DEFINE c == [want EXCEPT !.syncError = FALSE]
      <4>1. events' = [events EXCEPT ![t] = want.title] /\ Set(p, Merged([r EXCEPT !.copy = c]))
        BY <3>0, <3>2 DEF Patched, want
      <4>2. /\ c \in Row /\ c.title = want.title /\ c.status = want.status /\ c.dated = want.dated
            /\ c.event = want.event /\ c.deleted = want.deleted /\ c.syncError = FALSE
        BY <2>1 DEF Row
      <4> HIDE DEF c
      <4> QED
        BY <3>2, <4>1, <4>2
    <3>3. CASE r.copy.event /\ r.copy.dated /\ ~(ok /\ events[t] # Nil)
      <4> DEFINE c == [want EXCEPT !.syncError = TRUE]
      <4>1. /\ events' \in {events, IF events[t] = Nil THEN events
                                   ELSE [events EXCEPT ![t] = want.title]}
            /\ Set(p, Merged([r EXCEPT !.copy = c]))
        BY <3>0, <3>3 DEF Patched, want
      <4>2. /\ c \in Row /\ c.title = want.title /\ c.status = want.status /\ c.dated = want.dated
            /\ c.event = want.event /\ c.deleted = want.deleted /\ c.syncError = TRUE
        BY <2>1 DEF Row
      <4> HIDE DEF c
      <4> QED
        BY <3>3, <4>1, <4>2
    <3> QED
      BY <3>1, <3>2, <3>3
  <2>3. want.title \in Titles
    BY <2>1 DEF Row
  <2>4. StoredInv'
    BY <1>1, <1>2, <1>3, <2>2, <2>3 DEF StoredInv, cached
  <2> DEFINE s == req'[p]
  <2> HIDE DEF r, t, want, s
  <2>5. /\ ReqInv' /\ Others(p) /\ Job(r, s) /\ s.step = "flush" /\ s.cur = t
        /\ s.base = Fetched(r, t) /\ s.sess = r.sess /\ s.writes = r.writes
        /\ s.todo = {} /\ s.planning = FALSE /\ s.copy = c
    BY <1>5, <2>2 DEF s
  <2>6. /\ s.copy \in Row /\ s.copy.dated = r.copy.dated /\ s.copy.event = r.copy.event
        /\ s.copy.deleted = r.copy.deleted
        /\ s.copy.title = (IF r.kind = "edit" THEN r.title ELSE r.copy.title)
        /\ s.copy.status = (IF r.kind = "done" THEN "Done" ELSE r.copy.status)
    BY <2>1, <2>2, <2>5
  <2>7. IF r.copy.event /\ r.copy.dated
        THEN /\ s.copy.syncError = ~(ok /\ events[t] # Nil)
             /\ \/ events' = events /\ ~(ok /\ events[t] # Nil)
                \/ events[t] # Nil /\ events' = [events EXCEPT ![t] = s.copy.title]
        ELSE s.copy.syncError = r.copy.syncError /\ events' = events
    BY <2>2, <2>5
  <2> QED
    BY <1>1, <1>2, <1>3, <1>4, <1>7, <2>4, <2>5, <2>6, <2>7 DEF Typed, r, t, s
<1> QED
  BY <1>6, <1>7

OnMerge(r, s) ==
    /\ Job(r, s) /\ r.step = "merge" /\ s.step = "flush"
    /\ r.cur \in Ids /\ r.copy \in Row /\ r.planning = TRUE
    /\ s.cur = r.cur /\ s.copy = r.copy /\ s.base = Fetched(r, r.cur)
    /\ s.sess = r.sess /\ s.writes = r.writes /\ s.todo = r.todo /\ s.planning = r.planning
    /\ UNCHANGED <<rows, linked, events, copies, list, redis, faults, raced, known, left>>

LEMMA MergePlannedEffect ==
  ASSUME Typed, NEW p \in Procs, MergePlanned(p)
  PROVE  Typed' /\ Others(p) /\ OnMerge(req[p], req'[p])
<1> DEFINE r == req[p]
<1> DEFINE s == Merged(r)
<1>1. r \in Req /\ Fits(r) /\ r.step = "merge" /\ StoredInv /\ Set(p, s)
      /\ UNCHANGED <<rows, linked, events, cached, history>>
  BY ReqFacts DEF MergePlanned, At, Typed
<1>2. r.cur \in Ids /\ r.copy \in Row /\ r.planning = TRUE
  BY <1>1 DEF Fits, Req
<1>3. /\ s \in Req /\ s.step = "flush" /\ s.base = Fetched(r, r.cur) /\ s.base \in MaybeRow
      /\ Job(r, s) /\ s.cur = r.cur /\ s.copy = r.copy /\ s.sess = r.sess
      /\ s.writes = r.writes /\ s.todo = r.todo /\ s.planning = r.planning
  BY <1>1, <1>2, MergedFacts
<1> HIDE DEF s
<1>4. Fits(s)
  BY <1>1, <1>2, <1>3 DEF Fits, Job
<1>5. ReqInv' /\ Others(p) /\ req'[p] = s
  BY <1>1, <1>3, <1>4, SetFacts
<1>6. StoredInv'
  BY <1>1 DEF StoredInv, cached, history
<1> USE DEF OnMerge, cached, history
<1> QED
  BY <1>1, <1>2, <1>3, <1>5, <1>6 DEF Typed

\* What a save writes: the object, or what a removal or the planner makes of it.
Wish(r) == IF r.planning \/ r.kind = "remove" THEN Wanted(r) ELSE r.copy
Flushes(r, row) ==
    \/ Erases(r) /\ r.base # Nil /\ row = Nil
    \/ ~Erases(r) /\ r.base = Nil /\ Seen(r, r.cur) = Nil /\ row = Wish(r)
    \/ /\ ~Erases(r) /\ r.base # Nil /\ Seen(r, r.cur) # Nil
       /\ row = Updated(r.base, Wish(r), Seen(r, r.cur))

LEMMA WishFacts ==
  ASSUME NEW r \in Req, Fits(r), r.step = "flush"
  PROVE  LET want == Wish(r) IN
         /\ r.copy \in Row /\ r.cur \in Ids /\ (~r.planning => r.cur = r.id /\ r.kind # "create")
         /\ want \in Row /\ want.event = r.copy.event /\ want.syncError = r.copy.syncError
         /\ want.dated = (r.copy.dated \/ r.planning)
         /\ want.title = r.copy.title
         /\ want.status = IF r.planning THEN "Scheduled" ELSE r.copy.status
         /\ want.deleted = IF ~r.planning /\ r.kind = "remove" THEN r.copy.status = "Done"
                           ELSE r.copy.deleted
         /\ Erases(r) <=> r.kind = "remove" /\ ~r.planning /\ r.copy.status # "Done"
<1>1. /\ r.copy \in Row /\ r.cur \in Ids /\ (~r.planning => r.cur = r.id /\ r.kind # "create")
      /\ (r.kind = "edit" => r.title \in Titles) /\ r.planning \in BOOLEAN
  BY DEF Fits, Req
<1>2. Erases(r) <=> r.kind = "remove" /\ ~r.planning /\ r.copy.status # "Done"
  BY DEF Erases
<1>3. CASE r.planning \/ r.kind = "remove"
  <2>1. Wish(r) = Wanted(r)
    BY <1>3 DEF Wish
  <2>2. /\ Wanted(r) \in Row /\ Wanted(r).event = r.copy.event
        /\ Wanted(r).syncError = r.copy.syncError
        /\ Wanted(r).dated = (r.copy.dated \/ r.planning)
        /\ Wanted(r).title = IF ~r.planning /\ r.kind = "edit" THEN r.title ELSE r.copy.title
        /\ Wanted(r).status = IF r.planning THEN "Scheduled"
                              ELSE IF r.kind = "done" THEN "Done" ELSE r.copy.status
        /\ Wanted(r).deleted = IF ~r.planning /\ r.kind = "remove" THEN r.copy.status = "Done"
                               ELSE r.copy.deleted
    BY <1>1, <1>3, WantedFacts
  <2> QED
    BY <1>1, <1>2, <1>3, <2>1, <2>2
<1>4. CASE ~(r.planning \/ r.kind = "remove")
  <2>1. Wish(r) = r.copy /\ r.copy.dated \in BOOLEAN
    BY <1>1, <1>4 DEF Wish, Row
  <2> QED
    BY <1>1, <1>2, <1>4, <2>1
<1> QED
  BY <1>3, <1>4

LEMMA FlushedFacts ==
  ASSUME StoredInv, NEW r \in Req, Fits(r), r.step = "flush", NEW row \in Flushed(r)
  PROVE  row \in MaybeRow /\ Flushes(r, row)
<1> DEFINE now == Seen(r, r.cur)
<1>1. r.cur \in Ids /\ Wish(r) \in Row /\ r.base \in MaybeRow /\ now \in MaybeRow
  BY WishFacts, SeenFacts DEF Req
<1>2. Flushed(r) = IF Erases(r) THEN IF r.base = Nil THEN {} ELSE {Nil}
                   ELSE IF r.base = Nil THEN IF now = Nil THEN {Wish(r)} ELSE {}
                   ELSE IF now = Nil THEN {} ELSE {Updated(r.base, Wish(r), now)}
  BY DEF Flushed, Wish
<1>3. Flushes(r, row)
  BY <1>2 DEF Flushes
<1>4. r.base # Nil /\ now # Nil => Updated(r.base, Wish(r), now) \in Row
  BY <1>1, UpdatedFacts DEF MaybeRow
<1> QED
  BY <1>1, <1>3, <1>4 DEF Flushes, MaybeRow

OnFlush(p, r, s) ==
    LET t == r.cur IN
    /\ Job(r, s) /\ r.step = "flush" /\ LockFree(p, t)
    /\ t \in Ids /\ s.cur = t /\ s.copy = Nil /\ s.base = Nil /\ s.step = AfterFlush(r)
    /\ s.todo = r.todo /\ s.planning = r.planning
    /\ UNCHANGED <<rows, linked, events, redis, faults, raced, known, left>>
    /\ \E row \in MaybeRow :
        /\ Flushes(r, row) /\ Cache(t, row)
        /\ DOMAIN s.writes = DOMAIN r.writes \cup {t} /\ s.writes[t] = row
        /\ \A x \in DOMAIN r.writes : x # t => s.writes[x] = r.writes[x]
        /\ DOMAIN s.sess = IF row = Nil THEN DOMAIN r.sess \ {t} ELSE DOMAIN r.sess \cup {t}
        /\ row # Nil => s.sess[t] = row
        /\ \A x \in DOMAIN r.sess : x # t => s.sess[x] = r.sess[x]

LEMMA FlushEffect ==
  ASSUME Typed, NEW p \in Procs, Flush(p)
  PROVE  Typed' /\ Others(p) /\ OnFlush(p, req[p], req'[p])
<1> DEFINE r == req[p]
<1> DEFINE t == req[p].cur
<1>1. r \in Req /\ Fits(r) /\ r.step = "flush" /\ StoredInv /\ LockFree(p, t)
      /\ UNCHANGED <<rows, linked, events, history>>
  BY ReqFacts DEF Flush, At, Typed
<1>2. PICK row :
        /\ row \in Flushed(r)
        /\ Set(p, [r EXCEPT !.writes = With(@, r.cur, row),
                            !.sess = IF row = Nil
                                     THEN [x \in DOMAIN @ \ {r.cur} |-> @[x]]
                                     ELSE With(@, r.cur, row),
                            !.copy = Nil, !.base = Nil, !.step = AfterFlush(r)])
        /\ Cache(r.cur, row)
  BY DEF Flush
<1>3. row \in MaybeRow /\ Flushes(r, row)
  BY <1>1, <1>2, FlushedFacts
<1>4. t \in Ids /\ (~r.planning => t = r.id /\ r.kind # "create") /\ r.planning \in BOOLEAN
      /\ (r.kind = "edit" => r.title \in Titles) /\ (~r.planning => r.todo = {}) /\ r.id \in Ids
      /\ (r.kind = "create" => r.id \in DOMAIN r.writes)
  BY <1>1, WishFacts DEF Fits, Req
<1> DEFINE w == With(r.writes, t, row)
<1> DEFINE ss == IF row = Nil THEN [x \in DOMAIN r.sess \ {t} |-> r.sess[x]]
                ELSE With(r.sess, t, row)
<1> DEFINE st == AfterFlush(r)
<1> DEFINE s == [r EXCEPT !.writes = w, !.sess = ss, !.copy = Nil, !.base = Nil, !.step = st]
<1>5. Set(p, s) /\ Cache(t, row)
  BY <1>2
<1>6. r.writes \in Partial(MaybeRow) /\ r.sess \in Partial(Row)
  BY <1>1 DEF Req
<1>7. /\ w \in Partial(MaybeRow) /\ DOMAIN w = DOMAIN r.writes \cup {t} /\ w[t] = row
      /\ \A x \in DOMAIN r.writes : x # t => w[x] = r.writes[x]
  <2> DEFINE f == r.writes
  <2> DEFINE v == row
  <2> HIDE DEF f, t, v
  <2>1. f \in Partial(MaybeRow) /\ t \in Ids /\ v \in MaybeRow
    BY <1>3, <1>4, <1>6 DEF f, t, v
  <2>2. /\ With(f, t, v) \in Partial(MaybeRow) /\ DOMAIN With(f, t, v) = DOMAIN f \cup {t}
        /\ With(f, t, v)[t] = v
        /\ \A x \in DOMAIN f : x # t => With(f, t, v)[x] = f[x]
    BY <2>1, WithFacts
  <2> QED
    BY <2>2 DEF f, v
<1>8. /\ ss \in Partial(Row)
      /\ DOMAIN ss = IF row = Nil THEN DOMAIN r.sess \ {t} ELSE DOMAIN r.sess \cup {t}
      /\ (row # Nil => ss[t] = row)
      /\ \A x \in DOMAIN r.sess : x # t => ss[x] = r.sess[x]
  <2> DEFINE f == r.sess
  <2>1. f \in Partial(Row) /\ t \in Ids /\ row \in MaybeRow
    BY <1>3, <1>4, <1>6
  <2>2. CASE row = Nil
    <3> HIDE DEF t, f
    <3> DEFINE g == [x \in DOMAIN f \ {t} |-> f[x]]
    <3>1. ss = g
      BY <2>2 DEF f
    <3>2. DOMAIN f \in SUBSET Ids /\ \A x \in DOMAIN f : f[x] \in Row
      BY <2>1, PartialFacts
    <3>3. g \in [DOMAIN f \ {t} -> Row] /\ DOMAIN f \ {t} \in SUBSET Ids
      BY <3>2
    <3>4. g \in Partial(Row)
      BY <3>3 DEF Partial
    <3>5. DOMAIN g = DOMAIN f \ {t} /\ \A x \in DOMAIN f : x # t => g[x] = f[x]
      OBVIOUS
    <3> HIDE DEF g, ss
    <3> QED
      BY <2>2, <3>1, <3>4, <3>5 DEF f
  <2>3. CASE row # Nil
    <3> DEFINE v == row
    <3> HIDE DEF t, f, v
    <3>1. f \in Partial(Row) /\ t \in Ids /\ v \in Row
      BY <2>1, <2>3 DEF MaybeRow, t, f, v
    <3>2. /\ With(f, t, v) \in Partial(Row) /\ DOMAIN With(f, t, v) = DOMAIN f \cup {t}
          /\ With(f, t, v)[t] = v
          /\ \A x \in DOMAIN f : x # t => With(f, t, v)[x] = f[x]
      BY <3>1, WithFacts
    <3>3. ss = With(f, t, v)
      BY <2>3 DEF f, v
    <3> HIDE DEF ss
    <3> QED
      BY <2>3, <3>2, <3>3 DEF f, v
  <2> QED
    BY <2>2, <2>3
<1>9. st = IF r.planning THEN "next" ELSE "plan"
  BY DEF AfterFlush
<1> HIDE DEF w, ss, st
<1>10. s \in Req
  BY <1>1, <1>7, <1>8, <1>9 DEF Req, Steps, MaybeRow
<1>11. /\ s.kind = r.kind /\ s.id = r.id /\ s.title = r.title /\ s.step = st /\ s.cur = t
       /\ s.copy = Nil /\ s.base = Nil /\ s.todo = r.todo /\ s.planning = r.planning
       /\ s.writes = w /\ s.sess = ss
  BY <1>1 DEF Req
<1> HIDE DEF s
<1>12. Fits(s)
  BY <1>4, <1>7, <1>9, <1>11 DEF Fits
<1>13. ReqInv' /\ Others(p) /\ req'[p] = s
  BY <1>5, <1>10, <1>12, SetFacts
<1>14. copies' \in [Ids -> MaybeRow] /\ (list' = Nil \/ list' \in Partial(Row)) /\ redis' = redis
  BY <1>1, <1>3, <1>4, <1>5, CacheFacts
<1>15. StoredInv'
  BY <1>1, <1>14 DEF StoredInv, history
<1> HIDE DEF r, t
<1>16. Job(r, s) /\ s.step = AfterFlush(r)
  BY <1>11 DEF Job, st
<1> USE DEF OnFlush, cached, history
<1> QED
  BY <1>1, <1>3, <1>4, <1>5, <1>7, <1>8, <1>11, <1>13, <1>14, <1>15, <1>16 DEF Typed, r, t

\* The list the planner works from.
Listed(r) == [t \in Active(r) |-> Fetched(r, t)]
Known(r) == IF list # Nil THEN list ELSE Listed(r)

OnPlan(r, s) ==
    /\ Job(r, s) /\ r.step = "plan" /\ s.step = "next"
    /\ s.cur = r.cur /\ s.copy = Nil /\ s.base = Nil /\ s.writes = r.writes
    /\ s.planning = TRUE
    /\ \A t \in s.todo : t \in DOMAIN Known(r) /\ Known(r)[t].status # "Done"
    /\ Known(r) \in Partial(Row)
    /\ IF list # Nil THEN s.sess = r.sess
       ELSE /\ DOMAIN s.sess = DOMAIN r.sess \cup Active(r)
            /\ \A t \in DOMAIN s.sess : s.sess[t] = Fetched(r, t)
    /\ list' = (IF redis THEN Known(r) ELSE list)
    /\ UNCHANGED <<rows, linked, events, copies, redis, faults, raced, known, left>>

LEMMA PlanEffect ==
  ASSUME Typed, NEW p \in Procs, NEW placed \in SUBSET Ids, Plan(p, placed)
  PROVE  Typed' /\ Others(p) /\ OnPlan(req[p], req'[p])
<1> DEFINE r == req[p]
<1>1. r \in Req /\ Fits(r) /\ r.step = "plan" /\ StoredInv
      /\ UNCHANGED <<rows, linked, events, copies, redis, history>>
  BY ReqFacts DEF Plan, At, Typed
<1>2. /\ r.base = Nil /\ r.planning = FALSE /\ (r.kind = "edit" => r.title \in Titles)
      /\ r.id \in Ids /\ (r.kind = "create" => r.id \in DOMAIN r.writes)
  BY <1>1 DEF Fits, Req
<1>3. \A t \in Active(r) : t \in Ids /\ Fetched(r, t) \in Row
  BY <1>1, SeenFacts DEF Active
<1>4. Listed(r) \in Partial(Row)
  <2>1. Listed(r) \in [Active(r) -> Row] /\ Active(r) \in SUBSET Ids
    BY <1>3 DEF Listed
  <2> QED
    BY <2>1 DEF Partial
<1>5. Known(r) \in Partial(Row)
  BY <1>1, <1>4 DEF Known, StoredInv
<1> DEFINE stored == [t \in Active(r) |-> IF t \in DOMAIN r.sess THEN r.sess[t] ELSE Seen(r, t)]
<1> DEFINE seen == IF list # Nil THEN list ELSE stored
<1> DEFINE ss == IF list # Nil THEN r.sess
                ELSE [t \in DOMAIN r.sess \cup Active(r) |->
                         IF t \in DOMAIN r.sess THEN r.sess[t] ELSE stored[t]]
<1> DEFINE s == [r EXCEPT !.todo = placed, !.planning = TRUE, !.copy = Nil,
                          !.sess = ss, !.step = "next"]
<1>6. stored = Listed(r) /\ seen = Known(r)
  BY DEF Listed, Fetched, Known
<1>7. /\ Set(p, s) /\ list' = (IF redis THEN seen ELSE list)
      /\ placed \in SUBSET {t \in DOMAIN seen : ~seen[t].dated /\ seen[t].status # "Done"}
  BY DEF Plan
<1>8. /\ ss \in Partial(Row)
      /\ IF list # Nil THEN ss = r.sess
         ELSE /\ DOMAIN ss = DOMAIN r.sess \cup Active(r)
              /\ \A t \in DOMAIN ss : ss[t] = Fetched(r, t)
  <2>1. DOMAIN r.sess \in SUBSET Ids /\ (\A t \in DOMAIN r.sess : r.sess[t] \in Row)
        /\ r.sess \in Partial(Row)
    BY <1>1, PartialFacts DEF Req
  <2>2. CASE list # Nil
    BY <2>1, <2>2
  <2>3. CASE list = Nil
    <3> DEFINE g == [t \in DOMAIN r.sess \cup Active(r) |-> Fetched(r, t)]
    <3> HIDE DEF r
    <3>1. ss = g
      BY <2>3 DEF Fetched
    <3>2. \A t \in DOMAIN r.sess \cup Active(r) : t \in Ids /\ Fetched(r, t) \in Row
      BY <1>3, <2>1 DEF Fetched
    <3>3. g \in [DOMAIN r.sess \cup Active(r) -> Row] /\ DOMAIN r.sess \cup Active(r) \in SUBSET Ids
      BY <3>2
    <3>4. g \in Partial(Row)
      BY <3>3 DEF Partial
    <3> HIDE DEF ss
    <3> QED
      BY <2>3, <3>1, <3>4
  <2> QED
    BY <2>2, <2>3
<1>9. \A t \in placed : t \in DOMAIN Known(r) /\ Known(r)[t].status # "Done"
  BY <1>6, <1>7
<1>10. list' = (IF redis THEN Known(r) ELSE list)
  BY <1>6, <1>7
<1> HIDE DEF ss, seen, stored
<1>11. s \in Req
  BY <1>1, <1>8 DEF Req, Steps, MaybeRow
<1>12. /\ s.kind = r.kind /\ s.id = r.id /\ s.title = r.title /\ s.step = "next" /\ s.cur = r.cur
       /\ s.copy = Nil /\ s.base = Nil /\ s.todo = placed /\ s.planning = TRUE
       /\ s.writes = r.writes /\ s.sess = ss
  BY <1>1, <1>2 DEF Req
<1> HIDE DEF s
<1>13. Fits(s)
  BY <1>2, <1>12 DEF Fits
<1>14. ReqInv' /\ Others(p) /\ req'[p] = s
  BY <1>7, <1>11, <1>13, SetFacts
<1>15. StoredInv'
  BY <1>1, <1>5, <1>10 DEF StoredInv, history
<1> HIDE DEF r
<1> USE DEF OnPlan, cached, history
<1> QED
  BY <1>1, <1>5, <1>8, <1>9, <1>10, <1>12, <1>14, <1>15 DEF Typed, Job, r

OnSave(r, s, t) ==
    /\ Job(r, s) /\ r.step = "next" /\ t \in r.todo
    /\ UNCHANGED <<rows, linked, events, list, redis, faults, raced, known, left>>
    /\ s.cur = t /\ s.base = Nil /\ s.writes = r.writes /\ s.todo = r.todo \ {t}
    /\ r.planning = TRUE /\ s.planning = TRUE
    /\ \E o \in MaybeRow, ss \in Partial(Row) :
        /\ Loads(r, t, o, ss) /\ Fills(r, t, o)
        /\ s.copy = o /\ s.sess = ss /\ s.step = IF o = Nil THEN "next" ELSE "merge"

LEMMA SavePlannedEffect ==
  ASSUME Typed, NEW p \in Procs, NEW t \in Ids, SavePlanned(p, t)
  PROVE  Typed' /\ Others(p) /\ OnSave(req[p], req'[p], t)
<1> DEFINE r == req[p]
<1> DEFINE got == GetById(r, t)
<1> DEFINE o == got.copy
<1> DEFINE ss == got.sess
<1> DEFINE st == IF o = Nil THEN "next" ELSE "merge"
<1> DEFINE s == [got EXCEPT !.todo = @ \ {t}, !.cur = t, !.step = st]
<1>1. /\ r \in Req /\ Fits(r) /\ r.step = "next" /\ t \in r.todo /\ StoredInv
      /\ Set(p, s) /\ FillCopy(r, t) /\ UNCHANGED <<rows, linked, events, history>>
  BY ReqFacts DEF SavePlanned, At, Typed
<1>2. /\ r.base = Nil /\ r.planning = TRUE /\ r.id \in Ids /\ (r.kind = "edit" => r.title \in Titles)
      /\ (r.kind = "create" => r.id \in DOMAIN r.writes)
  BY <1>1 DEF Fits, Req
<1>3. /\ got = [r EXCEPT !.copy = o, !.sess = ss] /\ o \in MaybeRow /\ ss \in Partial(Row)
      /\ Loads(r, t, o, ss) /\ Fills(r, t, o) /\ UNCHANGED <<list, redis>>
  BY <1>1, GetByIdFacts
<1>4. copies' \in [Ids -> MaybeRow]
  BY <1>1, <1>3, FillsFacts
<1>5. StoredInv'
  BY <1>1, <1>3, <1>4 DEF StoredInv, history
<1>6. st \in {"next", "merge"} /\ st = IF o = Nil THEN "next" ELSE "merge"
  OBVIOUS
<1> HIDE DEF o, ss, got, st
<1>7. s \in Req
  BY <1>1, <1>3, <1>6 DEF Req, Steps
<1>8. /\ s.kind = r.kind /\ s.id = r.id /\ s.title = r.title /\ s.step = st /\ s.cur = t
      /\ s.copy = o /\ s.base = Nil /\ s.todo = r.todo \ {t} /\ s.planning = TRUE
      /\ s.writes = r.writes /\ s.sess = ss
  BY <1>1, <1>2, <1>3 DEF Req
<1> HIDE DEF s, r
<1>9. Fits(s)
  BY <1>2, <1>3, <1>6, <1>8 DEF Fits, MaybeRow
<1>10. ReqInv' /\ Others(p) /\ req'[p] = s
  BY <1>1, <1>7, <1>9, SetFacts DEF s
<1> USE DEF OnSave, cached, history
<1> QED
  BY <1>1, <1>2, <1>3, <1>5, <1>6, <1>8, <1>10 DEF Typed, Job, r

OnCommit(r, s) ==
    /\ s = Idle /\ AtCommit(r) /\ r.step \in {"commit", "next"}
    /\ \A t \in Ids : rows'[t] = Seen(r, t)
    /\ linked' = linked \ Unlinked(r) /\ known' = known \cup {t \in Ids : rows'[t] # Nil}
    /\ UNCHANGED <<events, copies, list, redis, faults, raced, left>>

LEMMA CommitEffect ==
  ASSUME Typed, NEW p \in Procs, Commit(p)
  PROVE  Typed' /\ Others(p) /\ OnCommit(req[p], req'[p])
<1> DEFINE r == req[p]
<1>1. /\ r \in Req /\ AtCommit(r) /\ Set(p, Idle) /\ StoredInv
      /\ rows' = [t \in Ids |-> Seen(r, t)]
      /\ linked' = linked \ Unlinked(r) /\ known' = known \cup {t \in Ids : rows'[t] # Nil}
      /\ UNCHANGED <<events, cached, faults, raced, left>>
  BY ReqFacts DEF Commit, Seen, Typed
<1>2. ReqInv' /\ Others(p) /\ req'[p] = Idle
  BY <1>1, ResetEffect
<1>3. \A t \in Ids : Seen(r, t) \in MaybeRow
  BY <1>1, SeenFacts
<1>4. StoredInv'
  BY <1>1, <1>3 DEF StoredInv, cached
<1> USE DEF OnCommit, cached, history
<1> QED
  BY <1>1, <1>2, <1>4 DEF Typed, AtCommit

\* A rollback leaves nothing but, perhaps, an event to take back.
Blank(s) ==
    /\ s.step \in {"idle", "undo"} /\ s.kind = "create" /\ s.cur = Nil /\ s.copy = Nil
    /\ s.base = Nil /\ DOMAIN s.sess = {} /\ DOMAIN s.writes = {} /\ s.todo = {}
    /\ s.planning = FALSE

LEMMA BlankIdle == Blank(Idle) /\ Idle.step = "idle" /\ Idle.id = Nil
BY IdleFits DEF Blank, Idle

LEMMA RollbackEffect ==
  ASSUME Typed, NEW p \in Procs, req[p].step # "idle", Set(p, RolledBack(req[p]))
  PROVE  LET r == req[p]  s == req'[p] IN
         /\ ReqInv' /\ Others(p) /\ Blank(s)
         /\ IF Mirrored(r) THEN s.step = "undo" /\ s.id = r.id ELSE s = Idle
<1> DEFINE r == req[p]
<1> DEFINE s == RolledBack(r)
<1>1. r \in Req /\ Fits(r) /\ r.step # "idle" /\ Set(p, s) /\ r.id \in Ids
  BY ReqFacts DEF Fits
<1>2. CASE Mirrored(r)
  <2>1. s = [Idle EXCEPT !.step = "undo", !.id = r.id]
    BY <1>2 DEF RolledBack
  <2>2. s \in Req
    BY <1>1, <2>1, IdleFits DEF Req, Steps
  <2>3. s.step = "undo" /\ s.id = r.id
    BY <2>1, IdleFits DEF Req
  <2>4. /\ s.kind = "create" /\ s.cur = Nil /\ s.copy = Nil /\ s.base = Nil
        /\ s.sess = Idle.sess /\ s.writes = Idle.writes /\ s.todo = {} /\ s.planning = FALSE
    BY <2>1 DEF Idle
  <2>5. s = [Idle EXCEPT !.step = "undo", !.id = s.id]
    BY <2>1, <2>3
  <2> HIDE DEF s
  <2>6. Fits(s)
    BY <1>1, <2>3, <2>4, <2>5 DEF Fits
  <2>7. ReqInv' /\ Others(p) /\ req'[p] = s
    BY <1>1, <2>2, <2>6, SetFacts
  <2>8. Blank(s)
    BY <2>3, <2>4, IdleFits DEF Blank
  <2> QED
    BY <1>2, <2>3, <2>7, <2>8
<1>3. CASE ~Mirrored(r)
  <2>1. s = Idle
    BY <1>3 DEF RolledBack
  <2> QED
    BY <1>1, <1>3, <2>1, ResetEffect, BlankIdle
<1> QED
  BY <1>2, <1>3

OnAbort(p, r, s) ==
    /\ Blank(s) /\ r.step \in {"flush", "insert"}
    /\ Refused(p) \/ Deadlocked(p)
    /\ IF Mirrored(r) THEN s.step = "undo" /\ s.id = r.id ELSE s = Idle
    /\ UNCHANGED <<rows, linked, events, copies, list, redis, faults, raced, known, left>>

LEMMA AbortEffect ==
  ASSUME Typed, NEW p \in Procs, Abort(p)
  PROVE  Typed' /\ Others(p) /\ OnAbort(p, req[p], req'[p])
<1>1. /\ Refused(p) \/ Deadlocked(p)
      /\ Set(p, RolledBack(req[p])) /\ UNCHANGED <<rows, linked, events, cached, history>>
  BY DEF Abort
<1>2. req[p].step \in {"flush", "insert"}
  BY <1>1 DEF Refused, Deadlocked, Waits, At
<1>3. StoredInv'
  BY <1>1 DEF Typed, StoredInv, cached, history
<1> USE DEF OnAbort, cached, history
<1> QED
  BY <1>1, <1>2, <1>3, RollbackEffect DEF Typed

OnFail(r, s) ==
    /\ Blank(s)
    /\ r.step \in {"insert", "flush", "plan", "next", "commit"}
    /\ \/ /\ faults' = faults \cup {"statement"} /\ ~AtCommit(r)
          /\ IF Mirrored(r) THEN s.step = "undo" /\ s.id = r.id ELSE s = Idle
       \/ faults' = faults \cup {"commit"} /\ s = Idle
    /\ UNCHANGED <<rows, linked, events, copies, list, redis, raced, known, left>>

LEMMA FailEffect ==
  ASSUME Typed, NEW p \in Procs, Fail(p)
  PROVE  Typed' /\ Others(p) /\ OnFail(req[p], req'[p])
<1> USE DEF OnFail, cached, history
<1> DEFINE r == req[p]
<1>1. /\ r.step \in {"insert", "flush", "plan", "next", "commit"} /\ r.step # "idle"
      /\ UNCHANGED <<rows, linked, events, cached, raced, known, left>>
      /\ \/ faults' = faults \cup {"statement"} /\ ~AtCommit(r) /\ Set(p, RolledBack(r))
         \/ faults' = faults \cup {"commit"} /\ Set(p, Idle)
  BY DEF Fail, Fault
<1>2. StoredInv'
  BY <1>1 DEF Typed, StoredInv, cached
<1>3. CASE faults' = faults \cup {"statement"} /\ ~AtCommit(r) /\ Set(p, RolledBack(r))
  BY <1>1, <1>2, <1>3, RollbackEffect DEF Typed
<1>4. CASE faults' = faults \cup {"commit"} /\ Set(p, Idle)
  BY <1>1, <1>2, <1>4, ResetEffect, BlankIdle DEF Typed
<1> QED
  BY <1>1, <1>3, <1>4

OnUndo(r, s, ok) ==
    /\ s = Idle /\ r.step = "undo" /\ r.id \in Ids
    /\ events' = IF ok THEN [events EXCEPT ![r.id] = Nil] ELSE events
    /\ IF ok THEN faults' = faults ELSE faults' = faults \cup {"google"}
    /\ UNCHANGED <<rows, linked, copies, list, redis, raced, known, left>>

LEMMA UndoEffect ==
  ASSUME Typed, NEW p \in Procs, NEW ok \in BOOLEAN, Undo(p, ok)
  PROVE  Typed' /\ Others(p) /\ OnUndo(req[p], req'[p], ok)
<1> DEFINE r == req[p]
<1>1. /\ r.step = "undo" /\ Set(p, Idle) /\ StoredInv
      /\ events' = IF ok THEN [events EXCEPT ![r.id] = Nil] ELSE events
      /\ IF ok THEN faults' = faults ELSE faults' = faults \cup {"google"}
      /\ UNCHANGED <<rows, linked, cached, raced, known, left>>
  BY DEF Undo, At, NoFault, Fault, Typed
<1>2. ReqInv' /\ Others(p) /\ req'[p] = Idle
  BY <1>1, ResetEffect
<1>3. r.id \in Ids
  BY <1>1, ReqFacts DEF Fits
<1>4. StoredInv'
  BY <1>1, <1>3 DEF StoredInv, cached
<1> USE DEF OnUndo, cached, history
<1> QED
  BY <1>1, <1>2, <1>3, <1>4 DEF Typed

-----------------------------------------------------------------------------
(* What a step makes of a task, it makes of what it has of the task *)

\* A set of rows that writing keeps.
Closed(G) ==
    /\ G \subseteq Row
    /\ \A b, w, n \in G : Updated(b, w, n) \in G
    /\ \A a \in G, c \in Row :
        c.event = a.event /\ c.deleted = a.deleted /\ c.status \in {a.status, "Done"} => c \in G

LEMMA ClosedSets == Closed(LiveRows) /\ Closed(GoodRows) /\ Closed(DoneRows) /\ Closed({})
<1>1. \A b, w, n \in Row :
        LET row == Updated(b, w, n) IN
        /\ row \in Row
        /\ row.deleted \in {w.deleted, n.deleted} /\ row.event \in {w.event, n.event}
        /\ row.status \in {w.status, n.status}
  BY UpdatedFacts
<1>2. Closed(LiveRows)
  BY <1>1 DEF Closed, LiveRows
<1>3. Closed(GoodRows)
  BY <1>1 DEF Closed, GoodRows
<1>4. Closed(DoneRows)
  BY <1>1 DEF Closed, DoneRows
<1> QED
  BY <1>2, <1>3, <1>4 DEF Closed

\* What the mutation is about to save stays in G.
Saves(r, t, G) == r.step = "flush" /\ r.cur = t => ~Erases(r) /\ Wish(r) \in G

LEMMA SavesLive ==
  ASSUME NEW r \in Req, Fits(r), NEW t \in Ids,
         r.step = "flush" => ~Removes(r, t) \/ r.planning
  PROVE  /\ Kept(r, t, LiveRows) => Saves(r, t, LiveRows)
         /\ Kept(r, t, GoodRows) => Saves(r, t, GoodRows)
<1> SUFFICES ASSUME r.step = "flush", r.cur = t
             PROVE  /\ Kept(r, t, LiveRows) => ~Erases(r) /\ Wish(r) \in LiveRows
                    /\ Kept(r, t, GoodRows) => ~Erases(r) /\ Wish(r) \in GoodRows
  BY DEF Saves
<1>1. /\ r.copy \in Row /\ Wish(r) \in Row /\ Wish(r).event = r.copy.event
      /\ (~r.planning => r.cur = r.id)
      /\ Wish(r).deleted = IF ~r.planning /\ r.kind = "remove" THEN r.copy.status = "Done"
                           ELSE r.copy.deleted
      /\ Erases(r) <=> r.kind = "remove" /\ ~r.planning /\ r.copy.status # "Done"
  BY WishFacts
<1>2. ~(~r.planning /\ r.kind = "remove")
  BY <1>1 DEF Removes
<1>3. r.copy # Nil
  BY <1>1, NilFacts
<1> QED
  BY <1>1, <1>2, <1>3 DEF Kept, LiveRows, GoodRows

LEMMA SavesDone ==
  ASSUME NEW r \in Req, Fits(r), NEW t \in Ids, Kept(r, t, DoneRows),
         r.cur = t /\ r.step = "flush" => ~r.planning
  PROVE  Saves(r, t, DoneRows)
<1> SUFFICES ASSUME r.step = "flush", r.cur = t
             PROVE  ~Erases(r) /\ Wish(r) \in DoneRows
  BY DEF Saves
<1>1. /\ r.copy \in Row /\ Wish(r) \in Row
      /\ Wish(r).status = IF r.planning THEN "Scheduled" ELSE r.copy.status
      /\ Erases(r) <=> r.kind = "remove" /\ ~r.planning /\ r.copy.status # "Done"
  BY WishFacts
<1>2. r.copy # Nil
  BY <1>1, NilFacts
<1> QED
  BY <1>1, <1>2 DEF Kept, DoneRows

LEMMA SavesNothing ==
  ASSUME NEW r \in Req, Fits(r), NEW t \in Ids, Kept(r, t, {})
  PROVE  Saves(r, t, {})
BY NilFacts DEF Kept, Saves, Fits

LEMMA FetchedKept ==
  ASSUME NEW r \in Req, NEW t \in Ids, NEW G, Kept(r, t, G)
  PROVE  /\ rows[t] \in G \cup {Nil} => Seen(r, t) \in G \cup {Nil}
         /\ Seen(r, t) \in G \cup {Nil} => Fetched(r, t) \in G \cup {Nil}
BY DEF Kept, Seen, Fetched

\* What Redis and Postgres have of a task; what a read makes of it.
Around(r, t, G) == copies[t] \in G \cup {Nil} /\ Seen(r, t) \in G \cup {Nil}
Gets(u, o, ss, t, G) ==
    /\ t \in DOMAIN ss => ss[t] \in G
    /\ u = t => o \in G \cup {Nil}
    /\ copies'[t] \in G \cup {Nil}

LEMMA KeptLoads ==
  ASSUME StoredInv, NEW r \in Req, NEW u \in Ids, NEW o, NEW ss, NEW t \in Ids, NEW G, o \in MaybeRow,
         Loads(r, u, o, ss), Fills(r, u, o), Kept(r, t, G), Around(r, t, G)
  PROVE  Gets(u, o, ss, t, G)
<1>0. copies[t] \in G \cup {Nil} /\ Seen(r, t) \in G \cup {Nil}
  BY DEF Around
<1>1. Seen(r, t) \in G \cup {Nil} /\ Fetched(r, t) \in G \cup {Nil}
  BY <1>0, FetchedKept
<1>a. /\ ss \in Partial(Row)
      /\ DOMAIN ss = DOMAIN r.sess \cup (IF ~Live(copies[u]) /\ Live(Seen(r, u)) THEN {u} ELSE {})
      /\ \A x \in DOMAIN ss : x # u => x \in DOMAIN r.sess /\ ss[x] = r.sess[x]
      /\ u \in DOMAIN ss => IF ~Live(copies[u]) /\ Live(Seen(r, u)) THEN ss[u] = o
                           ELSE u \in DOMAIN r.sess /\ ss[u] = r.sess[u]
  <2>1. Holds(r, u, o, ss)
    BY LoadsFacts
  <2> QED
    BY <2>1 DEF Holds
<1>b. t \in DOMAIN r.sess => r.sess[t] \in G
  BY DEF Kept
<1>2. u = t => o \in G \cup {Nil}
  BY <1>0, <1>1 DEF Loads
<1>3. copies'[t] \in G \cup {Nil}
  <2>1. copies'[t] = copies[t] \/ (t = u /\ copies'[t] = o)
    BY FillsFacts
  <2> QED
    BY <1>0, <1>2, <2>1
<1>4. ASSUME t \in DOMAIN ss PROVE ss[t] \in G
  <2>1. CASE t # u
    BY <1>4, <1>a, <1>b, <2>1
  <2>2. CASE t = u /\ ~Live(copies[t]) /\ Live(Seen(r, t))
    <3>1. ss[t] = o
      BY <1>4, <1>a, <2>2
    <3>2. o = Fetched(r, t) /\ o \in Row
      BY <2>2, SeenFacts DEF Loads
    <3> QED
      BY <1>1, <3>1, <3>2, NilFacts
  <2>3. CASE t = u /\ ~(~Live(copies[t]) /\ Live(Seen(r, t)))
    BY <1>4, <1>a, <1>b, <2>3
  <2> QED
    BY <2>1, <2>2, <2>3
<1> QED
  BY <1>2, <1>3, <1>4 DEF Gets

LEMMA BlankKept ==
  ASSUME NEW s, Blank(s), NEW t \in Ids, NEW G
  PROVE  Kept(s, t, G)
BY NilFacts DEF Blank, Kept

\* What a step does, in one place.
On(p, r, s) ==
    \/ \E dated, made, answered \in BOOLEAN : OnCreateEvent(r, s, dated, made, answered)
    \/ OnInsert(p, r, s)
    \/ OnRead(r, s)
    \/ \E ok \in BOOLEAN : OnGoogle(r, s, ok)
    \/ OnMerge(r, s)
    \/ OnFlush(p, r, s)
    \/ OnPlan(r, s)
    \/ \E u \in Ids : OnSave(r, s, u)
    \/ OnCommit(r, s)
    \/ OnAbort(p, r, s)
    \/ OnFail(r, s)
    \/ \E ok \in BOOLEAN : OnUndo(r, s, ok)

LEMMA StepEffect ==
  ASSUME Typed, NEW p \in Procs, Step(p)
  PROVE  /\ Typed' /\ Others(p) /\ On(p, req[p], req'[p])
         /\ req[p] \in Req /\ req'[p] \in Req /\ Fits(req[p]) /\ Fits(req'[p])
         /\ StoredInv /\ StoredInv'
<1>1. Typed' /\ Others(p) /\ On(p, req[p], req'[p])
  <2>1. CASE \E dated, made, answered \in BOOLEAN : CreateEvent(p, dated, made, answered)
    BY <2>1, CreateEventEffect DEF On
  <2>2. CASE \E ok \in BOOLEAN : Google(p, ok)
    BY <2>2, GoogleEffect DEF On
  <2>3. CASE \E placed \in SUBSET Ids : Plan(p, placed)
    BY <2>3, PlanEffect DEF On
  <2>4. CASE \E t \in Ids : SavePlanned(p, t)
    BY <2>4, SavePlannedEffect DEF On
  <2>5. CASE \E ok \in BOOLEAN : Undo(p, ok)
    BY <2>5, UndoEffect DEF On
  <2>6. CASE Insert(p) \/ Read(p) \/ MergePlanned(p) \/ Flush(p)
    BY <2>6, InsertEffect, ReadEffect, MergePlannedEffect, FlushEffect DEF On
  <2>7. CASE Commit(p) \/ Abort(p) \/ Fail(p)
    BY <2>7, CommitEffect, AbortEffect, FailEffect DEF On
  <2> QED
    BY <2>1, <2>2, <2>3, <2>4, <2>5, <2>6, <2>7 DEF Step
<1>2. /\ req \in [Procs -> Req] /\ (\A q \in Procs : Fits(req[q])) /\ StoredInv
      /\ req' \in [Procs -> Req] /\ (\A q \in Procs : Fits(req'[q])) /\ StoredInv'
  BY <1>1 DEF Typed, ReqInv
<1> QED
  BY <1>1, <1>2

LEMMA Derive ==
  ASSUME Typed, NEW p \in Procs, Step(p), NEW t \in Ids, NEW G, Closed(G),
         copies[t] \in G \cup {Nil}, Seen(req[p], t) \in G \cup {Nil}, Kept(req[p], t, G),
         Saves(req[p], t, G), req[p].step = "event" => req[p].id # t \/ req'[p].copy \in G
  PROVE  /\ Kept(req'[p], t, G) /\ copies'[t] \in G \cup {Nil}
         /\ rows'[t] \in {rows[t], Seen(req[p], t)}
         /\ rows[t] # Nil => rows'[t] # Nil
<1> DEFINE r == req[p]
<1> DEFINE s == req'[p]
<1> HIDE DEF r, s
<1>0. r \in Req /\ Fits(r) /\ StoredInv /\ On(p, r, s)
  BY StepEffect DEF r, s
<1>b. /\ copies[t] \in G \cup {Nil} /\ Seen(r, t) \in G \cup {Nil} /\ Kept(r, t, G)
      /\ Saves(r, t, G) /\ (r.step = "event" => r.id # t \/ s.copy \in G)
  BY DEF r, s
<1>a. G \subseteq Row /\ Fetched(r, t) \in G \cup {Nil} /\ Nil \notin G
  BY <1>0, <1>b, FetchedKept, NilFacts DEF Closed
<1>1. ASSUME NEW dated, NEW made, NEW answered, OnCreateEvent(r, s, dated, made, answered)
      PROVE  Kept(s, t, G) /\ copies' = copies /\ rows' = rows
  <2>1. /\ r.step = "event" /\ s.cur = r.cur /\ s.base = Nil /\ s.sess = r.sess
        /\ s.writes = r.writes
    BY <1>1 DEF OnCreateEvent
  <2>2. r.cur = r.id /\ (r.id # t \/ s.copy \in G)
    BY <1>0, <1>b, <2>1 DEF Fits
  <2> QED
    BY <1>b, <1>1, <2>1, <2>2 DEF Kept, OnCreateEvent
<1>2. ASSUME OnInsert(p, r, s)
      PROVE  Kept(s, t, G) /\ copies'[t] \in G \cup {Nil} /\ rows' = rows
  <2>1. /\ r.step = "insert" /\ r.id \in Ids /\ r.copy \in Row /\ s.cur = r.cur /\ s.copy = r.copy
        /\ s.base = Nil /\ DOMAIN s.writes = {r.id} /\ s.writes[r.id] = r.copy
        /\ DOMAIN s.sess = {r.id} /\ s.sess[r.id] = r.copy
        /\ Cache(r.id, r.copy) /\ rows' = rows
    BY <1>2 DEF OnInsert
  <2>2. r.cur = r.id /\ r.copy \in MaybeRow /\ r.copy # Nil
    BY <1>0, <2>1, NilFacts DEF Fits, MaybeRow
  <2>3. copies'[t] = copies[t] \/ (t = r.id /\ copies'[t] \in {r.copy, Nil})
    BY <1>0, <2>1, <2>2, CacheFacts
  <2> QED
    BY <1>b, <2>1, <2>2, <2>3 DEF Kept
<1>3. ASSUME OnRead(r, s)
      PROVE  Kept(s, t, G) /\ copies'[t] \in G \cup {Nil} /\ rows' = rows
  <2> DEFINE u == r.id
  <2> HIDE DEF u
  <2>1. PICK o, ss :
             /\ o \in MaybeRow /\ ss \in Partial(Row)
             /\ Loads(r, u, o, ss) /\ Fills(r, u, o)
             /\ o = Nil => s = Idle
             /\ o # Nil =>
                 /\ \/ s.step = "read" /\ s.copy = Nil
                    \/ s.step \in {"commit", "google"} /\ s.copy = o
                 /\ Job(r, s) /\ s.cur = r.cur /\ s.base = Nil /\ s.writes = r.writes
                 /\ s.sess = ss /\ s.todo = {} /\ s.planning = FALSE
    BY <1>3 DEF OnRead, u
  <2>2. u \in Ids /\ r.cur = u /\ rows' = rows
    BY <1>3 DEF OnRead, u
  <2>a. Around(r, t, G) /\ Kept(r, t, G)
    BY <1>b DEF Around
  <2>b. Gets(u, o, ss, t, G)
    BY <1>0, <2>1, <2>2, <2>a, KeptLoads
  <2>3. /\ t \in DOMAIN ss => ss[t] \in G
        /\ u = t => o \in G \cup {Nil}
        /\ copies'[t] \in G \cup {Nil}
    BY <2>b DEF Gets
  <2>4. CASE o = Nil
    BY <2>1, <2>2, <2>3, <2>4, BlankKept, BlankIdle
  <2>5. CASE o # Nil
    BY <1>b, <2>1, <2>2, <2>3, <2>5 DEF Kept
  <2> QED
    BY <2>4, <2>5
<1>4. ASSUME NEW ok, OnGoogle(r, s, ok)
      PROVE  Kept(s, t, G) /\ copies' = copies /\ rows' = rows
  <2>1. /\ r.cur = r.id /\ s.cur = r.id /\ s.base = Fetched(r, r.id) /\ s.sess = r.sess
        /\ s.writes = r.writes /\ r.copy \in Row /\ s.copy \in Row
        /\ s.copy.event = r.copy.event /\ s.copy.deleted = r.copy.deleted
        /\ s.copy.status \in {r.copy.status, "Done"} /\ copies' = copies /\ rows' = rows
    BY <1>4 DEF OnGoogle
  <2>2. r.id = t => s.copy \in G
    <3> SUFFICES ASSUME r.id = t PROVE s.copy \in G
      OBVIOUS
    <3>1. r.copy \in G
      BY <1>b, <2>1, NilFacts DEF Kept
    <3> QED
      BY <2>1, <3>1 DEF Closed
  <2> QED
    BY <1>b, <1>a, <2>1, <2>2 DEF Kept
<1>5. ASSUME OnMerge(r, s)
      PROVE  Kept(s, t, G) /\ copies' = copies /\ rows' = rows
  <2>1. /\ s.cur = r.cur /\ s.copy = r.copy /\ s.base = Fetched(r, r.cur) /\ s.sess = r.sess
        /\ s.writes = r.writes /\ copies' = copies /\ rows' = rows
    BY <1>5 DEF OnMerge
  <2> QED
    BY <1>b, <1>a, <2>1 DEF Kept
<1>6. ASSUME OnFlush(p, r, s)
      PROVE  Kept(s, t, G) /\ copies'[t] \in G \cup {Nil} /\ rows' = rows
  <2>1. PICK row \in MaybeRow :
             /\ Flushes(r, row) /\ Cache(r.cur, row)
             /\ DOMAIN s.writes = DOMAIN r.writes \cup {r.cur} /\ s.writes[r.cur] = row
             /\ \A x \in DOMAIN r.writes : x # r.cur => s.writes[x] = r.writes[x]
             /\ DOMAIN s.sess = IF row = Nil THEN DOMAIN r.sess \ {r.cur}
                                ELSE DOMAIN r.sess \cup {r.cur}
             /\ row # Nil => s.sess[r.cur] = row
             /\ \A x \in DOMAIN r.sess : x # r.cur => s.sess[x] = r.sess[x]
    BY <1>6 DEF OnFlush
  <2>2. /\ r.step = "flush" /\ r.cur \in Ids /\ s.cur = r.cur /\ s.copy = Nil /\ s.base = Nil
        /\ rows' = rows
    BY <1>6 DEF OnFlush
  <2>3. \A x \in Ids : copies'[x] = copies[x] \/ (x = r.cur /\ copies'[x] \in {row, Nil})
    BY <1>0, <2>1, <2>2, CacheFacts
  <2>4. CASE r.cur # t
    BY <1>b, <2>1, <2>2, <2>3, <2>4 DEF Kept
  <2>5. CASE r.cur = t
    <3>1. ~Erases(r) /\ Wish(r) \in G
      BY <1>b, <2>2, <2>5 DEF Saves
    <3>2. r.base \in G \cup {Nil}
      BY <1>b, <2>5 DEF Kept
    <3>3. row \in G
      BY <1>a, <1>b, <2>1, <2>5, <3>1, <3>2 DEF Flushes, Closed
    <3>4. row # Nil
      BY <1>a, <3>3
    <3> QED
      BY <1>b, <2>1, <2>2, <2>3, <2>5, <3>3, <3>4 DEF Kept
  <2> QED
    BY <2>4, <2>5
<1>7. ASSUME OnPlan(r, s)
      PROVE  Kept(s, t, G) /\ copies' = copies /\ rows' = rows
  <2>1. /\ s.cur = r.cur /\ s.copy = Nil /\ s.base = Nil /\ s.writes = r.writes
        /\ IF list # Nil THEN s.sess = r.sess
           ELSE /\ DOMAIN s.sess = DOMAIN r.sess \cup Active(r)
                /\ \A x \in DOMAIN s.sess : s.sess[x] = Fetched(r, x)
        /\ copies' = copies /\ rows' = rows
    BY <1>7 DEF OnPlan
  <2>2. CASE list # Nil
    BY <1>b, <2>1, <2>2 DEF Kept
  <2>3. CASE list = Nil
    <3>1. t \in DOMAIN s.sess => Fetched(r, t) \in G
      <4> SUFFICES ASSUME t \in DOMAIN s.sess PROVE Fetched(r, t) \in G
        OBVIOUS
      <4>1. CASE t \in DOMAIN r.sess
        BY <1>b, <4>1 DEF Fetched, Kept
      <4>2. CASE t \in Active(r)
        BY <1>0, <1>a, <4>2, SeenFacts, NilFacts DEF Active
      <4> QED
        BY <2>1, <2>3, <4>1, <4>2
    <3> QED
      BY <1>b, <2>1, <2>3, <3>1 DEF Kept
  <2> QED
    BY <2>2, <2>3
<1>8. ASSUME NEW u \in Ids, OnSave(r, s, u)
      PROVE  Kept(s, t, G) /\ copies'[t] \in G \cup {Nil} /\ rows' = rows
  <2>1. PICK o, ss :
             /\ o \in MaybeRow /\ ss \in Partial(Row)
             /\ Loads(r, u, o, ss) /\ Fills(r, u, o)
             /\ s.copy = o /\ s.sess = ss /\ s.step = IF o = Nil THEN "next" ELSE "merge"
    BY <1>8 DEF OnSave
  <2>2. s.cur = u /\ s.base = Nil /\ s.writes = r.writes /\ rows' = rows
    BY <1>8 DEF OnSave
  <2>a. Around(r, t, G) /\ Kept(r, t, G)
    BY <1>b DEF Around
  <2>b. Gets(u, o, ss, t, G)
    BY <1>0, <2>1, <2>a, KeptLoads
  <2>3. /\ t \in DOMAIN ss => ss[t] \in G
        /\ u = t => o \in G \cup {Nil}
        /\ copies'[t] \in G \cup {Nil}
    BY <2>b DEF Gets
  <2> QED
    BY <1>b, <2>1, <2>2, <2>3 DEF Kept
<1>9. ASSUME OnCommit(r, s)
      PROVE  /\ Kept(s, t, G) /\ copies' = copies /\ rows'[t] = Seen(r, t)
             /\ rows[t] # Nil => rows'[t] # Nil
  <2>1. s = Idle /\ rows'[t] = Seen(r, t) /\ copies' = copies
    BY <1>9 DEF OnCommit
  <2>2. rows[t] # Nil => Seen(r, t) # Nil
    BY <1>b, <1>a DEF Seen, Kept
  <2> QED
    BY <1>a, <2>1, <2>2, BlankKept, BlankIdle
<1>10. ASSUME OnAbort(p, r, s) \/ OnFail(r, s) \/ \E ok \in BOOLEAN : OnUndo(r, s, ok)
       PROVE  Kept(s, t, G) /\ copies' = copies /\ rows' = rows
  <2>1. Blank(s) /\ copies' = copies /\ rows' = rows
    BY <1>10, BlankIdle DEF OnAbort, OnFail, OnUndo
  <2> QED
    BY <2>1, BlankKept
<1> QED
  BY <1>0, <1>b, <1>1, <1>2, <1>3, <1>4, <1>5, <1>6, <1>7, <1>8, <1>9, <1>10 DEF On, r, s

-----------------------------------------------------------------------------
(* A mutation arrives, a copy expires *)

Fresh(s) ==
    /\ s.copy = Nil /\ s.base = Nil /\ s.sess = <<>> /\ s.writes = <<>> /\ s.todo = {}
    /\ s.planning = FALSE /\ s.step \in {"event", "find"} /\ DOMAIN s.sess = {} /\ DOMAIN s.writes = {}
OnStart(s, kind, t) ==
    /\ Fresh(s) /\ s.kind = kind /\ s.id = t /\ s.cur = t
    /\ s.step = IF kind = "create" THEN "event" ELSE "find"
    /\ kind = "create" => t \notin known /\ copies[t] = Nil /\ \A q \in Busy : req[q].id # t
    /\ kind # "create" => t \in known
    /\ raced' = (raced \/ Busy # {})
    /\ UNCHANGED <<rows, linked, events, copies, list, redis, faults, known>>

LEMMA StartFacts ==
  ASSUME Typed, NEW p \in Procs, NEW kind \in Kinds, NEW t \in Ids, NEW title \in Titles,
         Start(p, kind, t, title)
  PROVE  /\ Typed' /\ Others(p) /\ req[p] = Idle /\ OnStart(req'[p], kind, t)
         /\ StoredInv /\ StoredInv'
<1> DEFINE s == req'[p]
<1> HIDE DEF s
<1>1. /\ Typed' /\ Others(p) /\ req[p] = Idle
      /\ s.step = (IF kind = "create" THEN "event" ELSE "find")
      /\ s.kind = kind /\ s.id = t /\ s.cur = t /\ s.copy = Nil /\ s.base = Nil
      /\ s.sess = <<>> /\ s.writes = <<>> /\ s.todo = {} /\ s.planning = FALSE
  BY StartEffect DEF s
<1>2. DOMAIN s.sess = {} /\ DOMAIN s.writes = {}
  BY <1>1, EmptyPartial
<1>3. /\ kind = "create" => t \notin known /\ copies[t] = Nil /\ \A q \in Busy : req[q].id # t
      /\ kind # "create" => t \in known
      /\ raced' = (raced \/ Busy # {})
      /\ UNCHANGED <<rows, linked, events, copies, list, redis, faults, known>>
  BY DEF Start, cached
<1>4. OnStart(s, kind, t)
  BY <1>1, <1>2, <1>3 DEF OnStart, Fresh
<1> QED
  BY <1>1, <1>4 DEF s, Typed

LEMMA FreshKept ==
  ASSUME NEW s, Fresh(s), NEW t, NEW G
  PROVE  Kept(s, t, G)
BY DEF Fresh, Kept

\* With one mutation at a time, the others are idle when one takes a step, and
\* when one arrives.
LEMMA IdleIs ==
  ASSUME Typed, NEW p \in Procs
  PROVE  At(p, "idle") <=> req[p] = Idle
BY ReqFacts, BlankIdle DEF Fits, At

LEMMA ExpireFacts ==
  ASSUME Typed, Expire
  PROVE  /\ Typed' /\ (\A p \in Procs : req[p] = Idle) /\ req' = req
         /\ \A t \in Ids : copies'[t] \in {copies[t], Nil}
         /\ list' \in {list, Nil}
         /\ UNCHANGED <<rows, linked, events, redis, faults, raced, known, left>>
<1>1. UNCHANGED <<rows, linked, events, redis, req, faults, raced, known, left>>
  BY DEF Expire, history
<1>2. \A p \in Procs : At(p, "idle")
  BY DEF Expire, Busy, At
<1>3. /\ copies' \in [Ids -> MaybeRow] /\ (list' = Nil \/ list' = list)
      /\ \A t \in Ids : copies'[t] \in {copies[t], Nil}
  <2>1. CASE \E t \in Ids : copies[t] # Nil /\ copies' = [copies EXCEPT ![t] = Nil]
                            /\ UNCHANGED list
    BY <2>1 DEF Typed, StoredInv, MaybeRow
  <2>2. CASE list # Nil /\ list' = Nil /\ UNCHANGED copies
    BY <2>2 DEF Typed, StoredInv
  <2> QED
    BY <2>1, <2>2 DEF Expire
<1>4. StoredInv'
  BY <1>1, <1>3 DEF Typed, StoredInv
<1>5. ReqInv'
  BY <1>1 DEF Typed, ReqInv
<1> QED
  BY <1>1, <1>2, <1>3, <1>4, <1>5, IdleIs DEF Typed

-----------------------------------------------------------------------------
(* One writer of a task at a time *)

\* What a mutation has written it had written, inserts or flushes.
LEMMA WritesEffect ==
  ASSUME Typed, NEW p \in Procs, Step(p), NEW t \in DOMAIN req'[p].writes
  PROVE  \/ t \in DOMAIN req[p].writes /\ req'[p].writes[t] = req[p].writes[t]
         \/ OnInsert(p, req[p], req'[p]) /\ t = req[p].id
         \/ OnFlush(p, req[p], req'[p]) /\ t = req[p].cur
<1> DEFINE r == req[p]
<1> DEFINE s == req'[p]
<1> HIDE DEF r, s
<1>0. On(p, r, s) /\ t \in DOMAIN s.writes
  BY StepEffect DEF r, s
<1> SUFFICES \/ t \in DOMAIN r.writes /\ s.writes[t] = r.writes[t]
             \/ OnInsert(p, r, s) /\ t = r.id
             \/ OnFlush(p, r, s) /\ t = r.cur
  BY DEF r, s
<1>1. CASE OnInsert(p, r, s)
  BY <1>0, <1>1 DEF OnInsert
<1>2. CASE OnFlush(p, r, s)
  BY <1>0, <1>2 DEF OnFlush
<1>3. CASE s.writes = r.writes
  BY <1>0, <1>3
<1>4. CASE Blank(s)
  BY <1>0, <1>4 DEF Blank
<1>5. CASE OnRead(r, s)
  BY <1>0, <1>3, <1>4, <1>5, BlankIdle DEF OnRead
<1>6. CASE \E u \in Ids : OnSave(r, s, u)
  BY <1>3, <1>6 DEF OnSave
<1>7. CASE OnMerge(r, s) \/ OnPlan(r, s) \/ \E ok \in BOOLEAN : OnGoogle(r, s, ok)
  BY <1>3, <1>7 DEF OnMerge, OnPlan, OnGoogle
<1>8. CASE \E dated, made, answered \in BOOLEAN : OnCreateEvent(r, s, dated, made, answered)
  BY <1>3, <1>8 DEF OnCreateEvent
<1>9. CASE \/ OnCommit(r, s) \/ OnAbort(p, r, s) \/ OnFail(r, s)
           \/ \E ok \in BOOLEAN : OnUndo(r, s, ok)
  BY <1>4, <1>9, BlankIdle DEF OnCommit, OnAbort, OnFail, OnUndo
<1> QED
  BY <1>0, <1>1, <1>2, <1>5, <1>6, <1>7, <1>8, <1>9 DEF On

LEMMA LockStep ==
  ASSUME Typed, LockInv, NEW p \in Procs, Step(p)
  PROVE  LockInv'
<1>1. Others(p)
  BY StepEffect
<1>2. \A t \in DOMAIN req'[p].writes : t \in DOMAIN req[p].writes \/ LockFree(p, t)
  BY WritesEffect DEF OnInsert, OnFlush
<1>3. \A q \in Procs \ {p} : DOMAIN req'[p].writes \cap DOMAIN req[q].writes = {}
  BY <1>2 DEF LockInv, LockFree, Owner
<1>4. \A q \in Procs \ {p} : req'[q] = req[q]
  BY <1>1 DEF Others
<1> QED
  BY <1>3, <1>4 DEF LockInv

LEMMA LockStart ==
  ASSUME Typed, LockInv, NEW p \in Procs, NEW kind \in Kinds, NEW t \in Ids, NEW title \in Titles,
         Start(p, kind, t, title)
  PROVE  LockInv'
<1>1. Others(p) /\ DOMAIN req'[p].writes = {}
  BY StartFacts DEF OnStart, Fresh
<1>2. \A q \in Procs \ {p} : req'[q] = req[q]
  BY <1>1 DEF Others
<1> QED
  BY <1>1, <1>2 DEF LockInv

-----------------------------------------------------------------------------
(* Sessions and copies have live tasks *)

LEMMA FetchedLive ==
  ASSUME StoredInv, NEW r \in Req, SessionOK(r), NEW t \in Ids, Live(Seen(r, t))
  PROVE  /\ Fetched(r, t) \in LiveRows
         /\ t \in DOMAIN r.writes => Fetched(r, t) = r.writes[t]
<1>1. Seen(r, t) \in LiveRows
  BY SeenFacts DEF LiveRows, Live, MaybeRow
<1>2. t \in DOMAIN r.sess =>
        IF t \in DOMAIN r.writes THEN r.sess[t] = r.writes[t] ELSE r.sess[t] \in LiveRows
  BY DEF SessionOK, Backed
<1> QED
  BY <1>1, <1>2 DEF Fetched, Seen

LEMMA LoadsLive ==
  ASSUME StoredInv, NEW r \in Req, NEW u \in Ids, NEW o, NEW ss, o \in MaybeRow,
         Loads(r, u, o, ss), SessionOK(r), CacheInv
  PROVE  o \in LiveRows \cup {Nil} /\ Backed(ss, r.writes)
<1>1. copies[u] \in LiveRows \cup {Nil}
  BY DEF CacheInv
<1>2. Holds(r, u, o, ss)
  BY LoadsFacts
<1>3. Live(Seen(r, u)) => Fetched(r, u) \in LiveRows
                          /\ (u \in DOMAIN r.writes => Fetched(r, u) = r.writes[u])
  BY FetchedLive
<1>4. o \in LiveRows \cup {Nil}
  BY <1>1, <1>3 DEF Loads
<1>5. Backed(r.sess, r.writes)
  BY DEF SessionOK
<1>6. CASE ~Live(copies[u]) /\ Live(Seen(r, u))
  <2>1. o = Fetched(r, u)
    BY <1>6 DEF Loads
  <2>2. /\ \A x \in DOMAIN ss : x # u => x \in DOMAIN r.sess /\ ss[x] = r.sess[x]
        /\ u \in DOMAIN ss => ss[u] = o
    BY <1>2, <1>6 DEF Holds
  <2>3. Backed(ss, r.writes)
    BY <1>3, <1>5, <1>6, <2>1, <2>2 DEF Backed
  <2> QED
    BY <1>4, <2>3
<1>7. CASE ~(~Live(copies[u]) /\ Live(Seen(r, u)))
  <2>1. ss = r.sess
    BY <1>7 DEF Loads
  <2> QED
    BY <1>4, <1>5, <2>1
<1> QED
  BY <1>6, <1>7

LEMMA FillsLive ==
  ASSUME StoredInv, NEW r \in Req, NEW u \in Ids, NEW o, o \in MaybeRow, Fills(r, u, o),
         o \in LiveRows \cup {Nil}, CacheInv, redis' = redis, list' = list
  PROVE  CacheInv'
<1>1. \A x \in Ids : copies'[x] = IF x = u /\ redis /\ ~Live(copies[u]) /\ Live(Seen(r, u))
                                  THEN o ELSE copies[x]
  BY FillsFacts
<1> QED
  BY <1>1 DEF CacheInv

LEMMA CacheLive ==
  ASSUME StoredInv, NEW u \in Ids, NEW row \in MaybeRow, Cache(u, row), CacheInv
  PROVE  CacheInv'
<1>1. /\ \A x \in Ids : copies'[x] = IF x = u /\ redis THEN IF Live(row) THEN row ELSE Nil
                                     ELSE copies[x]
      /\ list' = (IF redis THEN Nil ELSE list) /\ redis' = redis
  BY CacheFacts
<1>2. Live(row) => row \in LiveRows
  BY DEF Live, LiveRows, MaybeRow
<1> QED
  BY <1>1, <1>2 DEF CacheInv

\* The mutation that takes the step.
LEMMA SessStepped ==
  ASSUME Typed, SessInv, CacheInv, NEW p \in Procs, Step(p)
  PROVE  SessionOK(req'[p]) /\ CacheInv'
<1> DEFINE r == req[p]
<1> DEFINE s == req'[p]
<1> HIDE DEF r, s
<1>0. r \in Req /\ Fits(r) /\ StoredInv /\ On(p, r, s)
  BY StepEffect DEF r, s
<1>a. SessionOK(r)
  BY DEF SessInv, r
<1>b. Backed(r.sess, r.writes)
  BY <1>a DEF SessionOK
<1> SUFFICES SessionOK(s) /\ CacheInv'
  BY DEF s
<1>c. ASSUME Blank(s)
      PROVE  SessionOK(s)
  BY <1>c DEF SessionOK, Backed, Blank
<1>d. ASSUME UNCHANGED <<copies, list, redis>>
      PROVE  CacheInv'
  BY <1>d DEF CacheInv
<1>1. CASE \E dated, made, answered \in BOOLEAN : OnCreateEvent(r, s, dated, made, answered)
  <2>1. s.sess = r.sess /\ s.writes = r.writes /\ s.copy \in LiveRows
        /\ UNCHANGED <<copies, list, redis>>
    BY <1>1 DEF OnCreateEvent, LiveRows
  <2> QED
    BY <1>b, <1>d, <2>1 DEF SessionOK
<1>2. CASE OnInsert(p, r, s)
  <2>1. /\ r.copy \in Row /\ r.id \in Ids /\ s.copy = r.copy /\ DOMAIN s.writes = {r.id}
        /\ s.writes[r.id] = r.copy /\ DOMAIN s.sess = {r.id} /\ s.sess[r.id] = r.copy
        /\ Cache(r.id, r.copy)
    BY <1>2 DEF OnInsert
  <2>2. SessionOK(s)
    BY <1>a, <2>1 DEF SessionOK, Backed
  <2>3. CacheInv'
    BY <1>0, <2>1, CacheLive DEF MaybeRow
  <2> QED
    BY <2>2, <2>3
<1>3. CASE OnRead(r, s)
  <2> DEFINE u == r.id
  <2> HIDE DEF u
  <2>1. PICK o, ss :
             /\ o \in MaybeRow /\ ss \in Partial(Row)
             /\ Loads(r, u, o, ss) /\ Fills(r, u, o)
             /\ o = Nil => s = Idle
             /\ o # Nil =>
                 /\ \/ s.step = "read" /\ s.copy = Nil
                    \/ s.step \in {"commit", "google"} /\ s.copy = o
                 /\ Job(r, s) /\ s.cur = r.cur /\ s.base = Nil /\ s.writes = r.writes
                 /\ s.sess = ss /\ s.todo = {} /\ s.planning = FALSE
    BY <1>3 DEF OnRead, u
  <2>2. u \in Ids /\ list' = list /\ redis' = redis
    BY <1>3 DEF OnRead, u
  <2>3. o \in LiveRows \cup {Nil} /\ Backed(ss, r.writes)
    BY <1>0, <1>a, <2>1, <2>2, LoadsLive
  <2>4. CacheInv'
    BY <1>0, <2>1, <2>2, <2>3, FillsLive
  <2>5. SessionOK(s)
    BY <1>c, <2>1, <2>3, BlankIdle DEF SessionOK
  <2> QED
    BY <2>4, <2>5
<1>4. CASE \E ok \in BOOLEAN : OnGoogle(r, s, ok)
  <2>1. s.sess = r.sess /\ s.writes = r.writes /\ r.copy \in Row /\ s.copy \in Row
        /\ s.copy.deleted = r.copy.deleted /\ UNCHANGED <<copies, list, redis>>
    BY <1>4 DEF OnGoogle
  <2>2. s.copy \in LiveRows
    BY <1>a, <2>1, NilFacts DEF SessionOK, LiveRows
  <2> QED
    BY <1>b, <1>d, <2>1, <2>2 DEF SessionOK
<1>5. CASE OnMerge(r, s)
  <2>1. s.sess = r.sess /\ s.writes = r.writes /\ s.copy = r.copy
        /\ UNCHANGED <<copies, list, redis>>
    BY <1>5 DEF OnMerge
  <2> QED
    BY <1>a, <1>d, <2>1 DEF SessionOK
<1>6. CASE OnFlush(p, r, s)
  <2> DEFINE u == r.cur
  <2> HIDE DEF u
  <2>1. PICK row :
             /\ row \in MaybeRow /\ Cache(u, row)
             /\ DOMAIN s.writes = DOMAIN r.writes \cup {u} /\ s.writes[u] = row
             /\ \A x \in DOMAIN r.writes : x # u => s.writes[x] = r.writes[x]
             /\ DOMAIN s.sess = IF row = Nil THEN DOMAIN r.sess \ {u}
                                ELSE DOMAIN r.sess \cup {u}
             /\ row # Nil => s.sess[u] = row
             /\ \A x \in DOMAIN r.sess : x # u => s.sess[x] = r.sess[x]
    BY <1>6 DEF OnFlush, u
  <2>2. u \in Ids /\ s.copy = Nil
    BY <1>6 DEF OnFlush, u
  <2>3. CacheInv'
    BY <1>0, <2>1, <2>2, CacheLive
  <2>4. Backed(s.sess, s.writes)
    BY <1>b, <2>1 DEF Backed
  <2> QED
    BY <2>2, <2>3, <2>4 DEF SessionOK
<1>7. CASE OnPlan(r, s)
  <2>1. /\ s.copy = Nil /\ s.writes = r.writes
        /\ IF list # Nil THEN s.sess = r.sess
           ELSE /\ DOMAIN s.sess = DOMAIN r.sess \cup Active(r)
                /\ \A t \in DOMAIN s.sess : s.sess[t] = Fetched(r, t)
        /\ Known(r) \in Partial(Row) /\ list' = (IF redis THEN Known(r) ELSE list)
        /\ UNCHANGED <<copies, redis>>
    BY <1>7 DEF OnPlan
  <2>2. CacheInv'
    BY <2>1 DEF CacheInv
  <2>3. ASSUME list = Nil
        PROVE  Backed(s.sess, r.writes)
    <3>1. SUFFICES ASSUME NEW t \in DOMAIN s.sess
                   PROVE  IF t \in DOMAIN r.writes THEN Fetched(r, t) = r.writes[t]
                          ELSE Fetched(r, t) \in LiveRows
      BY <2>1, <2>3 DEF Backed
    <3>2. CASE t \in DOMAIN r.sess
      BY <1>b, <3>2 DEF Backed, Fetched
    <3>3. CASE t \in Active(r)
      BY <1>0, <1>a, <3>3, FetchedLive DEF Active
    <3> QED
      BY <2>1, <2>3, <3>1, <3>2, <3>3
  <2> QED
    BY <1>b, <2>1, <2>2, <2>3 DEF SessionOK
<1>8. CASE \E u \in Ids : OnSave(r, s, u)
  <2>1. PICK u : u \in Ids /\ OnSave(r, s, u)
    BY <1>8
  <2>2. PICK o, ss : /\ o \in MaybeRow /\ ss \in Partial(Row)
                     /\ Loads(r, u, o, ss) /\ Fills(r, u, o)
                     /\ s.copy = o /\ s.sess = ss
    BY <2>1 DEF OnSave
  <2>3. list' = list /\ redis' = redis /\ s.writes = r.writes
    BY <2>1 DEF OnSave
  <2>4. o \in LiveRows \cup {Nil} /\ Backed(ss, r.writes)
    BY <1>0, <1>a, <2>1, <2>2, LoadsLive
  <2>5. CacheInv'
    BY <1>0, <2>1, <2>2, <2>3, <2>4, FillsLive
  <2> QED
    BY <2>2, <2>3, <2>4, <2>5 DEF SessionOK
<1>9. CASE \/ OnCommit(r, s) \/ OnAbort(p, r, s) \/ OnFail(r, s)
           \/ \E ok \in BOOLEAN : OnUndo(r, s, ok)
  <2>1. Blank(s) /\ UNCHANGED <<copies, list, redis>>
    BY <1>9, BlankIdle DEF OnCommit, OnAbort, OnFail, OnUndo
  <2> QED
    BY <1>c, <1>d, <2>1
<1> QED
  BY <1>0, <1>1, <1>2, <1>3, <1>4, <1>5, <1>6, <1>7, <1>8, <1>9 DEF On

LEMMA SessStep ==
  ASSUME Typed, SessInv, CacheInv, NEW p \in Procs, Step(p)
  PROVE  SessInv' /\ CacheInv'
<1>1. Others(p)
  BY StepEffect
<1> QED
  BY <1>1, SessStepped DEF SessInv, Others

LEMMA SessStart ==
  ASSUME Typed, SessInv, CacheInv, NEW p \in Procs, NEW kind \in Kinds, NEW t \in Ids,
         NEW title \in Titles, Start(p, kind, t, title)
  PROVE  SessInv' /\ CacheInv'
<1>1. Others(p) /\ OnStart(req'[p], kind, t)
  BY StartFacts
<1>2. SessionOK(req'[p]) /\ UNCHANGED <<copies, list, redis>>
  BY <1>1 DEF OnStart, Fresh, SessionOK, Backed
<1> QED
  BY <1>1, <1>2 DEF SessInv, CacheInv, Others

LEMMA SessExpire ==
  ASSUME Typed, SessInv, CacheInv, Expire
  PROVE  SessInv' /\ CacheInv'
BY ExpireFacts DEF SessInv, CacheInv

-----------------------------------------------------------------------------
(* A task that nobody committed *)

LEMMA JobEffect ==
  ASSUME Typed, NEW p \in Procs, Step(p)
  PROVE  LET r == req[p]  s == req'[p] IN
         /\ Job(r, s) \/ (Blank(s) /\ (s = Idle \/ (s.id = r.id /\ s.step = "undo")))
         /\ r.step # "idle" /\ r.id \in Ids
         /\ s.step # "event" /\ (s.step = "insert" => r.step = "event")
<1> DEFINE r == req[p]
<1> DEFINE s == req'[p]
<1> HIDE DEF r, s
<1>0. r \in Req /\ Fits(r) /\ On(p, r, s)
  BY StepEffect DEF r, s
<1>1. ASSUME s.step \in {"insert", "event"} => s.step = "insert" /\ r.step = "event",
             r.step # "idle", Job(r, s) \/ (Blank(s) /\ (s = Idle \/ (s.id = r.id /\ s.step = "undo")))
      PROVE  /\ Job(r, s) \/ (Blank(s) /\ (s = Idle \/ (s.id = r.id /\ s.step = "undo")))
             /\ r.step # "idle" /\ r.id \in Ids
             /\ s.step # "event" /\ (s.step = "insert" => r.step = "event")
  BY <1>0, <1>1 DEF Fits
<1> SUFFICES /\ s.step \in {"insert", "event"} => s.step = "insert" /\ r.step = "event"
             /\ r.step # "idle"
             /\ Job(r, s) \/ (Blank(s) /\ (s = Idle \/ (s.id = r.id /\ s.step = "undo")))
  BY <1>1 DEF r, s
<1>2. CASE \E dated, made, answered \in BOOLEAN : OnCreateEvent(r, s, dated, made, answered)
  BY <1>2 DEF OnCreateEvent
<1>3. CASE OnInsert(p, r, s)
  BY <1>3 DEF OnInsert
<1>4. CASE OnRead(r, s)
  BY <1>4, BlankIdle DEF OnRead
<1>5. CASE \E ok \in BOOLEAN : OnGoogle(r, s, ok)
  BY <1>5 DEF OnGoogle
<1>6. CASE OnMerge(r, s) \/ OnPlan(r, s)
  BY <1>6 DEF OnMerge, OnPlan
<1>7. CASE OnFlush(p, r, s)
  BY <1>7 DEF OnFlush, AfterFlush
<1>8. CASE \E u \in Ids : OnSave(r, s, u)
  BY <1>8 DEF OnSave
<1>9. CASE OnCommit(r, s) \/ \E ok \in BOOLEAN : OnUndo(r, s, ok)
  BY <1>9, BlankIdle DEF OnCommit, OnUndo
<1>10. CASE OnAbort(p, r, s)
  BY <1>10, BlankIdle DEF OnAbort
<1>11. CASE OnFail(r, s)
  BY <1>11, BlankIdle DEF OnFail
<1> QED
  BY <1>0, <1>2, <1>3, <1>4, <1>5, <1>6, <1>7, <1>8, <1>9, <1>10, <1>11 DEF On

\* Only a commit writes the rows.
LEMMA RowsEffect ==
  ASSUME Typed, NEW p \in Procs, Step(p)
  PROVE  /\ UNCHANGED <<rows, linked, known>> \/ OnCommit(req[p], req'[p])
         /\ raced' = raced /\ redis' = redis /\ left' = left /\ faults \subseteq faults'
<1>0. On(p, req[p], req'[p])
  BY StepEffect
<1> QED
  BY <1>0 DEF On, OnCreateEvent, OnInsert, OnRead, OnGoogle, OnMerge, OnFlush, OnPlan, OnSave,
              OnCommit, OnAbort, OnFail, OnUndo, Cache

\* Redis loses a copy to the statement that writes the task.
LEMMA LosesEffect ==
  ASSUME Typed, CacheInv, NEW p \in Procs, Step(p), NEW t \in Ids, copies[t] # Nil, copies'[t] = Nil
  PROVE  \/ OnInsert(p, req[p], req'[p]) /\ t = req[p].id
         \/ /\ OnFlush(p, req[p], req'[p]) /\ t = req[p].cur
            /\ t \in DOMAIN req'[p].writes /\ ~Live(req'[p].writes[t])
<1> DEFINE r == req[p]
<1> DEFINE s == req'[p]
<1> HIDE DEF r, s
<1>0. r \in Req /\ Fits(r) /\ StoredInv /\ On(p, r, s)
  BY StepEffect DEF r, s
<1> SUFFICES \/ OnInsert(p, r, s) /\ t = r.id
             \/ OnFlush(p, r, s) /\ t = r.cur /\ t \in DOMAIN s.writes /\ ~Live(s.writes[t])
  BY DEF r, s
<1>1. CASE OnInsert(p, r, s)
  <2>1. r.id \in Ids /\ r.copy \in MaybeRow /\ Cache(r.id, r.copy)
    BY <1>1 DEF OnInsert, MaybeRow
  <2>2. t # r.id => copies'[t] = copies[t]
    BY <1>0, <2>1, CacheFacts
  <2> QED
    BY <1>1, <2>2
<1>2. CASE OnFlush(p, r, s)
  <2> DEFINE u == r.cur
  <2> HIDE DEF u
  <2>1. PICK row : row \in MaybeRow /\ Cache(u, row) /\ s.writes[u] = row /\ u \in DOMAIN s.writes
    BY <1>2 DEF OnFlush, u
  <2>2. u \in Ids
    BY <1>2 DEF OnFlush, u
  <2>3. copies'[t] = IF t = u /\ redis THEN IF Live(row) THEN row ELSE Nil ELSE copies[t]
    BY <1>0, <2>1, <2>2, CacheFacts
  <2> QED
    BY <1>2, <2>1, <2>3 DEF u, Live
<1>3. ASSUME NEW u \in Ids, NEW o, NEW ss, o \in MaybeRow, Loads(r, u, o, ss), Fills(r, u, o)
      PROVE  copies'[t] # Nil
  <2>1. copies'[t] = copies[t] \/ (Live(Seen(r, u)) /\ ~Live(copies[u]) /\ copies'[t] = o)
    BY <1>0, <1>3, FillsFacts
  <2>2. Live(Seen(r, u)) /\ ~Live(copies[u]) => o \in Row
    BY <1>0, <1>3, SeenFacts DEF Loads
  <2> QED
    BY <2>1, <2>2, NilFacts
<1>4. ASSUME OnRead(r, s)
      PROVE  FALSE
  <2> DEFINE u == r.id
  <2> HIDE DEF u
  <2>1. PICK o, ss : o \in MaybeRow /\ Loads(r, u, o, ss) /\ Fills(r, u, o)
    BY <1>4 DEF OnRead, u
  <2>2. u \in Ids
    BY <1>4 DEF OnRead, u
  <2> QED
    BY <1>3, <2>1, <2>2
<1>5. ASSUME NEW u \in Ids, OnSave(r, s, u)
      PROVE  FALSE
  <2>1. PICK o, ss : o \in MaybeRow /\ Loads(r, u, o, ss) /\ Fills(r, u, o)
    BY <1>5 DEF OnSave
  <2> QED
    BY <1>3, <2>1
<1>6. CASE copies' = copies
  BY <1>6
<1> QED
  BY <1>0, <1>1, <1>2, <1>4, <1>5, <1>6
     DEF On, OnCreateEvent, OnGoogle, OnMerge, OnPlan, OnCommit, OnAbort, OnFail, OnUndo

LEMMA BirthUse ==
  ASSUME Typed, BirthInv, NEW t \in Ids, NEW p \in Procs
  PROVE  /\ rows[t] # Nil => t \in known
         /\ req[p].step \in {"event", "insert"} /\ req[p].id = t => t \notin known
BY DEF BirthInv, Unborn, Bears

\* With {}: a mutation that has nothing of a task does not come by it.
LEMMA BirthNothing ==
  ASSUME Typed, NEW p \in Procs, Step(p), NEW t \in Ids,
         copies[t] = Nil, rows[t] = Nil, req[p].id # t, Kept(req[p], t, {})
  PROVE  Kept(req'[p], t, {}) /\ copies'[t] = Nil /\ rows'[t] = Nil
<1> DEFINE r == req[p]
<1> HIDE DEF r
<1>1. r \in Req /\ Fits(r)
  BY StepEffect DEF r
<1>2. Kept(r, t, {}) /\ r.id # t
  BY DEF r
<1>3. Seen(r, t) \in {} \cup {Nil} /\ copies[t] \in {} \cup {Nil}
  BY <1>1, <1>2, FetchedKept
<1>4. Saves(r, t, {})
  BY <1>1, <1>2, SavesNothing
<1>5. Closed({})
  BY ClosedSets
<1>6. Kept(req'[p], t, {}) /\ copies'[t] \in {} \cup {Nil} /\ rows'[t] \in {rows[t], Seen(r, t)}
  BY <1>2, <1>3, <1>4, <1>5, Derive DEF r
<1> QED
  BY <1>3, <1>6

LEMMA BirthLive ==
  ASSUME Typed, CacheInv, BirthInv, NEW p \in Procs, Step(p), NEW t \in Ids \ known
  PROVE  Kept(req'[p], t, LiveRows)
<1> DEFINE r == req[p]
<1> HIDE DEF r
<1>1. r \in Req /\ Fits(r) /\ On(p, r, req'[p])
  BY StepEffect DEF r
<1>2. Kept(r, t, LiveRows) /\ rows[t] = Nil /\ copies[t] \in LiveRows \cup {Nil}
  BY DEF BirthInv, Unborn, CacheInv, r
<1>3. Seen(r, t) \in LiveRows \cup {Nil}
  BY <1>1, <1>2, FetchedKept
<1>4. ~Removes(r, t)
  BY DEF Removes, BirthInv, r
<1>5. Saves(r, t, LiveRows)
  BY <1>1, <1>2, <1>4, SavesLive
<1>6. r.step = "event" => req'[p].copy \in LiveRows
  BY <1>1 DEF On, OnCreateEvent, OnInsert, OnRead, OnGoogle, OnMerge, OnFlush, OnPlan, OnSave,
              OnCommit, OnAbort, OnFail, OnUndo, LiveRows
<1> QED
  BY <1>2, <1>3, <1>5, <1>6, ClosedSets, Derive DEF r

LEMMA BirthStep ==
  ASSUME Typed, CacheInv, BirthInv, NEW p \in Procs, Step(p)
  PROVE  BirthInv'
<1>1. /\ Others(p) /\ Typed' /\ known \subseteq known'
  BY StepEffect, RowsEffect DEF OnCommit
<1>o. \A q \in Procs \ {p} : req'[q] = req[q]
  BY <1>1 DEF Others
<1>2. \A t \in Ids \ known' : rows'[t] = Nil
  <2> SUFFICES ASSUME NEW t \in Ids \ known' PROVE rows'[t] = Nil
    OBVIOUS
  <2>1. rows[t] = Nil
    BY <1>1 DEF BirthInv, Unborn
  <2> QED
    BY <2>1, RowsEffect DEF OnCommit
<1>3. \A t \in Ids \ known', q \in Procs : Kept(req'[q], t, LiveRows)
  BY <1>1, <1>o, BirthLive DEF BirthInv, Unborn
<1>4. ASSUME NEW t \in Ids \ known', copies'[t] = Nil, NEW q \in Procs
      PROVE  req'[q].id = t \/ Kept(req'[q], t, {})
  <2>1. /\ t \notin known /\ t \in Ids /\ rows[t] = Nil
        /\ copies[t] = Nil => \A x \in Procs : req[x].id = t \/ Kept(req[x], t, {})
    BY <1>1, <1>4 DEF BirthInv, Unborn
  <2>2. copies[t] = Nil
    <3> SUFFICES ASSUME copies[t] # Nil PROVE FALSE
      OBVIOUS
    <3>1. ~(OnInsert(p, req[p], req'[p]) /\ t = req[p].id)
      BY DEF BirthInv, Bears, OnInsert
    <3>2. t \in DOMAIN req'[p].writes /\ ~Live(req'[p].writes[t])
      BY <1>4, <3>1, LosesEffect
    <3>3. req'[p].writes[t] \in LiveRows
      BY <1>3, <1>4, <3>2 DEF Kept
    <3> QED
      BY <3>2, <3>3, NilFacts DEF Live, LiveRows
  <2>3. CASE q # p
    BY <1>o, <2>1, <2>2, <2>3
  <2>4. CASE q = p /\ req[p].id # t
    BY <2>1, <2>2, <2>4, BirthNothing
  <2>5. CASE q = p /\ req[p].id = t
    BY <2>5, JobEffect, BlankIdle, BlankKept DEF Job
  <2> QED
    BY <2>3, <2>4, <2>5
<1>5. ASSUME NEW q \in Procs, req'[q].step \in {"event", "insert"}
      PROVE  Bears(q)'
  <2>1. req[q].step \in {"event", "insert"} /\ req'[q].id = req[q].id
    <3>1. CASE q = p
      <4>1. req'[p].step = "insert" /\ req[p].step = "event"
        BY <1>5, <3>1, JobEffect
      <4>2. Job(req[p], req'[p])
        BY <4>1, JobEffect DEF Blank
      <4> QED
        BY <3>1, <4>1, <4>2 DEF Job
    <3>2. CASE q # p
      BY <1>5, <1>o, <3>2
    <3> QED
      BY <3>1, <3>2
  <2>2. req[q].id \in Ids
    BY <2>1, ReqFacts DEF Fits
  <2> DEFINE t == req[q].id
  <2> HIDE DEF t
  <2>3. /\ t \in Ids /\ t \notin known /\ copies[t] = Nil
        /\ \A x \in Procs \ {q} : req[x].id # t
    BY <2>1, <2>2 DEF BirthInv, Bears, t
  <2>4. /\ rows[t] = Nil
        /\ \A x \in Procs : req[x].id = t \/ Kept(req[x], t, {})
    BY <2>3 DEF BirthInv, Unborn
  <2>5. copies'[t] = Nil /\ t \notin known'
    <3>1. CASE p # q
      <4>1. copies'[t] = Nil /\ rows'[t] = Nil
        BY <2>3, <2>4, <3>1, BirthNothing
      <4> QED
        BY <2>3, <4>1, RowsEffect DEF OnCommit
    <3>2. CASE p = q
      <4>1. req'[p].step = "insert" /\ req[p].step = "event"
        BY <1>5, <3>2, JobEffect
      <4>2. copies' = copies /\ known' = known
        BY <4>1, StepEffect DEF On, OnCreateEvent, OnInsert, OnRead, OnGoogle, OnMerge, OnFlush,
           OnPlan, OnSave, OnCommit, OnAbort, OnFail, OnUndo
      <4> QED
        BY <2>3, <4>2
    <3> QED
      BY <3>1, <3>2
  <2>6. \A x \in Procs \ {q} : req'[x].id # t
    <3>1. \A x \in Procs \ {q} : x # p => req'[x].id # t
      BY <1>o, <2>3
    <3>2. p # q => req'[p].id # t
      BY <2>3, JobEffect, BlankIdle, NilFacts DEF Job
    <3> QED
      BY <3>1, <3>2
  <2> QED
    BY <2>1, <2>5, <2>6 DEF Bears, t
<1>6. \A q \in Procs : req'[q].kind # "create" => req'[q].id \in known'
  <2>1. req'[p].kind # "create" => req'[p].id \in known'
    BY <1>1, JobEffect DEF Blank, Job, BirthInv
  <2> QED
    BY <1>1, <1>o, <2>1 DEF BirthInv
<1> QED
  BY <1>2, <1>3, <1>4, <1>5, <1>6 DEF BirthInv, Unborn

LEMMA BirthStart ==
  ASSUME Typed, BirthInv, NEW p \in Procs, NEW kind \in Kinds, NEW t \in Ids, NEW title \in Titles,
         Start(p, kind, t, title)
  PROVE  BirthInv'
<1> DEFINE s == req'[p]
<1> HIDE DEF s
<1>1. /\ Others(p) /\ req[p] = Idle /\ Fresh(s) /\ s.kind = kind /\ s.id = t
      /\ kind = "create" => t \notin known /\ copies[t] = Nil /\ \A q \in Busy : req[q].id # t
      /\ kind # "create" => t \in known
      /\ s.step = (IF kind = "create" THEN "event" ELSE "find")
      /\ UNCHANGED <<rows, linked, events, copies, list, redis, faults, known>>
  BY StartFacts DEF OnStart, s
<1>2. \A q \in Procs \ {p} : req'[q] = req[q]
  BY <1>1 DEF Others
<1>3. \A x \in Ids \ known : Unborn(x)'
  BY <1>1, <1>2, FreshKept DEF BirthInv, Unborn, s
<1>4. \A q \in Procs : q \notin Busy => req[q].id = Nil
  BY IdleIs, BlankIdle DEF Busy, At
<1>5. \A q \in Procs \ {p} : kind = "create" => req[q].id # t
  BY <1>1, <1>4, NilFacts
<1>6. kind = "create" => Bears(p)'
  BY <1>1, <1>2, <1>5 DEF Bears, s
<1>7. ASSUME NEW q \in Procs \ {p}, req[q].step \in {"event", "insert"}
      PROVE  Bears(q)'
  <2>1. Bears(q)
    BY <1>7 DEF BirthInv
  <2>2. t # req[q].id
    <3>1. kind # "create" => t \in known
      BY <1>1
    <3> QED
      BY <1>5, <2>1, <3>1 DEF Bears
  <2> QED
    BY <1>1, <1>2, <2>1, <2>2 DEF Bears, s
<1> QED
  BY <1>1, <1>2, <1>3, <1>6, <1>7 DEF BirthInv, s

LEMMA BirthExpire ==
  ASSUME Typed, BirthInv, Expire
  PROVE  BirthInv'
<1>1. /\ \A q \in Procs : req[q] = Idle
      /\ req' = req /\ UNCHANGED <<rows, known>>
  BY ExpireFacts
<1>2. \A q \in Procs : req[q].step = "idle" /\ req[q].kind = "create"
  BY <1>1, BlankIdle DEF Blank
<1>3. \A x \in Ids, q \in Procs : Kept(req[q], x, {})
  BY <1>1, BlankIdle, BlankKept
<1> QED
  BY <1>1, <1>2, <1>3 DEF BirthInv, Unborn

-----------------------------------------------------------------------------
(* The workspaces' links and the events *)

LEMMA KeepsLive ==
  ASSUME Typed, CacheInv, BirthInv, NEW p \in Procs, Step(p), NEW t \in Ids, t \in known,
         rows[t] \in LiveRows, Kept(req[p], t, LiveRows), ~Removes(req[p], t)
  PROVE  Kept(req'[p], t, LiveRows) /\ rows'[t] \in LiveRows
<1> DEFINE r == req[p]
<1> HIDE DEF r
<1>1. r \in Req /\ Fits(r)
  BY StepEffect DEF r
<1>2. Kept(r, t, LiveRows) /\ ~Removes(r, t) /\ copies[t] \in LiveRows \cup {Nil}
  BY DEF CacheInv, r
<1>3. Seen(r, t) \in LiveRows \cup {Nil}
  BY <1>1, <1>2, FetchedKept
<1>4. Saves(r, t, LiveRows)
  BY <1>1, <1>2, SavesLive
<1>5. r.step = "event" => r.id # t
  BY BirthUse DEF r
<1>6. /\ Kept(req'[p], t, LiveRows) /\ rows'[t] \in {rows[t], Seen(r, t)}
      /\ rows[t] # Nil => rows'[t] # Nil
  BY <1>2, <1>3, <1>4, <1>5, ClosedSets, Derive DEF r
<1>7. rows[t] # Nil
  BY NilFacts DEF LiveRows
<1> QED
  BY <1>3, <1>6, <1>7

LEMMA LinkStep ==
  ASSUME Typed, CacheInv, BirthInv, LinkInv, NEW p \in Procs, Step(p)
  PROVE  LinkInv'
<1>1. Others(p) /\ known \subseteq known' /\ linked' \subseteq linked /\ linked \subseteq Ids
  BY StepEffect, RowsEffect DEF OnCommit, StoredInv
<1>2. \A q \in Procs \ {p} : req'[q] = req[q]
  BY <1>1 DEF Others
<1> SUFFICES ASSUME NEW t \in linked'
             PROVE  /\ t \in known' /\ rows'[t] \in LiveRows
                    /\ \A q \in Procs : Removes(req'[q], t) \/ Kept(req'[q], t, LiveRows)
  BY DEF LinkInv
<1>3. /\ t \in linked /\ t \in Ids /\ t \in known /\ rows[t] \in LiveRows
      /\ \A q \in Procs : Removes(req[q], t) \/ Kept(req[q], t, LiveRows)
  BY <1>1 DEF LinkInv
<1>4. CASE ~Removes(req[p], t)
  <2>1. Kept(req'[p], t, LiveRows) /\ rows'[t] \in LiveRows
    BY <1>3, <1>4, KeepsLive
  <2> QED
    BY <1>1, <1>2, <1>3, <2>1
<1>5. CASE Removes(req[p], t)
  <2>1. Removes(req'[p], t) \/ Kept(req'[p], t, LiveRows)
    BY <1>5, JobEffect, BlankKept DEF Job, Removes
  <2>2. rows'[t] = rows[t]
    <3>1. CASE OnCommit(req[p], req'[p])
      <4>1. t \notin Unlinked(req[p]) /\ rows'[t] = Seen(req[p], t)
        BY <1>3, <3>1 DEF OnCommit
      <4>2. req[p].writes = <<>>
        BY <1>5, <4>1 DEF Unlinked, Removes
      <4> QED
        BY <4>1, <4>2, EmptyPartial DEF Seen
    <3>2. CASE rows' = rows
      BY <3>2
    <3> QED
      BY <3>1, <3>2, RowsEffect
  <2> QED
    BY <1>1, <1>2, <1>3, <2>1, <2>2
<1> QED
  BY <1>4, <1>5

LEMMA LinkStart ==
  ASSUME Typed, LinkInv, NEW p \in Procs, NEW kind \in Kinds, NEW t \in Ids, NEW title \in Titles,
         Start(p, kind, t, title)
  PROVE  LinkInv'
<1>1. Others(p) /\ Fresh(req'[p]) /\ UNCHANGED <<rows, linked, known>>
  BY StartFacts DEF OnStart
<1> QED
  BY <1>1, FreshKept DEF LinkInv, Others

LEMMA LinkExpire ==
  ASSUME Typed, LinkInv, Expire
  PROVE  LinkInv'
<1>1. req' = req /\ UNCHANGED <<rows, linked, known>>
  BY ExpireFacts
<1> QED
  BY <1>1 DEF LinkInv

\* What each step does to the events, and who is on the way to take one back.
LEMMA EventEffect ==
  ASSUME Typed, NEW p \in Procs, Step(p), NEW t \in Ids, faults' \subseteq {"statement"}
  PROVE  LET r == req[p]  s == req'[p] IN
         \/ events'[t] = events[t]
         \/ events'[t] = Nil
         \/ r.step = "google" /\ r.kind # "create" /\ r.id = t /\ events[t] # Nil
         \/ r.step = "event" /\ r.id = t /\ s.copy \in GoodRows /\ DOMAIN s.sess = {}
            /\ DOMAIN s.writes = {} /\ s.base = Nil /\ s.step = "insert" /\ s.kind = "create"
            /\ s.id = t
<1> DEFINE r == req[p]
<1> DEFINE s == req'[p]
<1> HIDE DEF r, s
<1>0. r \in Req /\ Fits(r) /\ StoredInv /\ On(p, r, s) /\ events \in [Ids -> Titles \cup {Nil}]
  BY StepEffect DEF r, s, StoredInv
<1> SUFFICES \/ events'[t] = events[t]
             \/ events'[t] = Nil
             \/ r.step = "google" /\ r.kind # "create" /\ r.id = t /\ events[t] # Nil
             \/ r.step = "event" /\ r.id = t /\ s.copy \in GoodRows /\ DOMAIN s.sess = {}
                /\ DOMAIN s.writes = {} /\ s.base = Nil /\ s.step = "insert" /\ s.kind = "create"
                /\ s.id = t
  BY DEF r, s
<1>1. CASE \E dated, made, answered \in BOOLEAN : OnCreateEvent(r, s, dated, made, answered)
  <2>1. PICK dated, made, answered \in BOOLEAN : OnCreateEvent(r, s, dated, made, answered)
    BY <1>1
  <2>2. /\ r.step = "event" /\ Job(r, s) /\ s.step = "insert" /\ s.base = Nil
        /\ s.sess = r.sess /\ s.writes = r.writes /\ s.copy \in Row /\ s.copy.deleted = FALSE
        /\ s.copy.event = (made /\ answered) /\ r.kind = "create"
        /\ events' = IF made THEN [events EXCEPT ![r.id] = r.title] ELSE events
    BY <2>1 DEF OnCreateEvent
  <2>3. answered
    BY <2>1 DEF OnCreateEvent
  <2>4. DOMAIN r.sess = {} /\ DOMAIN r.writes = {}
    BY <1>0, <2>2, EmptyPartial DEF Fits, Empty
  <2>5. CASE made /\ r.id = t
    BY <2>2, <2>3, <2>4, <2>5 DEF GoodRows, Job
  <2>6. CASE ~made \/ r.id # t
    BY <1>0, <2>2, <2>6
  <2> QED
    BY <2>5, <2>6
<1>2. CASE \E ok \in BOOLEAN : OnGoogle(r, s, ok)
  <2>1. PICK ok \in BOOLEAN : OnGoogle(r, s, ok)
    BY <1>2
  <2>2. /\ r.step = "google" /\ r.kind # "create"
        /\ \/ events' = events
           \/ events' = [events EXCEPT ![r.id] = Nil]
           \/ events[r.id] # Nil /\ events' = [events EXCEPT ![r.id] = s.copy.title]
    BY <2>1 DEF OnGoogle
  <2> QED
    BY <1>0, <2>2
<1>3. CASE \E ok \in BOOLEAN : OnUndo(r, s, ok)
  <2>1. events' = events \/ events' = [events EXCEPT ![r.id] = Nil]
    BY <1>3 DEF OnUndo
  <2> QED
    BY <1>0, <2>1
<1>4. CASE events' = events
  BY <1>4
<1> QED
  BY <1>0, <1>1, <1>2, <1>3, <1>4
     DEF On, OnInsert, OnRead, OnMerge, OnFlush, OnPlan, OnSave, OnCommit, OnAbort, OnFail

LEMMA KeepsEvent ==
  ASSUME Typed, BirthInv, EventInv, NEW p \in Procs, Step(p), NEW t \in Ids,
         faults' \subseteq {"statement"}, events[t] # Nil
  PROVE  /\ rows'[t] \in GoodRows \cup {Nil} /\ copies'[t] \in GoodRows \cup {Nil}
         /\ Kept(req'[p], t, GoodRows) /\ (rows[t] # Nil => rows'[t] # Nil)
<1> DEFINE r == req[p]
<1> HIDE DEF r
<1>1. r \in Req /\ Fits(r) /\ faults \subseteq {"statement"}
  BY StepEffect, RowsEffect DEF r
<1>2. /\ rows[t] \in GoodRows \cup {Nil} /\ copies[t] \in GoodRows \cup {Nil}
      /\ Kept(r, t, GoodRows)
      /\ rows[t] # Nil \/ \E q \in Procs : Makes(req[q], t)
      /\ r.kind = "remove" /\ r.step = "flush" /\ ~r.planning => events[r.id] = Nil
  BY <1>1 DEF EventInv, r
<1>3. Seen(r, t) \in GoodRows \cup {Nil}
  BY <1>1, <1>2, FetchedKept
<1>4. Saves(r, t, GoodRows)
  <2>1. r.step = "flush" => ~Removes(r, t) \/ r.planning
    BY <1>2 DEF Removes
  <2> QED
    BY <1>1, <1>2, <2>1, SavesLive
<1>5. r.step = "event" => r.id # t
  <2> SUFFICES ASSUME r.step = "event", r.id = t PROVE FALSE
    OBVIOUS
  <2>1. Bears(p) /\ t \notin known
    BY DEF BirthInv, Bears, r
  <2>2. rows[t] = Nil
    BY <2>1 DEF BirthInv, Unborn
  <2>3. PICK q \in Procs : Makes(req[q], t)
    BY <1>2, <2>2
  <2>4. q # p
    BY <2>3 DEF Makes, r
  <2> QED
    BY <2>1, <2>3, <2>4 DEF Bears, Makes, r
<1>6. /\ Kept(req'[p], t, GoodRows) /\ copies'[t] \in GoodRows \cup {Nil}
      /\ rows'[t] \in {rows[t], Seen(r, t)}
      /\ rows[t] # Nil => rows'[t] # Nil
  BY <1>2, <1>3, <1>4, <1>5, ClosedSets, Derive DEF r
<1> QED
  BY <1>2, <1>3, <1>6

LEMMA KeepsMaker ==
  ASSUME Typed, EventInv, NEW p \in Procs, Step(p), NEW t \in Ids, faults' \subseteq {"statement"},
         events[t] # Nil, events'[t] # Nil, Makes(req[p], t)
  PROVE  rows'[t] # Nil \/ Makes(req'[p], t)
<1> DEFINE r == req[p]
<1> DEFINE s == req'[p]
<1> HIDE DEF r, s
<1>0. /\ r \in Req /\ Fits(r) /\ On(p, r, s) /\ faults \subseteq {"statement"}
      /\ events \in [Ids -> Titles \cup {Nil}]
  BY StepEffect, RowsEffect DEF r, s, StoredInv
<1>1. Kept(r, t, GoodRows)
  BY <1>0 DEF EventInv, r
<1>2. /\ r.kind = "create" /\ r.id = t
      /\ r.step \in {"insert", "plan", "next", "merge", "flush", "undo"}
  BY DEF Makes, r
<1>3. r.step \in {"plan", "next", "merge", "flush"} =>
        t \in DOMAIN r.writes /\ r.writes[t] \in GoodRows /\ r.writes[t].event
  BY <1>0, <1>1, <1>2 DEF Fits, Kept, GoodRows
<1>4. r.step = "insert" => r.copy.event
  BY <1>0, <1>1, <1>2, NilFacts DEF Fits, Kept, GoodRows
<1>5. r.step \in {"insert", "plan", "next", "flush"} => Mirrored(r)
  BY <1>2, <1>3, <1>4 DEF Mirrored
<1> SUFFICES rows'[t] # Nil \/ Makes(s, t)
  BY DEF s
<1>6. ASSUME s.step = "undo", s.id = r.id, Blank(s)
      PROVE  Makes(s, t)
  BY <1>2, <1>6 DEF Makes, Blank
<1>7. CASE OnInsert(p, r, s)
  BY <1>2, <1>7 DEF OnInsert, Job, Makes
<1>8. CASE OnMerge(r, s) \/ OnPlan(r, s)
  BY <1>2, <1>8 DEF OnMerge, OnPlan, Job, Makes
<1>9. CASE OnFlush(p, r, s)
  BY <1>2, <1>9 DEF OnFlush, AfterFlush, Job, Makes
<1>10. CASE \E u \in Ids : OnSave(r, s, u)
  BY <1>2, <1>10 DEF OnSave, Job, Makes
<1>11. CASE OnCommit(r, s)
  <2>1. rows'[t] = Seen(r, t) /\ r.step = "next"
    BY <1>2, <1>11 DEF OnCommit
  <2> QED
    BY <1>3, <2>1, NilFacts DEF Seen, GoodRows
<1>12. CASE OnAbort(p, r, s)
  BY <1>5, <1>6, <1>12 DEF OnAbort
<1>13. CASE OnFail(r, s)
  BY <1>2, <1>5, <1>6, <1>13 DEF OnFail
<1>14. CASE \E ok \in BOOLEAN : OnUndo(r, s, ok)
  BY <1>0, <1>2, <1>14 DEF OnUndo
<1>15. CASE \/ \E dated, made, answered \in BOOLEAN : OnCreateEvent(r, s, dated, made, answered)
            \/ OnRead(r, s) \/ \E ok \in BOOLEAN : OnGoogle(r, s, ok)
  BY <1>2, <1>15 DEF OnCreateEvent, OnRead, OnGoogle
<1> QED
  BY <1>0, <1>7, <1>8, <1>9, <1>10, <1>11, <1>12, <1>13, <1>14, <1>15 DEF On

\* A removal takes the event first.
LEMMA Unmirrored ==
  ASSUME Typed, EventInv, NEW p \in Procs, Step(p), faults' \subseteq {"statement"},
         req'[p].kind = "remove", req'[p].step = "flush", ~req'[p].planning
  PROVE  events'[req'[p].id] = Nil
<1> DEFINE r == req[p]
<1> DEFINE s == req'[p]
<1> HIDE DEF r, s
<1>0. /\ r \in Req /\ Fits(r) /\ On(p, r, s) /\ faults \subseteq {"statement"}
      /\ events \in [Ids -> Titles \cup {Nil}]
  BY StepEffect, RowsEffect DEF r, s, StoredInv
<1>1. s.kind = "remove" /\ s.step = "flush" /\ ~s.planning
  BY DEF s
<1> SUFFICES events'[s.id] = Nil
  BY DEF s
<1>2. CASE \E ok \in BOOLEAN : OnGoogle(r, s, ok)
  <2>1. PICK ok \in BOOLEAN : OnGoogle(r, s, ok)
    BY <1>2
  <2> DEFINE t == r.id
  <2> HIDE DEF t
  <2>2. /\ s.id = t /\ t \in Ids /\ r.cur = t /\ r.copy \in Row /\ ok
        /\ events' = IF r.copy.event THEN [events EXCEPT ![t] = Nil] ELSE events
    BY <1>1, <2>1 DEF OnGoogle, Job, t
  <2>3. ASSUME ~r.copy.event PROVE events[t] = Nil
    <3>1. events[t] # Nil => Kept(r, t, GoodRows)
      BY <1>0, <2>2 DEF EventInv, r
    <3> QED
      BY <2>2, <2>3, <3>1, NilFacts DEF Kept, GoodRows
  <2> QED
    BY <1>0, <2>2, <2>3
<1> QED
  BY <1>0, <1>1, <1>2, BlankIdle DEF On, OnCreateEvent, OnInsert, OnRead, OnMerge, OnFlush, OnPlan,
     OnSave, OnCommit, OnAbort, OnFail, OnUndo, AfterFlush, Blank

LEMMA EventStep ==
  ASSUME Typed, BirthInv, EventInv, NEW p \in Procs, Step(p)
  PROVE  EventInv'
<1>1. /\ Others(p) /\ StoredInv
  BY StepEffect
<1>2. \A q \in Procs \ {p} : req'[q] = req[q]
  BY <1>1 DEF Others
<1> SUFFICES ASSUME faults' \subseteq {"statement"}
             PROVE  /\ \A q \in Procs :
                         req'[q].kind = "remove" /\ req'[q].step = "flush" /\ ~req'[q].planning
                         => events'[req'[q].id] = Nil
                    /\ \A t \in Ids : events'[t] # Nil =>
                         /\ rows'[t] \in GoodRows \cup {Nil} /\ copies'[t] \in GoodRows \cup {Nil}
                         /\ \A q \in Procs : Kept(req'[q], t, GoodRows)
                         /\ rows'[t] # Nil \/ \E q \in Procs : Makes(req'[q], t)
  BY DEF EventInv
<1>3. faults \subseteq {"statement"}
  BY RowsEffect
<1>4. ASSUME NEW t \in Ids, events[t] = Nil, events'[t] # Nil
      PROVE  LET s == req'[p] IN
             /\ req[p].step = "event" /\ req[p].id = t /\ s.copy \in GoodRows /\ DOMAIN s.sess = {}
             /\ DOMAIN s.writes = {} /\ s.base = Nil /\ s.step = "insert" /\ s.kind = "create"
             /\ s.id = t
  BY <1>4, EventEffect
<1>5. ASSUME NEW q \in Procs, req'[q].kind = "remove", req'[q].step = "flush", ~req'[q].planning
      PROVE  events'[req'[q].id] = Nil
  <2>1. CASE q = p
    BY <1>5, <2>1, Unmirrored
  <2>2. CASE q # p
    <3>1. /\ req'[q] = req[q] /\ req[q].kind = "remove" /\ req[q].step = "flush"
          /\ ~req[q].planning /\ req[q].id \in Ids
      BY <1>2, <1>5, <2>2, ReqFacts DEF Fits
    <3>2. events[req[q].id] = Nil /\ req[q].id \in known
      BY <1>3, <3>1 DEF EventInv, BirthInv
    <3>3. req[p].step = "event" => req[p].id # req[q].id
      BY <3>2 DEF BirthInv, Bears
    <3> QED
      BY <1>4, <3>1, <3>2, <3>3
  <2> QED
    BY <2>1, <2>2
<1>6. ASSUME NEW t \in Ids, events'[t] # Nil
      PROVE  /\ rows'[t] \in GoodRows \cup {Nil} /\ copies'[t] \in GoodRows \cup {Nil}
             /\ \A q \in Procs : Kept(req'[q], t, GoodRows)
             /\ rows'[t] # Nil \/ \E q \in Procs : Makes(req'[q], t)
  <2>1. CASE events[t] # Nil
    <3>1. /\ rows'[t] \in GoodRows \cup {Nil} /\ copies'[t] \in GoodRows \cup {Nil}
          /\ Kept(req'[p], t, GoodRows) /\ (rows[t] # Nil => rows'[t] # Nil)
      BY <2>1, KeepsEvent
    <3>2. /\ \A q \in Procs : Kept(req[q], t, GoodRows)
          /\ rows[t] # Nil \/ \E q \in Procs : Makes(req[q], t)
      BY <1>3, <2>1 DEF EventInv
    <3>3. CASE rows[t] # Nil
      BY <1>2, <3>1, <3>2, <3>3
    <3>4. CASE \E q \in Procs : Makes(req[q], t)
      <4>1. PICK q \in Procs : Makes(req[q], t)
        BY <3>4
      <4>2. CASE q = p
        <5>1. rows'[t] # Nil \/ Makes(req'[p], t)
          BY <1>6, <2>1, <4>1, <4>2, KeepsMaker
        <5> QED
          BY <1>2, <3>1, <3>2, <5>1
      <4>3. CASE q # p
        BY <1>2, <3>1, <3>2, <4>1, <4>3
      <4> QED
        BY <4>2, <4>3
    <3> QED
      BY <3>2, <3>3, <3>4
  <2>2. CASE events[t] = Nil
    <3> DEFINE s == req'[p]
    <3> HIDE DEF s
    <3>1. /\ req[p].step = "event" /\ req[p].id = t /\ s.copy \in GoodRows /\ DOMAIN s.sess = {}
          /\ DOMAIN s.writes = {} /\ s.base = Nil /\ s.step = "insert" /\ s.kind = "create"
          /\ s.id = t
      BY <1>4, <1>6, <2>2 DEF s
    <3>2. Kept(s, t, GoodRows) /\ Makes(s, t)
      BY <3>1 DEF Kept, Makes
    <3>3. Bears(p)
      BY <3>1 DEF BirthInv
    <3>4. /\ t \notin known /\ copies[t] = Nil /\ rows[t] = Nil
          /\ \A q \in Procs \ {p} : Kept(req[q], t, {})
      BY <3>1, <3>3 DEF Bears, BirthInv, Unborn
    <3>5. \A q \in Procs \ {p} : Kept(req'[q], t, GoodRows)
      BY <1>2, <3>4 DEF Kept
    <3>6. copies' = copies /\ rows' = rows
      BY <3>1, StepEffect DEF On, OnCreateEvent, OnInsert, OnRead, OnGoogle, OnMerge, OnFlush,
         OnPlan, OnSave, OnCommit, OnAbort, OnFail, OnUndo
    <3> QED
      BY <3>2, <3>4, <3>5, <3>6 DEF s
  <2> QED
    BY <2>1, <2>2
<1> QED
  BY <1>5, <1>6

LEMMA EventStart ==
  ASSUME Typed, EventInv, NEW p \in Procs, NEW kind \in Kinds, NEW t \in Ids, NEW title \in Titles,
         Start(p, kind, t, title)
  PROVE  EventInv'
<1>1. /\ Others(p) /\ Fresh(req'[p]) /\ req[p] = Idle
      /\ UNCHANGED <<rows, events, copies, faults>>
  BY StartFacts DEF OnStart
<1>2. \A q \in Procs \ {p} : req'[q] = req[q]
  BY <1>1 DEF Others
<1>3. req'[p].step # "flush" /\ \A x \in Ids : ~Makes(req[p], x) /\ Kept(req'[p], x, GoodRows)
  BY <1>1, FreshKept, BlankIdle DEF Makes, Fresh
<1> QED
  BY <1>1, <1>2, <1>3 DEF EventInv

LEMMA EventExpire ==
  ASSUME Typed, EventInv, Expire
  PROVE  EventInv'
<1>1. /\ req' = req /\ UNCHANGED <<rows, events, faults>>
      /\ \A t \in Ids : copies'[t] \in {copies[t], Nil}
  BY ExpireFacts
<1> QED
  BY <1>1 DEF EventInv

-----------------------------------------------------------------------------
(* Alone: tasks that are gone *)

LEMMA OthersIdle ==
  ASSUME Typed, SingleInv, ~raced, NEW p \in Procs, Step(p)
  PROVE  \A q \in Procs \ {p} : req[q] = Idle /\ req'[q] = Idle
<1>1. req[p].step # "idle" /\ Others(p)
  BY JobEffect, StepEffect
<1>2. \A q \in Procs \ {p} : req[q] = Idle
  BY <1>1, IdleIs DEF SingleInv, At
<1> QED
  BY <1>1, <1>2 DEF Others

LEMMA StartAlone ==
  ASSUME Typed, NEW p \in Procs, NEW kind \in Kinds, NEW t \in Ids, NEW title \in Titles,
         Start(p, kind, t, title), ~raced'
  PROVE  ~raced /\ \A q \in Procs : req[q] = Idle
<1>1. raced' = (raced \/ Busy # {}) /\ raced \in BOOLEAN
  BY StartFacts DEF OnStart, StoredInv
<1>2. ~raced /\ Busy = {}
  BY <1>1
<1> QED
  BY <1>2, IdleIs DEF Busy, At

LEMMA SingleStep ==
  ASSUME Typed, SingleInv, NEW p \in Procs, Step(p)
  PROVE  SingleInv'
<1>1. raced' = raced
  BY RowsEffect
<1> QED
  BY <1>1, OthersIdle, BlankIdle DEF SingleInv, At

LEMMA SingleStart ==
  ASSUME Typed, NEW p \in Procs, NEW kind \in Kinds, NEW t \in Ids, NEW title \in Titles,
         Start(p, kind, t, title)
  PROVE  SingleInv'
<1>1. Others(p)
  BY StartFacts
<1> QED
  BY <1>1, StartAlone, BlankIdle DEF SingleInv, At, Others

LEMMA SingleExpire ==
  ASSUME Typed, Expire
  PROVE  SingleInv'
BY ExpireFacts, BlankIdle DEF SingleInv, At

\* What a flush makes of a row.
Becomes(r, row) ==
    LET now == Seen(r, r.cur)  want == Wish(r) IN
    /\ row \in Row /\ ~Erases(r)
    /\ \/ r.base = Nil /\ now = Nil /\ row = want
       \/ /\ r.base \in Row /\ now \in Row /\ row = Updated(r.base, want, now)
          /\ row.title = IF want.title # r.base.title THEN want.title ELSE now.title
          /\ row.status = IF want.status # r.base.status THEN want.status ELSE now.status
          /\ row.deleted = IF want.deleted # r.base.deleted THEN want.deleted ELSE now.deleted

LEMMA FlushesFacts ==
  ASSUME StoredInv, NEW r \in Req, Fits(r), r.step = "flush", NEW row \in MaybeRow, Flushes(r, row)
  PROVE  IF row = Nil THEN Erases(r) ELSE Becomes(r, row)
<1> DEFINE now == Seen(r, r.cur)
<1> DEFINE want == Wish(r)
<1> HIDE DEF now, want
<1>1. want \in Row /\ r.base \in MaybeRow /\ now \in MaybeRow
  BY WishFacts, SeenFacts DEF now, want, Req
<1>2. \/ Erases(r) /\ row = Nil
      \/ ~Erases(r) /\ r.base = Nil /\ now = Nil /\ row = want
      \/ ~Erases(r) /\ r.base # Nil /\ now # Nil /\ row = Updated(r.base, want, now)
  BY DEF Flushes, now, want
<1>3. CASE Erases(r) /\ row = Nil
  BY <1>3
<1>4. CASE ~Erases(r) /\ r.base = Nil /\ now = Nil /\ row = want
  BY <1>1, <1>4, NilFacts DEF Becomes, now, want
<1>5. CASE ~Erases(r) /\ r.base # Nil /\ now # Nil /\ row = Updated(r.base, want, now)
  <2>1. r.base \in Row /\ now \in Row
    BY <1>1, <1>5 DEF MaybeRow
  <2> DEFINE b == r.base
  <2> HIDE DEF b
  <2>2. b \in Row
    BY <2>1 DEF b
  <2>3. LET u == Updated(b, want, now) IN
        /\ u \in Row
        /\ u.title = IF want.title # b.title THEN want.title ELSE now.title
        /\ u.status = IF want.status # b.status THEN want.status ELSE now.status
        /\ u.deleted = IF want.deleted # b.deleted THEN want.deleted ELSE now.deleted
    BY <1>1, <2>1, <2>2, UpdatedFacts
  <2>4. row # Nil
    BY <1>5, <2>3, NilFacts DEF b
  <2> QED
    BY <1>5, <2>1, <2>3, <2>4 DEF Becomes, now, want, b
<1> QED
  BY <1>2, <1>3, <1>4, <1>5

LEMMA GoneSeen ==
  ASSUME NEW r, NEW t, Gone(r, t), Aloof(r, t)
  PROVE  ~Live(Seen(r, t))
BY DEF Gone, Aloof, Drops, Seen

LEMMA GoneKept ==
  ASSUME Typed, BirthInv, NEW p \in Procs, Step(p), NEW t \in Ids, t \in known,
         Gone(req[p], t), Uncached(t), Aloof(req[p], t)
  PROVE  Uncached(t)' /\ Aloof(req'[p], t)
<1> DEFINE r == req[p]
<1> DEFINE s == req'[p]
<1> HIDE DEF r, s
<1>0. r \in Req /\ Fits(r) /\ StoredInv /\ On(p, r, s)
  BY StepEffect DEF r, s
<1>a. /\ copies[t] = Nil /\ (list = Nil \/ t \notin DOMAIN list) /\ Aloof(r, t)
      /\ ~Live(Seen(r, t)) /\ (r.step \in {"event", "insert"} => r.id # t)
  BY GoneSeen, BirthUse DEF Uncached, r
<1>b. /\ t \in DOMAIN r.writes => ~Live(r.writes[t])
      /\ t \notin r.todo
      /\ r.cur = t => r.step \notin {"google", "merge", "flush"}
  BY <1>a DEF Aloof
<1> SUFFICES copies'[t] = Nil /\ (list' = Nil \/ t \notin DOMAIN list') /\ Aloof(s, t)
  BY DEF s, Uncached
<1>c. ASSUME NEW u \in Ids, NEW o, NEW ss, o \in MaybeRow, Loads(r, u, o, ss), Fills(r, u, o)
      PROVE  copies'[t] = Nil /\ (u = t => o = Nil)
  <2>1. copies'[t] = IF t = u /\ redis /\ ~Live(copies[u]) /\ Live(Seen(r, u))
                     THEN o ELSE copies[t]
    BY <1>0, <1>c, FillsFacts
  <2>2. u = t => o = Nil
    BY <1>a, <1>c DEF Loads, Live
  <2> QED
    BY <1>a, <2>1, <2>2
<1>d. ASSUME Blank(s)
      PROVE  Aloof(s, t)
  BY <1>d DEF Blank, Aloof
<1>1. CASE \E dated, made, answered \in BOOLEAN : OnCreateEvent(r, s, dated, made, answered)
  BY <1>a, <1>b, <1>1 DEF OnCreateEvent, Aloof
<1>2. CASE OnInsert(p, r, s)
  <2>1. /\ r.id \in Ids /\ r.copy \in MaybeRow /\ Cache(r.id, r.copy) /\ r.id # t
        /\ DOMAIN s.writes = {r.id} /\ s.todo = {} /\ s.step = "plan"
    BY <1>a, <1>2 DEF OnInsert, MaybeRow
  <2>2. copies'[t] = copies[t] /\ list' = (IF redis THEN Nil ELSE list)
    BY <1>0, <2>1, CacheFacts
  <2>3. Aloof(s, t)
    BY <2>1 DEF Aloof
  <2> QED
    BY <1>a, <2>2, <2>3
<1>3. CASE OnRead(r, s)
  <2> DEFINE u == r.id
  <2> HIDE DEF u
  <2>1. PICK o, ss :
             /\ o \in MaybeRow /\ Loads(r, u, o, ss) /\ Fills(r, u, o)
             /\ o = Nil => s = Idle
             /\ o # Nil => s.cur = r.cur /\ s.writes = r.writes /\ s.todo = {}
    BY <1>3 DEF OnRead, u
  <2>2. u \in Ids /\ r.cur = u /\ list' = list
    BY <1>3 DEF OnRead, u
  <2>3. copies'[t] = Nil /\ (u = t => o = Nil)
    BY <1>c, <2>1, <2>2
  <2>4. Aloof(s, t)
    <3>1. CASE o = Nil
      BY <1>d, <2>1, <3>1, BlankIdle
    <3>2. CASE o # Nil
      BY <1>b, <2>1, <2>2, <2>3, <3>2 DEF Aloof
    <3> QED
      BY <3>1, <3>2
  <2> QED
    BY <1>a, <2>2, <2>3, <2>4
<1>4. CASE \E ok \in BOOLEAN : OnGoogle(r, s, ok)
  BY <1>a, <1>b, <1>4 DEF OnGoogle, Aloof
<1>5. CASE OnMerge(r, s)
  BY <1>a, <1>b, <1>5 DEF OnMerge, Aloof
<1>6. CASE OnFlush(p, r, s)
  <2> DEFINE u == r.cur
  <2> HIDE DEF u
  <2>1. PICK row :
             /\ row \in MaybeRow /\ Cache(u, row) /\ DOMAIN s.writes = DOMAIN r.writes \cup {u}
             /\ \A x \in DOMAIN r.writes : x # u => s.writes[x] = r.writes[x]
    BY <1>6 DEF OnFlush, u
  <2>2. u \in Ids /\ u # t /\ s.cur = u /\ s.todo = r.todo
    BY <1>b, <1>6 DEF OnFlush, u
  <2>3. copies'[t] = copies[t] /\ list' = (IF redis THEN Nil ELSE list)
    BY <1>0, <2>1, <2>2, CacheFacts
  <2>4. Aloof(s, t)
    BY <1>b, <2>1, <2>2 DEF Aloof
  <2> QED
    BY <1>a, <2>3, <2>4
<1>7. CASE OnPlan(r, s)
  <2>1. /\ s.writes = r.writes /\ s.step = "next" /\ copies' = copies
        /\ \A x \in s.todo : x \in DOMAIN Known(r)
        /\ list' = (IF redis THEN Known(r) ELSE list)
    BY <1>7 DEF OnPlan
  <2>2. t \notin DOMAIN Known(r)
    BY <1>a DEF Known, Listed, Active
  <2> QED
    BY <1>a, <1>b, <2>1, <2>2 DEF Aloof
<1>8. CASE \E u \in Ids : OnSave(r, s, u)
  <2>1. PICK u : u \in Ids /\ OnSave(r, s, u)
    BY <1>8
  <2>2. PICK o, ss : o \in MaybeRow /\ Loads(r, u, o, ss) /\ Fills(r, u, o)
    BY <2>1 DEF OnSave
  <2>3. /\ u \in r.todo /\ list' = list /\ s.cur = u /\ s.writes = r.writes
        /\ s.todo = r.todo \ {u}
    BY <2>1 DEF OnSave
  <2>4. copies'[t] = Nil
    BY <1>c, <2>1, <2>2
  <2>5. Aloof(s, t)
    BY <1>b, <2>3 DEF Aloof
  <2> QED
    BY <1>a, <2>3, <2>4, <2>5
<1>9. CASE \/ OnCommit(r, s) \/ OnAbort(p, r, s) \/ OnFail(r, s)
           \/ \E ok \in BOOLEAN : OnUndo(r, s, ok)
  <2>1. Blank(s) /\ UNCHANGED <<copies, list>>
    BY <1>9, BlankIdle DEF OnCommit, OnAbort, OnFail, OnUndo
  <2> QED
    BY <1>a, <1>d, <2>1
<1> QED
  BY <1>0, <1>1, <1>2, <1>3, <1>4, <1>5, <1>6, <1>7, <1>8, <1>9 DEF On

\* Only a removal takes a task, and what Redis has of it.
LEMMA GoneAnew ==
  ASSUME Typed, BirthInv, SessInv, CacheInv, NEW p \in Procs, Step(p), NEW t \in Ids, t \in known,
         ~Gone(req[p], t), Drops(req'[p], t)
  PROVE  Uncached(t)' /\ Aloof(req'[p], t)
<1> DEFINE r == req[p]
<1> DEFINE s == req'[p]
<1> HIDE DEF r, s
<1>0. r \in Req /\ Fits(r) /\ StoredInv
  BY StepEffect DEF r
<1>1. ~Gone(r, t) /\ t \in DOMAIN s.writes /\ ~Live(s.writes[t])
  BY DEF Drops, r, s
<1>2. \/ t \in DOMAIN r.writes /\ s.writes[t] = r.writes[t]
      \/ OnInsert(p, r, s) /\ t = r.id
      \/ OnFlush(p, r, s) /\ t = r.cur
  BY <1>1, WritesEffect DEF r, s
<1>3. r.step = "insert" => r.id # t
  BY BirthUse DEF r
<1>4. OnFlush(p, r, s) /\ t = r.cur
  BY <1>1, <1>2, <1>3 DEF OnInsert, Gone, Drops
<1>5. PICK row : row \in MaybeRow /\ Flushes(r, row) /\ Cache(t, row) /\ s.writes[t] = row
  BY <1>4 DEF OnFlush
<1>6. /\ r.step = "flush" /\ s.cur = t /\ s.todo = r.todo /\ s.planning = r.planning
      /\ s.step = AfterFlush(r)
  BY <1>4 DEF OnFlush
<1>7. Uncached(t)'
  <2>1. /\ copies'[t] = IF redis THEN IF Live(row) THEN row ELSE Nil ELSE copies[t]
        /\ list' = (IF redis THEN Nil ELSE list)
    BY <1>0, <1>5, CacheFacts
  <2> QED
    BY <1>1, <1>5, <2>1 DEF CacheInv, Uncached
<1>8. ~r.planning
  <2> SUFFICES ASSUME r.planning PROVE FALSE
    OBVIOUS
  <2>1. /\ r.copy \in Row /\ Wish(r).deleted = r.copy.deleted /\ ~Erases(r) /\ Wish(r) \in Row
    BY <1>0, <1>6, WishFacts
  <2>2. r.copy.deleted = FALSE
    BY <2>1, NilFacts DEF SessInv, SessionOK, LiveRows, r
  <2>3. row # Nil /\ Becomes(r, row)
    BY <1>0, <1>5, <1>6, <2>1, FlushesFacts
  <2>4. Live(Seen(r, t))
    BY <1>1 DEF Gone, Drops, Seen
  <2> DEFINE want == Wish(r)
  <2> HIDE DEF want
  <2>5. row.deleted = FALSE
    BY <1>4, <2>1, <2>2, <2>3, <2>4 DEF Becomes, Live, Row, want
  <2> QED
    BY <1>1, <1>5, <2>3, <2>5 DEF Live
<1>9. r.todo = {} /\ s.step = "plan"
  BY <1>0, <1>6, <1>8 DEF Fits, AfterFlush
<1>10. Aloof(s, t)
  BY <1>1, <1>6, <1>9 DEF Aloof
<1> QED
  BY <1>7, <1>10 DEF s

\* Without Redis a save of a task that is gone does not bring it back.
LEMMA GoneFlush ==
  ASSUME Typed, GoneInv, UncachedInv, ~redis, NEW p \in Procs, Step(p), NEW t \in Ids, t \in known,
         OnFlush(p, req[p], req'[p]), t = req[p].cur, ~Live(rows[t])
  PROVE  ~Live(req'[p].writes[t])
<1> DEFINE r == req[p]
<1> DEFINE s == req'[p]
<1> HIDE DEF r, s
<1>0. r \in Req /\ Fits(r) /\ StoredInv /\ OnFlush(p, r, s) /\ t = r.cur /\ Loaded(r)
  BY StepEffect DEF r, s, UncachedInv
<1>1. PICK row : row \in MaybeRow /\ Flushes(r, row) /\ s.writes[t] = row
  BY <1>0 DEF OnFlush
<1> SUFFICES ASSUME Live(row) PROVE FALSE
  BY <1>1 DEF s
<1>2. /\ r.step = "flush" /\ t \in DOMAIN r.sess /\ r.base = r.sess[t]
      /\ r.copy.deleted = r.base.deleted
  BY <1>0 DEF OnFlush, Loaded
<1>3. r.base \in Row
  <2>1. r.sess \in Partial(Row)
    BY <1>0 DEF Req
  <2> QED
    BY <1>2, <2>1, PartialFacts
<1>4. ~Live(Seen(r, t))
  <2>1. t \in DOMAIN r.writes => ~Live(r.writes[t])
    BY DEF GoneInv, r
  <2> QED
    BY <2>1 DEF Seen
<1>5. row # Nil /\ Becomes(r, row)
  BY <1>0, <1>1, <1>2, FlushesFacts DEF Live
<1>6. /\ Wish(r) \in Row /\ r.copy \in Row
      /\ Wish(r).deleted = IF ~r.planning /\ r.kind = "remove" THEN r.copy.status = "Done"
                           ELSE r.copy.deleted
      /\ Erases(r) <=> r.kind = "remove" /\ ~r.planning /\ r.copy.status # "Done"
  BY <1>0, <1>2, WishFacts
<1> DEFINE want == Wish(r)
<1> DEFINE now == Seen(r, r.cur)
<1> HIDE DEF want, now
<1>7. /\ ~Erases(r) /\ now \in Row
      /\ row.deleted = IF want.deleted # r.base.deleted THEN want.deleted ELSE now.deleted
  BY <1>3, <1>5, NilFacts DEF Becomes, want, now
<1>8. now.deleted = TRUE
  BY <1>0, <1>4, <1>7, NilFacts DEF Live, now, Row
<1>9. want.deleted = r.base.deleted \/ want.deleted = TRUE
  BY <1>2, <1>6, <1>7 DEF want
<1> QED
  BY <1>7, <1>8, <1>9 DEF Live

LEMMA GoneStep ==
  ASSUME Typed, LockInv, BirthInv, SessInv, CacheInv, SingleInv, UncachedInv, GoneInv,
         NEW p \in Procs, Step(p)
  PROVE  GoneInv'
<1> DEFINE r == req[p]
<1> DEFINE s == req'[p]
<1>0. /\ Others(p) /\ StoredInv /\ r \in Req
      /\ UNCHANGED <<rows, linked, known>> \/ OnCommit(r, s)
      /\ raced' = raced /\ redis' = redis
  BY StepEffect, RowsEffect
<1>o. \A q \in Procs \ {p} : req'[q] = req[q]
  BY <1>0 DEF Others
<1>1. ASSUME ~raced', NEW t \in known', NEW q \in Procs, Gone(req[q], t)'
      PROVE  Uncached(t)' /\ Aloof(req'[q], t)
  <2>1. ~raced /\ (\A x \in Procs \ {p} : req[x] = Idle /\ req'[x] = Idle)
    BY <1>0, <1>1, OthersIdle
  <2>2. \A x \in Ids : Aloof(Idle, x) /\ ~Drops(Idle, x)
    BY BlankIdle DEF Aloof, Blank, Drops
  <2>3. CASE UNCHANGED <<rows, linked, known>>
    <3>1. t \in known /\ t \in Ids
      BY <1>0, <1>1, <2>3 DEF StoredInv
    <3>2. ASSUME Gone(r, t) PROVE Uncached(t)' /\ Aloof(s, t)
      <4>1. Uncached(t) /\ Aloof(r, t)
        BY <2>1, <3>1, <3>2 DEF GoneInv
      <4> QED
        BY <3>1, <3>2, <4>1, GoneKept
    <3>3. CASE ~Live(rows[t])
      <4>1. Gone(r, t)
        BY <3>3 DEF Gone
      <4> QED
        BY <2>1, <2>2, <3>1, <3>2, <4>1
    <3>4. CASE Live(rows[t])
      <4>1. q = p /\ Drops(s, t)
        <5> HIDE DEF r, s
        <5>1. Live(rows'[t])
          BY <2>3, <3>4
        <5> QED
          BY <1>1, <2>1, <2>2, <3>1, <5>1 DEF Gone, s
      <4> HIDE DEF r, s
      <4>2. CASE Gone(r, t)
        BY <3>2, <4>1, <4>2 DEF s
      <4>3. CASE ~Gone(r, t)
        BY <3>1, <4>1, <4>3, GoneAnew DEF r, s
      <4> QED
        BY <4>2, <4>3
    <3> QED
      BY <3>3, <3>4
  <2>4. CASE OnCommit(r, s)
    <3> HIDE DEF r, s
    <3>1. /\ s = Idle /\ (\A x \in Ids : rows'[x] = Seen(r, x)) /\ UNCHANGED <<copies, list>>
          /\ known' = known \cup {x \in Ids : rows'[x] # Nil}
      BY <2>4 DEF OnCommit
    <3>2. req'[q] = Idle /\ t \in Ids
      BY <1>0, <1>1, <2>1, <3>1 DEF s, StoredInv
    <3>3. ~Live(rows'[t]) /\ ~Live(Seen(r, t)) /\ Aloof(req'[q], t)
      BY <1>1, <2>2, <3>1, <3>2 DEF Gone
    <3>4. Gone(r, t)
      BY <3>3 DEF Gone, Drops, Seen
    <3>5. t \in known
      <4> SUFFICES ASSUME t \notin known PROVE FALSE
        OBVIOUS
      <4>1. rows[t] = Nil /\ Kept(r, t, LiveRows) /\ Seen(r, t) # Nil
        BY <1>1, <3>1, <3>2 DEF BirthInv, Unborn, r
      <4>2. t \in DOMAIN r.writes /\ r.writes[t] \in LiveRows
        BY <4>1 DEF Seen, Kept
      <4> QED
        BY <3>3, <4>2, NilFacts DEF Live, LiveRows, Seen
    <3>6. Uncached(t)
      BY <2>1, <3>4, <3>5 DEF GoneInv, r
    <3> QED
      BY <3>1, <3>3, <3>6 DEF Uncached
  <2> QED
    BY <1>0, <2>3, <2>4
<1>2. ASSUME ~redis', NEW t \in known', NEW q \in Procs, ~Live(rows'[t]),
             t \in DOMAIN req'[q].writes
      PROVE  ~Live(req'[q].writes[t])
  <2>1. ~redis
    BY <1>0, <1>2
  <2>2. CASE UNCHANGED <<rows, linked, known>>
    <3>1. t \in known /\ t \in Ids /\ ~Live(rows[t])
      BY <1>0, <1>2, <2>2 DEF StoredInv
    <3>2. CASE q # p
      BY <1>o, <1>2, <2>1, <3>1, <3>2 DEF GoneInv
    <3>3. CASE q = p
      <4>1. CASE t \in DOMAIN r.writes /\ s.writes[t] = r.writes[t]
        BY <2>1, <3>1, <3>3, <4>1 DEF GoneInv
      <4>2. CASE OnInsert(p, r, s) /\ t = r.id
        <5>1. r.step = "insert"
          BY <4>2 DEF OnInsert
        <5> QED
          BY <3>1, <4>2, <5>1, BirthUse
      <4>3. CASE OnFlush(p, r, s) /\ t = r.cur
        BY <2>1, <3>1, <3>3, <4>3, GoneFlush
      <4> QED
        BY <1>2, <3>3, <4>1, <4>2, <4>3, WritesEffect
    <3> QED
      BY <3>2, <3>3
  <2>3. CASE OnCommit(r, s)
    <3>1. /\ s = Idle /\ (\A x \in Ids : rows'[x] = Seen(r, x))
          /\ known' = known \cup {x \in Ids : rows'[x] # Nil}
      BY <2>3 DEF OnCommit
    <3>2. q # p /\ t \in Ids
      BY <1>0, <1>2, <3>1, IdleFits DEF StoredInv
    <3>3. t \in DOMAIN req[q].writes /\ req'[q] = req[q]
      BY <1>o, <1>2, <3>2
    <3>4. rows'[t] = rows[t]
      <4>1. t \notin DOMAIN req[p].writes
        BY <3>2, <3>3 DEF LockInv
      <4> QED
        BY <3>1, <3>2, <4>1 DEF Seen
    <3>5. t \in known
      BY <1>2, <3>1, <3>2, <3>4, BirthUse
    <3> QED
      BY <1>2, <2>1, <3>3, <3>4, <3>5 DEF GoneInv
  <2> QED
    BY <1>0, <2>2, <2>3
<1> QED
  BY <1>1, <1>2 DEF GoneInv

LEMMA GoneStart ==
  ASSUME Typed, GoneInv, NEW p \in Procs, NEW kind \in Kinds, NEW t \in Ids, NEW title \in Titles,
         Start(p, kind, t, title)
  PROVE  GoneInv'
<1> DEFINE s == req'[p]
<1> HIDE DEF s
<1>1. /\ Others(p) /\ Fresh(s) /\ req[p] = Idle
      /\ UNCHANGED <<rows, copies, list, redis, known>>
  BY StartFacts DEF OnStart, s
<1>2. \A q \in Procs \ {p} : req'[q] = req[q]
  BY <1>1 DEF Others
<1>3. \A x \in Ids : ~Drops(s, x) /\ Aloof(s, x) /\ x \notin DOMAIN s.writes
  BY <1>1 DEF Fresh, Drops, Aloof
<1>4. known \subseteq Ids
  BY DEF Typed, StoredInv
<1>5. ASSUME ~raced', NEW x \in known, NEW q \in Procs, Gone(req[q], x)'
      PROVE  Uncached(x) /\ Aloof(req'[q], x)
  <2>1. ~raced /\ req[q] = Idle
    BY <1>5, StartAlone
  <2>2. ~Live(rows[x])
    <3>1. ~Drops(req'[q], x)
      <4>1. x \in Ids /\ ~Drops(Idle, x)
        BY <1>4, BlankIdle DEF Blank, Drops
      <4> QED
        BY <1>2, <1>3, <2>1, <4>1 DEF s
    <3> QED
      BY <1>1, <1>5, <3>1 DEF Gone
  <2>3. Uncached(x) /\ Aloof(req[q], x)
    BY <2>1, <2>2 DEF GoneInv, Gone
  <2> QED
    BY <1>2, <1>3, <1>4, <2>3 DEF s
<1>6. ASSUME ~redis', NEW x \in known, NEW q \in Procs, ~Live(rows[x]), x \in DOMAIN req'[q].writes
      PROVE  ~Live(req'[q].writes[x])
  BY <1>1, <1>2, <1>3, <1>4, <1>6 DEF GoneInv, s
<1>7. \A x \in known : Uncached(x)' <=> Uncached(x)
  BY <1>1 DEF Uncached
<1> QED
  BY <1>1, <1>5, <1>6, <1>7 DEF GoneInv

LEMMA GoneExpire ==
  ASSUME Typed, GoneInv, Expire
  PROVE  GoneInv'
<1>1. /\ req' = req /\ UNCHANGED <<rows, redis, raced, known>> /\ known \subseteq Ids
      /\ \A t \in Ids : copies'[t] \in {copies[t], Nil}
      /\ list' \in {list, Nil}
  BY ExpireFacts DEF Typed, StoredInv
<1>2. \A t \in Ids : Uncached(t) => Uncached(t)'
  BY <1>1 DEF Uncached
<1> QED
  BY <1>1, <1>2 DEF GoneInv, Gone

-----------------------------------------------------------------------------
(* Without Redis: the session's own objects *)

LEMMA UncachedLoads ==
  ASSUME StoredInv, CacheInv, ~redis, NEW r \in Req, NEW u \in Ids, NEW o, NEW ss, o \in MaybeRow,
         Loads(r, u, o, ss), o # Nil
  PROVE  u \in DOMAIN ss /\ ss[u] = o
<1>1. copies[u] = Nil
  BY DEF CacheInv
<1>2. ~Live(copies[u]) /\ Live(Seen(r, u))
  BY <1>1 DEF Loads, Live
<1>3. Holds(r, u, o, ss)
  BY LoadsFacts
<1> QED
  BY <1>2, <1>3 DEF Holds

LEMMA UncachedStep ==
  ASSUME Typed, CacheInv, UncachedInv, NEW p \in Procs, Step(p)
  PROVE  UncachedInv'
<1> DEFINE r == req[p]
<1> DEFINE s == req'[p]
<1> HIDE DEF r, s
<1>0. r \in Req /\ Fits(r) /\ StoredInv /\ On(p, r, s) /\ Others(p) /\ redis' = redis
  BY StepEffect, RowsEffect DEF r, s
<1> SUFFICES ASSUME ~redis PROVE Loaded(s)
  BY <1>0 DEF UncachedInv, Others, s
<1>a. Loaded(r)
  BY DEF UncachedInv, r
<1>b. ASSUME s.step \notin {"google", "merge", "flush"}
      PROVE  Loaded(s)
  BY <1>b DEF Loaded
<1>1. CASE OnRead(r, s)
  <2> DEFINE u == r.id
  <2> HIDE DEF u
  <2>1. PICK o, ss :
             /\ o \in MaybeRow /\ Loads(r, u, o, ss)
             /\ o = Nil => s = Idle
             /\ o # Nil =>
                 /\ \/ s.step = "read" /\ s.copy = Nil
                    \/ s.step \in {"commit", "google"} /\ s.copy = o
                 /\ s.cur = r.cur /\ s.sess = ss
    BY <1>1 DEF OnRead, u
  <2>2. u \in Ids /\ r.cur = u
    BY <1>1 DEF OnRead, u
  <2>3. o # Nil => u \in DOMAIN ss /\ ss[u] = o
    BY <1>0, <2>1, <2>2, UncachedLoads
  <2> QED
    BY <1>b, <2>1, <2>2, <2>3, BlankIdle DEF Loaded
<1>2. CASE \E ok \in BOOLEAN : OnGoogle(r, s, ok)
  <2>1. /\ r.step = "google" /\ s.step = "flush" /\ r.cur = r.id /\ s.cur = r.id
        /\ s.base = Fetched(r, r.id) /\ s.sess = r.sess /\ s.planning = FALSE
        /\ s.copy.deleted = r.copy.deleted /\ s.kind = r.kind
        /\ s.copy.title = (IF r.kind = "edit" THEN r.title ELSE r.copy.title)
    BY <1>2 DEF OnGoogle, Job
  <2>2. r.cur \in DOMAIN r.sess /\ r.copy = r.sess[r.cur] /\ s.base = r.copy
    BY <1>a, <2>1 DEF Loaded, Fetched
  <2> QED
    BY <2>1, <2>2 DEF Loaded, OnlyTitled
<1>3. CASE OnMerge(r, s)
  <2>1. /\ r.step = "merge" /\ s.step = "flush" /\ s.cur = r.cur /\ s.copy = r.copy
        /\ s.base = Fetched(r, r.cur) /\ s.sess = r.sess
    BY <1>3 DEF OnMerge
  <2>2. r.cur \in DOMAIN r.sess /\ r.copy = r.sess[r.cur] /\ s.base = r.copy
    BY <1>a, <2>1 DEF Loaded, Fetched
  <2> QED
    BY <2>1, <2>2 DEF Loaded, OnlyTitled
<1>4. CASE \E u \in Ids : OnSave(r, s, u)
  <2>1. PICK u : u \in Ids /\ OnSave(r, s, u)
    BY <1>4
  <2>2. PICK o, ss : /\ o \in MaybeRow /\ Loads(r, u, o, ss)
                     /\ s.copy = o /\ s.sess = ss /\ s.step = IF o = Nil THEN "next" ELSE "merge"
    BY <2>1 DEF OnSave
  <2>3. s.cur = u
    BY <2>1 DEF OnSave
  <2>4. o # Nil => u \in DOMAIN ss /\ ss[u] = o
    BY <1>0, <2>1, <2>2, UncachedLoads
  <2> QED
    BY <1>b, <2>2, <2>3, <2>4 DEF Loaded
<1>5. CASE OnFlush(p, r, s)
  BY <1>b, <1>5 DEF OnFlush, AfterFlush
<1> QED
  BY <1>0, <1>b, <1>1, <1>2, <1>3, <1>4, <1>5, BlankIdle
     DEF On, OnCreateEvent, OnInsert, OnPlan, OnCommit, OnAbort, OnFail, OnUndo, Blank

LEMMA UncachedStart ==
  ASSUME Typed, UncachedInv, NEW p \in Procs, NEW kind \in Kinds, NEW t \in Ids,
         NEW title \in Titles, Start(p, kind, t, title)
  PROVE  UncachedInv'
<1>1. Others(p) /\ Fresh(req'[p]) /\ redis' = redis
  BY StartFacts DEF OnStart
<1>2. Loaded(req'[p])
  BY <1>1 DEF Fresh, Loaded
<1> QED
  BY <1>1, <1>2 DEF UncachedInv, Others

LEMMA UncachedExpire ==
  ASSUME Typed, UncachedInv, Expire
  PROVE  UncachedInv'
BY ExpireFacts DEF UncachedInv

-----------------------------------------------------------------------------
(* Alone: completed tasks *)

LEMMA DoneSeen ==
  ASSUME NEW r \in Req, NEW t \in Ids, HasDone(r, t), KnowsDone(r, t)
  PROVE  Seen(r, t) \in DoneRows \cup {Nil} /\ Fetched(r, t) \in DoneRows \cup {Nil}
<1>1. Kept(r, t, DoneRows)
  BY DEF KnowsDone
<1>2. Seen(r, t) \in DoneRows \cup {Nil}
  BY <1>1 DEF HasDone, Kept, Seen
<1> QED
  BY <1>1, <1>2, FetchedKept

LEMMA DoneKept ==
  ASSUME Typed, BirthInv, NEW p \in Procs, Step(p), NEW t \in Ids,
         HasDone(req[p], t), CopyDone(t), KnowsDone(req[p], t)
  PROVE  CopyDone(t)' /\ KnowsDone(req'[p], t)
<1> DEFINE r == req[p]
<1> DEFINE s == req'[p]
<1> HIDE DEF r, s
<1>0. r \in Req /\ Fits(r) /\ StoredInv /\ On(p, r, s)
  BY StepEffect DEF r, s
<1>1. HasDone(r, t) /\ KnowsDone(r, t)
  BY DEF r
<1>2. /\ copies[t] \in DoneRows \cup {Nil} /\ (list = Nil \/ t \notin DOMAIN list \/ list[t] \in DoneRows)
      /\ Kept(r, t, DoneRows) /\ t \notin r.todo /\ (r.planning /\ r.cur = t => r.copy = Nil)
      /\ Seen(r, t) \in DoneRows \cup {Nil} /\ Fetched(r, t) \in DoneRows \cup {Nil}
  BY <1>0, <1>1, DoneSeen DEF CopyDone, KnowsDone
<1>3. r.cur = t /\ r.step = "flush" => ~r.planning
  BY <1>0, <1>2, NilFacts DEF Fits
<1>4. r.step = "event" => r.id # t
  <2> SUFFICES ASSUME r.step = "event", r.id = t PROVE FALSE
    OBVIOUS
  <2>1. t \notin known /\ DOMAIN r.writes = {}
    BY <1>0, BirthUse, EmptyPartial DEF Fits, Empty, r
  <2> QED
    BY <1>1, <2>1, BirthUse, NilFacts DEF HasDone, DoneRows
<1>5. Kept(s, t, DoneRows) /\ copies'[t] \in DoneRows \cup {Nil}
  <2>1. Closed(DoneRows) /\ Saves(r, t, DoneRows)
    BY <1>0, <1>2, <1>3, ClosedSets, SavesDone
  <2> QED
    BY <1>2, <1>4, <2>1, Derive DEF r, s
<1> SUFFICES /\ list' = Nil \/ t \notin DOMAIN list' \/ list'[t] \in DoneRows
             /\ t \notin s.todo /\ (s.planning /\ s.cur = t => s.copy = Nil)
  BY <1>5 DEF CopyDone, KnowsDone, s
<1>6. CASE OnPlan(r, s)
  <2>1. /\ \A x \in s.todo : x \in DOMAIN Known(r) /\ Known(r)[x].status # "Done"
        /\ list' = (IF redis THEN Known(r) ELSE list) /\ s.copy = Nil
    BY <1>6 DEF OnPlan
  <2>2. t \in DOMAIN Known(r) => Known(r)[t] \in DoneRows
    <3>1. CASE list # Nil
      BY <1>2, <3>1 DEF Known
    <3>2. CASE list = Nil
      <4>1. Known(r) = Listed(r)
        BY <3>2 DEF Known
      <4>2. DOMAIN Listed(r) = Active(r) /\ \A x \in Active(r) : Listed(r)[x] = Fetched(r, x)
        BY DEF Listed
      <4>3. t \in Active(r) => Fetched(r, t) \in DoneRows
        BY <1>0, <1>2, SeenFacts, NilFacts DEF Active
      <4> QED
        BY <4>1, <4>2, <4>3
    <3> QED
      BY <3>1, <3>2
  <2> QED
    BY <1>2, <2>1, <2>2 DEF DoneRows
<1>7. CASE OnInsert(p, r, s)
  <2>1. r.id \in Ids /\ r.copy \in MaybeRow /\ Cache(r.id, r.copy) /\ s.todo = {} /\ ~s.planning
    BY <1>7 DEF OnInsert, MaybeRow
  <2>2. list' = (IF redis THEN Nil ELSE list)
    BY <1>0, <2>1, CacheFacts
  <2> QED
    BY <1>2, <2>1, <2>2
<1>8. CASE OnFlush(p, r, s)
  <2> DEFINE u == r.cur
  <2> HIDE DEF u
  <2>1. PICK row : row \in MaybeRow /\ Cache(u, row)
    BY <1>8 DEF OnFlush, u
  <2>2. u \in Ids /\ s.todo = r.todo /\ s.copy = Nil
    BY <1>8 DEF OnFlush, u
  <2>3. list' = (IF redis THEN Nil ELSE list)
    BY <1>0, <2>1, <2>2, CacheFacts
  <2> QED
    BY <1>2, <2>2, <2>3
<1>9. CASE \E u \in Ids : OnSave(r, s, u)
  BY <1>2, <1>9 DEF OnSave
<1>10. CASE OnRead(r, s)
  <2>1. list' = list /\ s.todo = {} /\ s.planning = FALSE
    BY <1>10, BlankIdle DEF OnRead, Blank
  <2> QED
    BY <1>2, <2>1
<1>11. CASE OnMerge(r, s)
  BY <1>2, <1>11 DEF OnMerge
<1>12. CASE \/ \E dated, made, answered \in BOOLEAN : OnCreateEvent(r, s, dated, made, answered)
            \/ \E ok \in BOOLEAN : OnGoogle(r, s, ok)
  BY <1>2, <1>12 DEF OnCreateEvent, OnGoogle
<1>13. CASE \/ OnCommit(r, s) \/ OnAbort(p, r, s) \/ OnFail(r, s)
            \/ \E ok \in BOOLEAN : OnUndo(r, s, ok)
  <2>1. Blank(s) /\ list' = list
    BY <1>13, BlankIdle DEF OnCommit, OnAbort, OnFail, OnUndo
  <2> QED
    BY <1>2, <2>1 DEF Blank
<1> QED
  BY <1>0, <1>6, <1>7, <1>8, <1>9, <1>10, <1>11, <1>12, <1>13 DEF On

\* A task is completed by what a mutation writes itself: the planner saves
\* none as completed that was not.
LEMMA DoneAnew ==
  ASSUME Typed, CacheInv, NEW p \in Procs, Step(p), NEW t \in Ids,
         ~HasDone(req[p], t), HasDone(req[p], t)'
  PROVE  CopyDone(t)' /\ KnowsDone(req'[p], t)
<1> DEFINE r == req[p]
<1> DEFINE s == req'[p]
<1> HIDE DEF r, s
<1>0. r \in Req /\ Fits(r) /\ StoredInv /\ (rows' = rows \/ OnCommit(r, s))
  BY StepEffect, RowsEffect DEF r, s
<1>1. ~HasDone(r, t) /\ (rows'[t] \in DoneRows \/ (t \in DOMAIN s.writes /\ s.writes[t] \in DoneRows))
  BY DEF HasDone, r, s
<1>2. rows'[t] \notin DoneRows
  <2>1. OnCommit(r, s) => rows'[t] = Seen(r, t)
    BY DEF OnCommit
  <2> QED
    BY <1>0, <1>1, <2>1 DEF HasDone, Seen
<1>3. \/ t \in DOMAIN r.writes /\ s.writes[t] = r.writes[t]
      \/ OnInsert(p, r, s) /\ t = r.id
      \/ OnFlush(p, r, s) /\ t = r.cur
  BY <1>1, <1>2, WritesEffect DEF r, s
<1>a. ASSUME NEW row, row \in DoneRows, Cache(t, row)
      PROVE  CopyDone(t)'
  <2>1. row \in MaybeRow
    BY <1>a DEF DoneRows, MaybeRow
  <2>2. /\ copies'[t] = IF redis THEN IF Live(row) THEN row ELSE Nil ELSE copies[t]
        /\ list' = (IF redis THEN Nil ELSE list)
    BY <1>0, <1>a, <2>1, CacheFacts
  <2> QED
    BY <1>a, <2>2 DEF CacheInv, CopyDone
<1>4. CASE OnInsert(p, r, s) /\ t = r.id
  <2>1. /\ s.copy = r.copy /\ s.base = Nil /\ s.todo = {} /\ s.planning = FALSE
        /\ DOMAIN s.writes = {t} /\ s.writes[t] = r.copy
        /\ DOMAIN s.sess = {t} /\ s.sess[t] = r.copy /\ Cache(t, r.copy)
    BY <1>4 DEF OnInsert
  <2>2. r.copy \in DoneRows
    BY <1>1, <1>2, <2>1
  <2>3. KnowsDone(s, t)
    BY <2>1, <2>2 DEF KnowsDone, Kept
  <2> QED
    BY <1>a, <2>1, <2>2, <2>3 DEF s
<1>5. CASE OnFlush(p, r, s) /\ t = r.cur
  <2>1. PICK row :
             /\ row \in MaybeRow /\ Flushes(r, row) /\ Cache(t, row) /\ s.writes[t] = row
             /\ row # Nil => s.sess[t] = row
    BY <1>5 DEF OnFlush
  <2>2. /\ r.step = "flush" /\ s.copy = Nil /\ s.base = Nil /\ s.todo = r.todo
    BY <1>5 DEF OnFlush
  <2>3. row \in DoneRows /\ row # Nil
    BY <1>1, <1>2, <2>1, NilFacts DEF DoneRows
  <2>4. ~r.planning
    <3> SUFFICES ASSUME r.planning PROVE FALSE
      OBVIOUS
    <3>1. Wish(r).status = "Scheduled"
      BY <1>0, <2>2, WishFacts
    <3>2. Becomes(r, row)
      BY <1>0, <2>1, <2>2, <2>3, FlushesFacts
    <3> DEFINE want == Wish(r)
    <3> DEFINE now == Seen(r, t)
    <3> HIDE DEF want, now
    <3>3. \/ row = want
          \/ now \in Row /\ row.status = IF want.status # r.base.status THEN want.status ELSE now.status
      BY <1>5, <3>2 DEF Becomes, want, now
    <3>4. now \in DoneRows
      BY <2>3, <3>1, <3>3 DEF DoneRows, want
    <3> QED
      BY <1>1, <3>4 DEF HasDone, Seen, now
  <2>5. r.todo = {}
    BY <1>0, <2>4 DEF Fits
  <2>6. KnowsDone(s, t)
    BY <2>1, <2>2, <2>3, <2>5, NilFacts DEF KnowsDone, Kept
  <2> QED
    BY <1>a, <2>1, <2>3, <2>6 DEF s
<1> QED
  BY <1>1, <1>2, <1>3, <1>4, <1>5 DEF HasDone

LEMMA DoneStep ==
  ASSUME Typed, CacheInv, BirthInv, SingleInv, DoneInv, NEW p \in Procs, Step(p)
  PROVE  DoneInv'
<1>1. raced' = raced
  BY RowsEffect
<1> SUFFICES ASSUME ~raced, NEW t \in Ids, NEW q \in Procs, HasDone(req[q], t)'
             PROVE  CopyDone(t)' /\ KnowsDone(req'[q], t)
  BY <1>1 DEF DoneInv
<1>2. HasDone(req[p], t)' => CopyDone(t)' /\ KnowsDone(req'[p], t)
  <2>1. CASE HasDone(req[p], t)
    <3>1. CopyDone(t) /\ KnowsDone(req[p], t)
      BY <2>1 DEF DoneInv
    <3> QED
      BY <2>1, <3>1, DoneKept
  <2>2. CASE ~HasDone(req[p], t)
    BY <2>2, DoneAnew
  <2> QED
    BY <2>1, <2>2
<1>3. CASE q = p
  BY <1>2, <1>3
<1>4. CASE q # p
  <2>1. req'[q] = Idle
    BY <1>4, OthersIdle
  <2>2. t \notin DOMAIN req'[q].writes /\ KnowsDone(req'[q], t)
    BY <2>1, BlankIdle, BlankKept DEF Blank, KnowsDone
  <2>3. HasDone(req[p], t)'
    BY <2>2 DEF HasDone
  <2> QED
    BY <1>2, <2>2, <2>3
<1> QED
  BY <1>3, <1>4

LEMMA DoneStart ==
  ASSUME Typed, DoneInv, NEW p \in Procs, NEW kind \in Kinds, NEW t \in Ids, NEW title \in Titles,
         Start(p, kind, t, title)
  PROVE  DoneInv'
<1> DEFINE s == req'[p]
<1> HIDE DEF s
<1>1. Others(p) /\ Fresh(s) /\ UNCHANGED <<rows, copies, list>>
  BY StartFacts DEF OnStart, s
<1> SUFFICES ASSUME ~raced', NEW x \in Ids, NEW q \in Procs, HasDone(req[q], x)'
             PROVE  CopyDone(x)' /\ KnowsDone(req'[q], x)
  BY DEF DoneInv
<1>2. ~raced /\ req[q] = Idle
  BY StartAlone
<1>3. req'[q] = IF q = p THEN s ELSE Idle
  BY <1>1, <1>2 DEF Others, s
<1>4. x \notin DOMAIN req'[q].writes /\ KnowsDone(req'[q], x)
  <2>1. CASE q = p
    BY <1>1, <1>3, <2>1, FreshKept DEF Fresh, KnowsDone
  <2>2. CASE q # p
    BY <1>3, <2>2, BlankIdle, BlankKept DEF Blank, KnowsDone
  <2> QED
    BY <2>1, <2>2
<1>5. HasDone(req[q], x)
  BY <1>1, <1>4 DEF HasDone
<1>6. CopyDone(x)
  BY <1>2, <1>5 DEF DoneInv
<1> QED
  BY <1>1, <1>4, <1>6 DEF CopyDone

LEMMA DoneExpire ==
  ASSUME Typed, DoneInv, Expire
  PROVE  DoneInv'
<1>1. /\ req' = req /\ UNCHANGED <<rows, raced>>
      /\ \A t \in Ids : copies'[t] \in {copies[t], Nil}
      /\ list' \in {list, Nil}
  BY ExpireFacts
<1>2. \A t \in Ids : CopyDone(t) => CopyDone(t)'
  BY <1>1 DEF CopyDone
<1>3. \A t \in Ids, p \in Procs : HasDone(req[p], t)' => HasDone(req[p], t)
  BY <1>1 DEF HasDone
<1> QED
  BY <1>1, <1>2, <1>3 DEF DoneInv

-----------------------------------------------------------------------------
(* Alone, and only Google fails: nothing is out of date *)

LEMMA ExactFetched ==
  ASSUME NEW r, NEW v, NEW es, HandExact(r, v, es), v = View(r), NEW t \in Ids
  PROVE  Seen(r, t) = v[t] /\ Fetched(r, t) = v[t]
BY DEF HandExact, View, Fetched

LEMMA ExactLoads ==
  ASSUME StoredInv, NEW r \in Req, NEW v, v = View(r), HandExact(r, v, events),
         CacheExact(copies, list, v), NEW u \in Ids, NEW o, NEW ss, o \in MaybeRow,
         Loads(r, u, o, ss), Fills(r, u, o), list' = list
  PROVE  /\ o # Nil => o = v[u]
         /\ \A x \in DOMAIN ss : ss[x] = v[x]
         /\ CacheExact(copies', list', v)
<1>1. Seen(r, u) = v[u] /\ Fetched(r, u) = v[u]
  BY ExactFetched
<1>2. o # Nil => o = v[u]
  BY <1>1 DEF Loads, CacheExact, Live
<1>3. \A x \in Ids : copies'[x] = IF x = u /\ redis /\ ~Live(copies[u]) /\ Live(Seen(r, u))
                                  THEN o ELSE copies[x]
  BY FillsFacts
<1>4. CacheExact(copies', list', v)
  BY <1>2, <1>3 DEF CacheExact
<1>5. \A x \in DOMAIN r.sess : r.sess[x] = v[x]
  BY DEF HandExact
<1>6. CASE ~Live(copies[u]) /\ Live(Seen(r, u))
  <2>1. o = v[u]
    BY <1>1, <1>6 DEF Loads
  <2>2. /\ \A x \in DOMAIN ss : x # u => x \in DOMAIN r.sess /\ ss[x] = r.sess[x]
        /\ u \in DOMAIN ss => ss[u] = o
    <3>1. Holds(r, u, o, ss)
      BY LoadsFacts
    <3> QED
      BY <1>6, <3>1 DEF Holds
  <2>3. \A x \in DOMAIN ss : ss[x] = v[x]
    BY <1>5, <2>1, <2>2
  <2> QED
    BY <1>2, <1>4, <2>3
<1>7. CASE ~(~Live(copies[u]) /\ Live(Seen(r, u)))
  <2>1. ss = r.sess
    BY <1>7 DEF Loads
  <2> QED
    BY <1>2, <1>4, <1>5, <2>1
<1> QED
  BY <1>6, <1>7

\* What a transaction sees changes with what it writes.
LEMMA ViewEffect ==
  ASSUME Typed, NEW p \in Procs, Step(p)
  PROVE  LET r == req[p]  s == req'[p]  v == View(req[p])  w == View(req[p])' IN
         \/ OnInsert(p, r, s) /\ w[r.id] = r.copy /\ \A x \in Ids : x # r.id => w[x] = v[x]
         \/ OnFlush(p, r, s) /\ w[r.cur] = s.writes[r.cur]
            /\ \A x \in Ids : x # r.cur => w[x] = v[x]
         \/ OnAbort(p, r, s) \/ OnFail(r, s) \/ r.step = "undo"
         \/ ~OnInsert(p, r, s) /\ ~OnFlush(p, r, s) /\ w = v
<1> DEFINE r == req[p]
<1> DEFINE s == req'[p]
<1> DEFINE v == View(req[p])
<1> DEFINE w == View(req[p])'
<1> HIDE DEF r, s, v, w
<1>0. r \in Req /\ Fits(r) /\ StoredInv /\ On(p, r, s)
  BY StepEffect DEF r, s
<1>1. /\ v = [x \in Ids |-> IF x \in DOMAIN r.writes THEN r.writes[x] ELSE rows[x]]
      /\ w = [x \in Ids |-> IF x \in DOMAIN s.writes THEN s.writes[x] ELSE rows'[x]]
  BY DEF v, w, r, s, View, Seen
<1> SUFFICES \/ OnInsert(p, r, s) /\ w[r.id] = r.copy /\ \A x \in Ids : x # r.id => w[x] = v[x]
             \/ OnFlush(p, r, s) /\ w[r.cur] = s.writes[r.cur]
                /\ \A x \in Ids : x # r.cur => w[x] = v[x]
             \/ OnAbort(p, r, s) \/ OnFail(r, s) \/ r.step = "undo"
             \/ ~OnInsert(p, r, s) /\ ~OnFlush(p, r, s) /\ w = v
  BY DEF r, s, v, w
<1>2. CASE OnInsert(p, r, s)
  <2>1. /\ r.id \in Ids /\ DOMAIN r.writes = {} /\ DOMAIN s.writes = {r.id}
        /\ s.writes[r.id] = r.copy /\ rows' = rows
    BY <1>2 DEF OnInsert
  <2> QED
    BY <1>1, <1>2, <2>1
<1>3. CASE OnFlush(p, r, s)
  <2>1. /\ r.cur \in Ids /\ DOMAIN s.writes = DOMAIN r.writes \cup {r.cur}
        /\ (\A x \in DOMAIN r.writes : x # r.cur => s.writes[x] = r.writes[x])
        /\ rows' = rows
    BY <1>3 DEF OnFlush
  <2> QED
    BY <1>1, <1>3, <2>1
<1>4. CASE s.writes = r.writes /\ rows' = rows
  BY <1>1, <1>2, <1>3, <1>4
<1>5. CASE OnRead(r, s)
  <2>1. DOMAIN r.writes = {} /\ (s.writes = r.writes \/ s = Idle) /\ rows' = rows
    BY <1>5 DEF OnRead
  <2>2. DOMAIN s.writes = {}
    BY <2>1, IdleFits
  <2>3. w = v
    BY <1>1, <2>1, <2>2
  <2> QED
    BY <1>2, <1>3, <2>3
<1>6. CASE OnCommit(r, s)
  <2>1. DOMAIN s.writes = {} /\ \A x \in Ids : rows'[x] = Seen(r, x)
    BY <1>6, IdleFits DEF OnCommit
  <2>2. w = v
    BY <1>1, <2>1 DEF Seen
  <2> QED
    BY <1>2, <1>3, <2>2
<1> QED
  BY <1>0, <1>2, <1>3, <1>4, <1>5, <1>6
     DEF On, OnCreateEvent, OnGoogle, OnMerge, OnPlan, OnSave, OnUndo

\* The statement leaves what the mutation wanted.
LEMMA ExactFlush ==
  ASSUME Typed, SessInv, NEW p \in Procs, Step(p), Exact(req[p]), OnFlush(p, req[p], req'[p]),
         NEW row \in MaybeRow, Flushes(req[p], row), Live(row)
  PROVE  Synced(row, events[req[p].cur])
<1> DEFINE r == req[p]
<1> HIDE DEF r
<1>0. /\ r \in Req /\ Fits(r) /\ StoredInv /\ OnFlush(p, r, req'[p]) /\ Flushes(r, row)
      /\ Exact(r) /\ SessionOK(r)
  BY StepEffect DEF r, SessInv
<1> DEFINE v == View(r)
<1> HIDE DEF v
<1> DEFINE u == r.cur
<1> HIDE DEF u
<1>1. r.step = "flush" /\ u \in Ids /\ HandExact(r, v, events) /\ EventsExact(r, v, events)
  BY <1>0 DEF OnFlush, Exact, v, u
<1>2. /\ r.base = v[u] /\ r.base # Nil /\ OnlyTitled(r)
      /\ r.planning \/ r.kind = "remove" => r.copy = r.base
      /\ ~r.planning /\ r.kind # "remove" => Synced(r.copy, events[r.id])
  BY <1>1 DEF HandExact, u
<1>3. Seen(r, u) = r.base /\ row # Nil /\ Becomes(r, row)
  BY <1>0, <1>1, <1>2, FlushesFacts DEF View, v, Live
<1> DEFINE want == Wish(r)
<1>4. /\ r.copy \in Row /\ (~r.planning => u = r.id)
      /\ want \in Row /\ want.event = r.copy.event /\ want.syncError = r.copy.syncError
      /\ want.dated = (r.copy.dated \/ r.planning)
      /\ want.title = r.copy.title
      /\ want.deleted = IF ~r.planning /\ r.kind = "remove" THEN r.copy.status = "Done"
                        ELSE r.copy.deleted
      /\ Erases(r) <=> r.kind = "remove" /\ ~r.planning /\ r.copy.status # "Done"
  BY <1>0, <1>1, WishFacts DEF u
<1>5. row = want /\ ~Erases(r)
  <2>1. ~Erases(r) /\ r.base \in Row /\ row = Updated(r.base, want, Seen(r, r.cur))
    BY <1>2, <1>3, NilFacts DEF Becomes, u
  <2> DEFINE b == r.base
  <2> HIDE DEF want, b
  <2>2. b \in Row /\ want \in Row /\ row = Updated(b, want, b)
    BY <1>3, <1>4, <2>1 DEF b, u
  <2> QED
    BY <2>1, <2>2, UpdatedExactly
<1> HIDE DEF want
<1>6. CASE r.planning
  <2>1. r.copy = v[u] /\ Live(v[u])
    <3>1. r.copy \in LiveRows
      BY <1>0, <1>4, NilFacts DEF SessionOK
    <3> QED
      BY <1>2, <1>6, <3>1, NilFacts DEF Live, LiveRows
  <2>2. ~Patching(r, u)
    BY <1>6 DEF Patching
  <2>3. Synced(r.copy, events[u])
    BY <1>1, <2>1, <2>2 DEF EventsExact
  <2> QED
    BY <1>4, <1>5, <1>6, <2>3 DEF Synced, u, r
<1>7. CASE ~r.planning /\ r.kind = "remove"
  <2>1. row.deleted
    BY <1>4, <1>5, <1>7
  <2> QED
    BY <2>1 DEF Live
<1>8. CASE ~r.planning /\ r.kind # "remove"
  <2>1. want = r.copy
    BY <1>8 DEF want, Wish
  <2> QED
    BY <1>2, <1>4, <1>5, <1>8, <2>1 DEF u, r
<1> QED
  BY <1>6, <1>7, <1>8

\* A statement that writes a task.
LEMMA ExactWrite ==
  ASSUME StoredInv, CacheInv, NEW u \in Ids, NEW row \in MaybeRow, Cache(u, row), NEW v, NEW w,
         CacheExact(copies, list, v), w[u] = row, \A x \in Ids : x # u => w[x] = v[x]
  PROVE  CacheExact(copies', list', w)
<1>1. /\ \A x \in Ids : copies'[x] = IF x = u /\ redis THEN IF Live(row) THEN row ELSE Nil
                                     ELSE copies[x]
      /\ list' = (IF redis THEN Nil ELSE list)
  BY CacheFacts
<1>2. list' = Nil
  BY <1>1 DEF CacheInv
<1>3. \A x \in Ids : copies'[x] # Nil => copies'[x] = w[x]
  BY <1>1 DEF CacheInv, CacheExact
<1> QED
  BY <1>2, <1>3 DEF CacheExact

LEMMA ExactStepped ==
  ASSUME Typed, CacheInv, SessInv, BirthInv, SingleInv, ~raced, NEW p \in Procs, Step(p),
         OnlyGoogleFailed', Exact(req[p])
  PROVE  Exact(req[p])'
<1> DEFINE r == req[p]
<1> DEFINE s == req'[p]
<1> DEFINE v == View(req[p])
<1> DEFINE w == View(req[p])'
<1> HIDE DEF r, s, v, w
<1>0. /\ r \in Req /\ Fits(r) /\ StoredInv /\ On(p, r, s) /\ SessionOK(r)
      /\ events \in [Ids -> Titles \cup {Nil}]
  BY StepEffect DEF r, s, SessInv, StoredInv
<1>1. /\ CacheExact(copies, list, v) /\ HandExact(r, v, events) /\ EventsExact(r, v, events)
      /\ v = View(r) /\ (\A x \in Ids : v[x] = Seen(r, x))
  BY DEF Exact, r, v, View
<1>2. \/ OnInsert(p, r, s) /\ w[r.id] = r.copy /\ \A x \in Ids : x # r.id => w[x] = v[x]
      \/ OnFlush(p, r, s) /\ w[r.cur] = s.writes[r.cur]
         /\ \A x \in Ids : x # r.cur => w[x] = v[x]
      \/ OnAbort(p, r, s) \/ OnFail(r, s) \/ r.step = "undo"
      \/ ~OnInsert(p, r, s) /\ ~OnFlush(p, r, s) /\ w = v
  BY ViewEffect DEF r, s, v, w
<1> SUFFICES CacheExact(copies', list', w) /\ HandExact(s, w, events') /\ EventsExact(s, w, events')
  BY DEF Exact, s, w
<1>a. /\ r.step # "undo" /\ (\A x \in DOMAIN r.sess : r.sess[x] = v[x])
      /\ r.step \in {"google", "merge"} => r.copy = v[r.cur]
      /\ r.step = "insert" => Synced(r.copy, events[r.id])
  BY <1>1 DEF HandExact
\* What cannot happen.
<1>3. ~OnFail(r, s)
  BY DEF OnFail, OnlyGoogleFailed
<1>4. ~OnAbort(p, r, s)
  <2> SUFFICES ASSUME OnAbort(p, r, s) PROVE FALSE
    OBVIOUS
  <2>1. Refused(p) \/ Deadlocked(p)
    BY DEF OnAbort
  <2>2. ~Deadlocked(p)
    <3> SUFFICES ASSUME Deadlocked(p) PROVE FALSE
      OBVIOUS
    <3>1. PICK q : q \in Owner(req[p].cur) \ {p} /\ Waits(q)
      BY DEF Deadlocked
    <3>2. q \in Procs \ {p} /\ req[q].step # "idle"
      BY <3>1 DEF Owner, Waits
    <3>3. req[q] = Idle
      BY <3>2, OthersIdle
    <3> QED
      BY <3>2, <3>3, BlankIdle
  <2>3. r.step = "flush" /\ Flushed(r) = {}
    BY <2>1, <2>2 DEF Refused, At, r
  <2>4. r.base = Seen(r, r.cur) /\ r.base # Nil
    BY <1>0, <1>1, <2>3 DEF HandExact, Fits
  <2>5. Flushed(r) # {}
    BY <2>4 DEF Flushed
  <2> QED
    BY <2>3, <2>5
\* Nothing is written.
<1>b. ASSUME w = v, events' = events, s.step \notin {"flush", "undo", "insert"}, r.step # "flush",
             \A x \in DOMAIN s.sess : s.sess[x] = v[x],
             s.step \in {"google", "merge"} => s.copy = v[s.cur],
             CacheExact(copies', list', v)
      PROVE  CacheExact(copies', list', w) /\ HandExact(s, w, events') /\ EventsExact(s, w, events')
  <2>1. HandExact(s, w, events')
    BY <1>b DEF HandExact
  <2>2. EventsExact(s, w, events')
    BY <1>b, <1>1 DEF EventsExact, Patching
  <2> QED
    BY <1>b, <2>1, <2>2
<1>5. CASE \E dated, made, answered \in BOOLEAN : OnCreateEvent(r, s, dated, made, answered)
  <2>1. PICK dated, made, answered : OnCreateEvent(r, s, dated, made, answered)
    BY <1>5
  <2>2. /\ s.step = "insert" /\ r.step = "event" /\ s.sess = r.sess /\ s.writes = r.writes
        /\ s.copy.title = r.title /\ s.copy.dated = dated /\ s.copy.event = (made /\ answered)
        /\ r.id \in Ids /\ (made => dated) /\ s.id = r.id
        /\ events' = IF made THEN [events EXCEPT ![r.id] = r.title] ELSE events
        /\ UNCHANGED <<copies, list>>
    BY <2>1 DEF OnCreateEvent, Job
  <2>3. w = v
    BY <1>2, <1>3, <1>4, <2>2 DEF OnInsert, OnFlush
  <2>4. v[r.id] = Nil
    <3>1. DOMAIN r.writes = {}
      BY <1>0, <2>2, EmptyPartial DEF Fits, Empty
    <3>2. rows[r.id] = Nil
      BY <2>2, BirthUse DEF r
    <3> QED
      BY <1>1, <2>2, <3>1, <3>2 DEF Seen
  <2>5. Synced(s.copy, events'[s.id])
    BY <1>0, <2>2 DEF Synced
  <2>6. HandExact(s, w, events')
    BY <1>a, <2>2, <2>3, <2>5 DEF HandExact
  <2>7. EventsExact(s, w, events')
    <3>1. \A x \in Ids : x # r.id => events'[x] = events[x]
      BY <1>0, <2>2
    <3> QED
      BY <1>1, <2>2, <2>3, <2>4, <3>1 DEF EventsExact, Patching, Live
  <2> QED
    BY <1>1, <2>2, <2>3, <2>6, <2>7
<1>6. CASE OnInsert(p, r, s)
  <2> DEFINE u == r.id
  <2> HIDE DEF u
  <2>1. /\ u \in Ids /\ r.copy \in Row /\ r.copy \in MaybeRow /\ Cache(u, r.copy) /\ events' = events
        /\ s.step = "plan" /\ r.step = "insert" /\ DOMAIN s.sess = {u} /\ s.sess[u] = r.copy
    BY <1>6 DEF OnInsert, MaybeRow, u
  <2>2. w[u] = r.copy /\ \A x \in Ids : x # u => w[x] = v[x]
    BY <1>2, <1>3, <1>4, <1>6, <1>a, <2>1 DEF OnFlush, u
  <2>3. CacheExact(copies', list', w)
    <3> DEFINE row == r.copy
    <3> HIDE DEF row
    <3>1. row \in MaybeRow /\ Cache(u, row) /\ w[u] = row
      BY <2>1, <2>2 DEF row
    <3> QED
      BY <1>0, <1>1, <2>1, <2>2, <3>1, ExactWrite
  <2>4. HandExact(s, w, events')
    BY <2>1, <2>2 DEF HandExact
  <2>5. EventsExact(s, w, events')
    <3>1. Synced(w[u], events'[u])
      BY <1>a, <2>1, <2>2 DEF u
    <3> QED
      BY <1>1, <2>1, <2>2, <3>1 DEF EventsExact, Patching
  <2> QED
    BY <2>3, <2>4, <2>5
<1>7. CASE OnFlush(p, r, s)
  <2> DEFINE u == r.cur
  <2> HIDE DEF u
  <2>1. PICK row :
             /\ row \in MaybeRow /\ Flushes(r, row) /\ Cache(u, row) /\ s.writes[u] = row
             /\ DOMAIN s.sess = IF row = Nil THEN DOMAIN r.sess \ {u} ELSE DOMAIN r.sess \cup {u}
             /\ row # Nil => s.sess[u] = row
             /\ \A x \in DOMAIN r.sess : x # u => s.sess[x] = r.sess[x]
    BY <1>7 DEF OnFlush, u
  <2>2. u \in Ids /\ r.step = "flush" /\ events' = events /\ s.step \in {"plan", "next"}
    BY <1>7 DEF OnFlush, AfterFlush, u
  <2>3. w[u] = row /\ \A x \in Ids : x # u => w[x] = v[x]
    BY <1>2, <1>3, <1>4, <1>7, <1>a, <2>1, <2>2 DEF OnInsert, u
  <2>4. CacheExact(copies', list', w)
    BY <1>0, <1>1, <2>1, <2>2, <2>3, ExactWrite
  <2>5. HandExact(s, w, events')
    <3>1. DOMAIN r.sess \subseteq Ids
      <4>1. r.sess \in Partial(Row)
        BY <1>0 DEF Req
      <4> QED
        BY <4>1, PartialFacts
    <3>2. \A x \in DOMAIN s.sess : s.sess[x] = w[x]
      BY <1>a, <2>1, <2>3, <3>1
    <3> QED
      BY <2>2, <3>2 DEF HandExact
  <2>6. EventsExact(s, w, events')
    <3>1. Live(row) => Synced(row, events[u])
      BY <1>7, <2>1, ExactFlush DEF r, s, u
    <3>2. \A x \in Ids : x # u => ~Patching(r, x)
      BY <1>0, <2>2, WishFacts DEF Patching, u
    <3> QED
      BY <1>1, <2>2, <2>3, <3>1, <3>2 DEF EventsExact, Patching
  <2> QED
    BY <2>4, <2>5, <2>6
<1>8. ASSUME ~OnInsert(p, r, s), ~OnFlush(p, r, s)
      PROVE  w = v
  BY <1>2, <1>3, <1>4, <1>8, <1>a
<1>9. CASE OnRead(r, s)
  <2> DEFINE u == r.id
  <2> HIDE DEF u
  <2>1. PICK o, ss :
             /\ o \in MaybeRow /\ Loads(r, u, o, ss) /\ Fills(r, u, o)
             /\ o = Nil => s = Idle
             /\ o # Nil =>
                 /\ \/ s.step = "read" /\ s.copy = Nil
                    \/ s.step \in {"commit", "google"} /\ s.copy = o
                 /\ s.cur = r.cur /\ s.sess = ss
    BY <1>9 DEF OnRead, u
  <2>2. u \in Ids /\ r.cur = u /\ events' = events /\ list' = list /\ r.step \in {"find", "read"}
    BY <1>9 DEF OnRead, u
  <2>3. /\ o # Nil => o = v[u]
        /\ \A x \in DOMAIN ss : ss[x] = v[x]
        /\ CacheExact(copies', list', v)
    BY <1>0, <1>1, <2>1, <2>2, ExactLoads
  <2>4. w = v
    BY <1>8, <2>2 DEF OnInsert, OnFlush
  <2>5. s.step \notin {"flush", "undo", "insert"} /\ (s.step \in {"google", "merge"} => s.copy = v[s.cur])
    BY <2>1, <2>2, <2>3, BlankIdle
  <2>6. \A x \in DOMAIN s.sess : s.sess[x] = v[x]
    BY <2>1, <2>3, IdleFits
  <2> QED
    BY <1>b, <2>2, <2>3, <2>4, <2>5, <2>6
<1>10. CASE \E ok \in BOOLEAN : OnGoogle(r, s, ok)
  <2>1. PICK ok \in BOOLEAN : OnGoogle(r, s, ok)
    BY <1>10
  <2> DEFINE t == r.id
  <2> HIDE DEF t
  <2>2. /\ r.step = "google" /\ s.step = "flush" /\ r.cur = t /\ t \in Ids /\ r.copy \in Row
        /\ s.cur = t /\ s.id = t /\ s.kind = r.kind /\ s.base = Fetched(r, t) /\ s.sess = r.sess
        /\ s.planning = FALSE /\ s.copy.dated = r.copy.dated /\ s.copy.event = r.copy.event
        /\ s.copy.title = (IF r.kind = "edit" THEN r.title ELSE r.copy.title)
        /\ UNCHANGED <<copies, list>>
    BY <2>1 DEF OnGoogle, Job, t
  <2>3. IF r.kind = "remove"
        THEN /\ s.copy = r.copy
             /\ events' = IF r.copy.event /\ ok THEN [events EXCEPT ![t] = Nil] ELSE events
        ELSE IF r.copy.event /\ r.copy.dated
        THEN /\ s.copy.syncError = ~(ok /\ events[t] # Nil)
             /\ \/ events' = events /\ ~(ok /\ events[t] # Nil)
                \/ events[t] # Nil /\ events' = [events EXCEPT ![t] = s.copy.title]
        ELSE s.copy.syncError = r.copy.syncError /\ events' = events
    BY <2>1 DEF OnGoogle, t
  <2>4. w = v
    BY <1>8, <2>2 DEF OnInsert, OnFlush
  <2>5. r.copy = v[t] /\ s.base = v[t] /\ s.base # Nil
    BY <1>1, <1>a, <2>2, ExactFetched, NilFacts
  <2>6. r.copy.event => r.copy.dated
    <3>1. Live(v[t])
      BY <1>0, <2>2, <2>5, NilFacts DEF SessionOK, LiveRows, Live
    <3> QED
      BY <1>1, <2>2, <2>5, <3>1 DEF EventsExact, Patching, Synced
  <2>7. r.kind # "remove" => Synced(s.copy, events'[t])
    BY <1>0, <2>2, <2>3, <2>6 DEF Synced
  <2>8. HandExact(s, w, events')
    BY <1>a, <2>2, <2>3, <2>4, <2>5, <2>7 DEF HandExact, OnlyTitled
  <2>9. \A x \in Ids : x # t => events'[x] = events[x]
    BY <1>0, <2>2, <2>3
  <2>10. EventsExact(s, w, events')
    BY <1>1, <2>2, <2>4, <2>5, <2>6, <2>9 DEF EventsExact, Patching
  <2> QED
    BY <1>1, <2>2, <2>4, <2>8, <2>10
<1>11. CASE OnMerge(r, s)
  <2>1. /\ r.step = "merge" /\ s.step = "flush" /\ r.cur \in Ids /\ r.copy \in Row
        /\ r.planning = TRUE /\ s.cur = r.cur /\ s.copy = r.copy /\ s.base = Fetched(r, r.cur)
        /\ s.sess = r.sess /\ s.planning = TRUE /\ UNCHANGED <<copies, list, events>>
    BY <1>11 DEF OnMerge
  <2>2. w = v
    BY <1>8, <2>1 DEF OnInsert, OnFlush
  <2>3. s.copy = v[s.cur] /\ s.base = v[s.cur] /\ s.base # Nil
    BY <1>1, <1>a, <2>1, ExactFetched, NilFacts
  <2>4. HandExact(s, w, events')
    BY <1>a, <2>1, <2>2, <2>3 DEF HandExact, OnlyTitled
  <2>5. EventsExact(s, w, events')
    BY <1>1, <2>1, <2>2 DEF EventsExact, Patching
  <2> QED
    BY <1>1, <2>1, <2>2, <2>4, <2>5
<1>12. CASE OnPlan(r, s)
  <2>1. /\ r.step = "plan" /\ s.step = "next" /\ events' = events /\ copies' = copies
        /\ IF list # Nil THEN s.sess = r.sess
           ELSE /\ DOMAIN s.sess = DOMAIN r.sess \cup Active(r)
                /\ \A x \in DOMAIN s.sess : s.sess[x] = Fetched(r, x)
        /\ list' = (IF redis THEN Known(r) ELSE list)
    BY <1>12 DEF OnPlan
  <2>2. w = v
    BY <1>8, <2>1 DEF OnInsert, OnFlush
  <2>3. \A x \in Ids : Fetched(r, x) = v[x]
    BY <1>1, ExactFetched
  <2>4. \A x \in DOMAIN s.sess : s.sess[x] = v[x]
    <3>1. DOMAIN r.sess \subseteq Ids
      <4>1. r.sess \in Partial(Row)
        BY <1>0 DEF Req
      <4> QED
        BY <4>1, PartialFacts
    <3>2. Active(r) \subseteq Ids
      BY DEF Active
    <3> QED
      BY <1>a, <2>1, <2>3, <3>1, <3>2
  <2>5. CacheExact(copies', list', v)
    <3>1. Listed(r) = [x \in {u \in Ids : Live(v[u])} |-> v[x]]
      BY <1>1, <2>3 DEF Listed, Active
    <3> QED
      BY <1>1, <2>1, <3>1 DEF CacheExact, Known
  <2> QED
    BY <1>b, <2>1, <2>2, <2>4, <2>5
<1>13. CASE \E u \in Ids : OnSave(r, s, u)
  <2>1. PICK u : u \in Ids /\ OnSave(r, s, u)
    BY <1>13
  <2>2. PICK o, ss : /\ o \in MaybeRow /\ Loads(r, u, o, ss) /\ Fills(r, u, o)
                     /\ s.copy = o /\ s.sess = ss /\ s.step = IF o = Nil THEN "next" ELSE "merge"
    BY <2>1 DEF OnSave
  <2>3. s.cur = u /\ events' = events /\ list' = list /\ r.step = "next"
    BY <2>1 DEF OnSave
  <2>4. /\ o # Nil => o = v[u]
        /\ \A x \in DOMAIN ss : ss[x] = v[x]
        /\ CacheExact(copies', list', v)
    BY <1>0, <1>1, <2>1, <2>2, <2>3, ExactLoads
  <2>5. w = v
    BY <1>8, <2>3 DEF OnInsert, OnFlush
  <2>6. s.step \in {"google", "merge"} => s.copy = v[s.cur]
    BY <2>2, <2>3, <2>4
  <2>7. s.step \notin {"flush", "undo", "insert"} /\ r.step # "flush"
    BY <2>2, <2>3
  <2>8. \A x \in DOMAIN s.sess : s.sess[x] = v[x]
    BY <2>2, <2>4
  <2> QED
    BY <1>b, <2>3, <2>4, <2>5, <2>6, <2>7, <2>8
<1>14. CASE OnCommit(r, s)
  <2>1. /\ s = Idle /\ r.step \in {"commit", "next"} /\ UNCHANGED <<events, copies, list>>
    BY <1>14 DEF OnCommit
  <2>2. w = v
    BY <1>8, <2>1 DEF OnInsert, OnFlush
  <2>3. s.step = "idle" /\ DOMAIN s.sess = {}
    BY <2>1, IdleFits, BlankIdle
  <2> QED
    BY <1>1, <1>b, <2>1, <2>2, <2>3
<1> QED
  BY <1>0, <1>3, <1>4, <1>5, <1>6, <1>7, <1>9, <1>10, <1>11, <1>12, <1>13, <1>14, <1>a
     DEF On, OnUndo

LEMMA ExactStep ==
  ASSUME Typed, CacheInv, SessInv, BirthInv, SingleInv, ExactInv, NEW p \in Procs, Step(p)
  PROVE  ExactInv'
<1>1. raced' = raced /\ faults \subseteq faults' /\ req[p].step # "idle" /\ Typed'
  BY RowsEffect, JobEffect, StepEffect
<1> SUFFICES ASSUME ~raced, OnlyGoogleFailed'
             PROVE  /\ Quiet' => Exact(Idle)'
                    /\ \A q \in Procs : ~At(q, "idle")' => Exact(req[q])'
  BY <1>1 DEF ExactInv
<1>2. OnlyGoogleFailed
  BY <1>1 DEF OnlyGoogleFailed
<1>3. Exact(req[p])
  BY <1>1, <1>2 DEF ExactInv, At
<1>4. Exact(req[p])'
  BY <1>3, ExactStepped
<1>5. Quiet' => Exact(Idle)'
  <2> SUFFICES ASSUME Quiet' PROVE Exact(Idle)'
    OBVIOUS
  <2>1. req'[p].step = "idle" /\ Fits(req'[p])
    BY StepEffect DEF Quiet, At
  <2>2. req'[p] = Idle
    BY <2>1 DEF Fits
  <2> QED
    BY <1>4, <2>2 DEF Exact, View, Seen
<1>6. ASSUME NEW q \in Procs, ~At(q, "idle")'
      PROVE  Exact(req[q])'
  <2>1. q = p
    BY <1>6, OthersIdle, BlankIdle DEF At
  <2> QED
    BY <1>4, <2>1
<1> QED
  BY <1>5, <1>6

LEMMA ExactStart ==
  ASSUME Typed, ExactInv, NEW p \in Procs, NEW kind \in Kinds, NEW t \in Ids, NEW title \in Titles,
         Start(p, kind, t, title)
  PROVE  ExactInv'
<1> DEFINE s == req'[p]
<1> HIDE DEF s
<1>1. Others(p) /\ Fresh(s) /\ UNCHANGED <<rows, events, copies, list, faults>>
  BY StartFacts DEF OnStart, s
<1> SUFFICES ASSUME ~raced', OnlyGoogleFailed'
             PROVE  /\ Quiet' => Exact(Idle)'
                    /\ \A q \in Procs : ~At(q, "idle")' => Exact(req[q])'
  BY DEF ExactInv
<1>2. ~raced /\ \A q \in Procs : req[q] = Idle
  BY StartAlone
<1>3. Exact(Idle)
  BY <1>1, <1>2, BlankIdle DEF ExactInv, Quiet, At, OnlyGoogleFailed
<1>4. ~Quiet'
  BY <1>1 DEF Quiet, At, Fresh, s
<1>5. Exact(req[p])'
  <2> DEFINE v == View(Idle)
  <2> DEFINE w == View(req[p])'
  <2> HIDE DEF v, w
  <2>1. CacheExact(copies, list, v) /\ EventsExact(Idle, v, events)
    BY <1>3 DEF Exact, v
  <2>2. w = v
    <3>1. w = [x \in Ids |-> IF x \in DOMAIN s.writes THEN s.writes[x] ELSE rows'[x]]
      BY DEF w, s, View, Seen
    <3>2. v = [x \in Ids |-> rows[x]]
      BY IdleFits DEF v, View, Seen
    <3>3. DOMAIN s.writes = {}
      BY <1>1 DEF Fresh
    <3> QED
      BY <1>1, <3>1, <3>2, <3>3
  <2>3. HandExact(s, w, events')
    BY <1>1 DEF Fresh, HandExact
  <2>4. EventsExact(s, w, events')
    BY <1>1, <2>1, <2>2, BlankIdle DEF EventsExact, Patching, Fresh
  <2> QED
    BY <1>1, <2>1, <2>2, <2>3, <2>4 DEF Exact, s, w
<1>6. ASSUME NEW q \in Procs, ~At(q, "idle")'
      PROVE  q = p
  BY <1>1, <1>2, <1>6, BlankIdle DEF Others, At
<1> QED
  BY <1>4, <1>5, <1>6

LEMMA ExactExpire ==
  ASSUME Typed, ExactInv, Expire
  PROVE  ExactInv'
<1>1. /\ \A q \in Procs : req[q] = Idle
      /\ req' = req /\ UNCHANGED <<rows, events, raced, faults>>
      /\ \A t \in Ids : copies'[t] \in {copies[t], Nil}
      /\ list' \in {list, Nil}
  BY ExpireFacts
<1> SUFFICES ASSUME ~raced, OnlyGoogleFailed
             PROVE  /\ Exact(Idle)'
                    /\ \A q \in Procs : At(q, "idle")'
  BY <1>1 DEF ExactInv, OnlyGoogleFailed, Quiet
<1>2. \A q \in Procs : At(q, "idle") /\ At(q, "idle")'
  BY <1>1, BlankIdle DEF At
<1>3. Exact(Idle)
  BY <1>2 DEF ExactInv, Quiet
<1> DEFINE v == View(Idle)
<1> HIDE DEF v
<1>4. v = View(Idle)'
  BY <1>1 DEF v, View, Seen
<1>5. CacheExact(copies, list, v) /\ HandExact(Idle, v, events) /\ EventsExact(Idle, v, events)
  BY <1>3 DEF Exact, v
<1>6. CacheExact(copies', list', v)
  BY <1>1, <1>5 DEF CacheExact
<1> QED
  BY <1>1, <1>2, <1>4, <1>5, <1>6 DEF Exact

-----------------------------------------------------------------------------
(* Titles *)

\* The conditions under which titles are only edited.
Fair == Alone /\ (redis => OnlyGoogleFailed)

\* What a mutation saves, it saves over what it read of a task that is there.
LEMMA TitleBase ==
  ASSUME Typed, SessInv, BirthInv, GoneInv, UncachedInv, ExactInv, Fair, NEW p \in Procs,
         req[p].step = "flush", NEW row \in MaybeRow, Flushes(req[p], row), Live(row),
         Live(rows[req[p].cur])
  PROVE  LET r == req[p] IN
         /\ Becomes(r, row) /\ r.base \in Row /\ OnlyTitled(r)
         /\ r.cur \in DOMAIN r.writes => Live(r.writes[r.cur])
<1> DEFINE r == req[p]
<1> DEFINE t == r.cur
<1> HIDE DEF r, t
<1>0. /\ r \in Req /\ Fits(r) /\ StoredInv /\ r.step = "flush" /\ Flushes(r, row)
      /\ Live(rows[t]) /\ t \in Ids
  BY ReqFacts, WishFacts DEF r, t, Typed
<1>1. row # Nil /\ Becomes(r, row)
  BY <1>0, FlushesFacts DEF Live
<1>2. t \in known
  BY <1>0, BirthUse DEF Live
<1>3. CASE ~redis
  <2>1. Loaded(r)
    BY <1>3 DEF UncachedInv, r
  <2>2. /\ t \in DOMAIN r.sess /\ r.base = r.sess[t] /\ r.copy.deleted = r.base.deleted
        /\ OnlyTitled(r)
    BY <1>0, <2>1 DEF Loaded, t
  <2>3. r.base \in Row
    <3>1. r.sess \in Partial(Row)
      BY <1>0 DEF Req
    <3> QED
      BY <2>2, <3>1, PartialFacts
  <2>4. ASSUME t \in DOMAIN r.writes PROVE Live(r.writes[t])
    <3>1. /\ Wish(r) \in Row /\ r.copy \in Row
          /\ Wish(r).deleted = IF ~r.planning /\ r.kind = "remove" THEN r.copy.status = "Done"
                               ELSE r.copy.deleted
          /\ Erases(r) <=> r.kind = "remove" /\ ~r.planning /\ r.copy.status # "Done"
      BY <1>0, WishFacts
    <3> DEFINE want == Wish(r)
    <3> DEFINE now == Seen(r, r.cur)
    <3>2. now = r.writes[t]
      BY <2>4 DEF Seen, t
    <3> HIDE DEF want, now
    <3>3. /\ ~Erases(r) /\ now \in Row
          /\ row.deleted = IF want.deleted # r.base.deleted THEN want.deleted ELSE now.deleted
      BY <1>1, <2>3, NilFacts DEF Becomes, want, now
    <3>4. want.deleted = r.base.deleted \/ want.deleted = TRUE
      BY <2>2, <3>1, <3>3 DEF want
    <3>5. ~now.deleted
      BY <3>3, <3>4 DEF Live
    <3> QED
      BY <3>2, <3>3, <3>5, NilFacts DEF Live
  <2> QED
    BY <1>1, <2>2, <2>3, <2>4 DEF r, t
<1>4. CASE redis
  <2>1. ~raced /\ OnlyGoogleFailed
    BY <1>4 DEF Fair, Alone
  <2>2. Exact(r)
    BY <1>0, <2>1 DEF ExactInv, At, r
  <2>3. r.base # Nil /\ OnlyTitled(r) /\ r.base \in MaybeRow
    BY <1>0, <2>2 DEF Exact, HandExact, Req
  <2>4. r.base \in Row
    BY <2>3 DEF MaybeRow
  <2>5. ASSUME t \in DOMAIN r.writes PROVE Live(r.writes[t])
    <3>1. ~Aloof(r, t)
      BY <1>0 DEF Aloof, t
    <3> QED
      BY <1>2, <2>1, <2>5, <3>1 DEF GoneInv, Gone, Drops, r
  <2> QED
    BY <1>1, <2>3, <2>4, <2>5 DEF r, t
<1> QED
  BY <1>3, <1>4 DEF Typed, StoredInv

LEMMA TitleStep ==
  ASSUME Typed, LockInv, SessInv, BirthInv, GoneInv, UncachedInv, ExactInv, TitleInv,
         NEW p \in Procs, Step(p)
  PROVE  TitleInv'
<1> DEFINE r == req[p]
<1> DEFINE s == req'[p]
<1> HIDE DEF r, s
<1>0. /\ r \in Req /\ Fits(r) /\ Others(p) /\ StoredInv
      /\ UNCHANGED <<rows, linked, known>> \/ OnCommit(r, s)
      /\ raced' = raced /\ redis' = redis /\ faults \subseteq faults'
      /\ Job(r, s) \/ Blank(s)
  BY StepEffect, RowsEffect, JobEffect DEF r, s
<1>o. \A q \in Procs \ {p} : req'[q] = req[q]
  BY <1>0 DEF Others
<1> SUFFICES ASSUME (Alone /\ (redis => OnlyGoogleFailed))', NEW q \in Procs, NEW t \in Ids,
                    t \in DOMAIN req'[q].writes, Live(rows'[t]), Live(req'[q].writes[t]),
                    rows'[t].title # req'[q].writes[t].title
             PROVE  req'[q].kind = "edit" /\ req'[q].id = t
  BY DEF TitleInv
<1>1. Fair
  BY <1>0 DEF Fair, Alone, OnlyGoogleFailed
<1>2. ASSUME NEW x \in Procs, t \in DOMAIN req[x].writes, Live(rows[t]), Live(req[x].writes[t]),
             rows[t].title # req[x].writes[t].title
      PROVE  req[x].kind = "edit" /\ req[x].id = t
  BY <1>1, <1>2 DEF TitleInv, Fair
<1>3. CASE OnCommit(r, s)
  <2>1. s = Idle /\ \A x \in Ids : rows'[x] = Seen(r, x)
    BY <1>3 DEF OnCommit
  <2>2. q # p
    BY <2>1, IdleFits DEF s
  <2>3. req'[q] = req[q] /\ t \in DOMAIN req[q].writes
    BY <1>o, <2>2
  <2>4. t \notin DOMAIN r.writes
    BY <2>2, <2>3 DEF LockInv, r
  <2>5. rows'[t] = rows[t]
    BY <2>1, <2>4 DEF Seen
  <2> QED
    BY <1>2, <2>3, <2>5
<1>4. CASE UNCHANGED <<rows, linked, known>> /\ q # p
  BY <1>2, <1>4, <1>o
<1>5. CASE UNCHANGED <<rows, linked, known>> /\ q = p
  <2>1. Job(r, s)
    BY <1>0, <1>5 DEF Blank, s
  <2>2. \/ t \in DOMAIN r.writes /\ s.writes[t] = r.writes[t]
        \/ OnInsert(p, r, s) /\ t = r.id
        \/ OnFlush(p, r, s) /\ t = r.cur
    BY <1>5, WritesEffect DEF r, s
  <2>3. CASE t \in DOMAIN r.writes /\ s.writes[t] = r.writes[t]
    BY <1>2, <1>5, <2>1, <2>3 DEF Job, r, s
  <2>4. CASE OnInsert(p, r, s) /\ t = r.id
    <3>1. t \notin known
      BY <2>4, BirthUse DEF OnInsert, r
    <3> QED
      BY <1>5, <3>1, BirthUse DEF Live
  <2>5. CASE OnFlush(p, r, s) /\ t = r.cur
    <3>1. PICK row : row \in MaybeRow /\ Flushes(r, row) /\ s.writes[t] = row
      BY <2>5 DEF OnFlush
    <3>2. r.step = "flush" /\ Live(row) /\ Live(rows[t]) /\ rows[t].title # row.title
      BY <1>5, <2>5, <3>1 DEF OnFlush, s
    <3>3. /\ Becomes(r, row) /\ r.base \in Row /\ OnlyTitled(r)
          /\ t \in DOMAIN r.writes => Live(r.writes[t])
      BY <1>1, <2>5, <3>1, <3>2, TitleBase DEF r
    <3> DEFINE want == Wish(r)
    <3> DEFINE now == Seen(r, r.cur)
    <3> HIDE DEF want, now
    <3>4. row.title = IF want.title # r.base.title THEN want.title ELSE now.title
      BY <3>3, NilFacts DEF Becomes, want, now
    <3>5. want.title = r.copy.title /\ (~r.planning => r.cur = r.id)
      BY <1>0, <3>2, WishFacts DEF want
    <3>6. CASE r.kind = "edit" /\ ~r.planning
      BY <1>5, <2>1, <2>5, <3>5, <3>6 DEF Job, s
    <3>7. CASE r.copy.title = r.base.title
      <4>1. row.title = now.title
        BY <3>4, <3>5, <3>7
      <4>2. t \in DOMAIN r.writes /\ now = r.writes[t]
        BY <2>5, <3>2, <4>1 DEF Seen, now
      <4>3. r.kind = "edit" /\ r.id = t
        BY <1>2, <3>2, <3>3, <4>1, <4>2 DEF r
      <4> QED
        BY <1>5, <2>1, <4>3 DEF Job, s
    <3> QED
      BY <3>3, <3>6, <3>7 DEF OnlyTitled
  <2> QED
    BY <2>2, <2>3, <2>4, <2>5
<1> QED
  BY <1>0, <1>3, <1>4, <1>5

LEMMA TitleStart ==
  ASSUME Typed, TitleInv, NEW p \in Procs, NEW kind \in Kinds, NEW t \in Ids, NEW title \in Titles,
         Start(p, kind, t, title)
  PROVE  TitleInv'
<1>1. /\ Others(p) /\ DOMAIN req'[p].writes = {} /\ UNCHANGED <<rows, redis, faults>>
      /\ (~raced' => ~raced)
  BY StartFacts DEF OnStart, Fresh
<1>2. (Alone /\ (redis => OnlyGoogleFailed))' => Alone /\ (redis => OnlyGoogleFailed)
  BY <1>1 DEF Alone, OnlyGoogleFailed
<1>3. \A q \in Procs \ {p} : req'[q] = req[q]
  BY <1>1 DEF Others
<1> QED
  BY <1>1, <1>2, <1>3 DEF TitleInv

LEMMA TitleExpire ==
  ASSUME Typed, TitleInv, Expire
  PROVE  TitleInv'
<1>1. req' = req /\ UNCHANGED <<rows, redis, raced, faults>>
  BY ExpireFacts
<1> QED
  BY <1>1 DEF TitleInv, Alone, OnlyGoogleFailed

-----------------------------------------------------------------------------
(* The beginning *)

LEMMA InitFacts ==
  ASSUME Init
  PROVE  /\ Typed /\ (\A p \in Procs : req[p] = Idle)
         /\ \A t \in Ids : rows[t] = Nil \/ (rows[t] \in LiveRows /\ rows[t].status = "Todo"
                                             /\ (rows[t].event => rows[t].dated))
         /\ known = {t \in Ids : rows[t] # Nil} /\ linked \subseteq known
         /\ \A t \in Ids : events[t] = IF rows[t] # Nil /\ rows[t].event THEN rows[t].title ELSE Nil
         /\ (\A t \in Ids : copies[t] = Nil) /\ list = Nil /\ faults = {} /\ ~raced
<1>1. PICK S, x : /\ x \in Row /\ ~x.deleted /\ x.status = "Todo" /\ (x.event => x.dated)
                  /\ rows = [t \in Ids |-> IF t \in S THEN x ELSE Nil]
  BY DEF Init
<1>2. /\ known = {t \in Ids : rows[t] # Nil} /\ linked \subseteq known
      /\ events = [t \in Ids |-> IF rows[t] # Nil /\ rows[t].event THEN rows[t].title ELSE Nil]
      /\ copies = [t \in Ids |-> Nil] /\ list = Nil /\ redis \in BOOLEAN
      /\ req = [p \in Procs |-> Idle] /\ faults = {} /\ raced = FALSE /\ left = MaxMutations
  BY DEF Init
<1>3. \A t \in Ids : rows[t] = Nil \/ (rows[t] \in LiveRows /\ rows[t].status = "Todo"
                                       /\ (rows[t].event => rows[t].dated))
  BY <1>1 DEF LiveRows
<1>4. rows \in [Ids -> MaybeRow]
  BY <1>1 DEF MaybeRow
<1>5. \A t \in Ids : rows[t] # Nil /\ rows[t].event => rows[t].title \in Titles
  BY <1>3 DEF LiveRows, Row
<1>6. StoredInv
  <2>1. events \in [Ids -> Titles \cup {Nil}]
    BY <1>2, <1>5
  <2>2. copies \in [Ids -> MaybeRow]
    BY <1>2 DEF MaybeRow
  <2>3. known \subseteq Ids /\ linked \subseteq Ids
    BY <1>2
  <2>4. left \in 0..MaxMutations
    BY <1>2, BoundsAssumption
  <2> QED
    BY <1>2, <1>4, <2>1, <2>2, <2>3, <2>4 DEF StoredInv
<1>7. ReqInv
  BY <1>2, IdleFits DEF ReqInv
<1> QED
  BY <1>2, <1>3, <1>6, <1>7 DEF Typed

LEMMA InitInv ==
  ASSUME Init
  PROVE  IInv
<1>1. /\ Typed /\ (\A p \in Procs : req[p] = Idle)
      /\ \A t \in Ids : rows[t] = Nil \/ (rows[t] \in LiveRows /\ rows[t].status = "Todo"
                                          /\ (rows[t].event => rows[t].dated))
      /\ known = {t \in Ids : rows[t] # Nil} /\ linked \subseteq known
      /\ \A t \in Ids : events[t] = IF rows[t] # Nil /\ rows[t].event THEN rows[t].title ELSE Nil
      /\ (\A t \in Ids : copies[t] = Nil) /\ list = Nil /\ faults = {} /\ ~raced
  BY InitFacts
<1>2. /\ Idle.step = "idle" /\ Idle.kind = "create" /\ DOMAIN Idle.sess = {} /\ DOMAIN Idle.writes = {}
      /\ Idle.copy = Nil /\ Idle.todo = {} /\ Idle.planning = FALSE
      /\ \A G : \A t \in Ids : Kept(Idle, t, G)
  BY BlankIdle, BlankKept DEF Blank
<1>3. LockInv
  BY <1>1, <1>2 DEF LockInv
<1>4. SessInv /\ CacheInv
  BY <1>1, <1>2 DEF SessInv, SessionOK, Backed, CacheInv
<1>5. BirthInv
  BY <1>1, <1>2 DEF BirthInv, Unborn
<1>6. LinkInv
  BY <1>1, <1>2 DEF LinkInv
<1>7. EventInv
  <2>1. ASSUME NEW t \in Ids, events[t] # Nil
        PROVE  rows[t] \in GoodRows
    BY <1>1, <2>1 DEF GoodRows, LiveRows
  <2> QED
    BY <1>1, <1>2, <2>1, NilFacts DEF EventInv, GoodRows
<1>8. SingleInv
  BY <1>1, <1>2 DEF SingleInv, At
<1>9. GoneInv
  BY <1>1, <1>2 DEF GoneInv, Uncached, Aloof
<1>10. UncachedInv
  BY <1>1, <1>2 DEF UncachedInv, Loaded
<1>11. DoneInv
  BY <1>1, <1>2 DEF DoneInv, CopyDone, KnowsDone
<1>12. ExactInv
  <2>1. \A t \in Ids : View(Idle)[t] = rows[t]
    BY <1>2 DEF View, Seen
  <2>2. EventsExact(Idle, View(Idle), events)
    BY <1>1, <1>2, <2>1 DEF EventsExact, Patching, Live, Synced
  <2>3. CacheExact(copies, list, View(Idle)) /\ HandExact(Idle, View(Idle), events)
    BY <1>1, <1>2 DEF CacheExact, HandExact
  <2> QED
    BY <1>1, <1>2, <2>2, <2>3 DEF ExactInv, Exact, At
<1>13. TitleInv
  BY <1>1, <1>2 DEF TitleInv
<1> QED
  BY <1>1, <1>3, <1>4, <1>5, <1>6, <1>7, <1>8, <1>9, <1>10, <1>11, <1>12, <1>13 DEF IInv

-----------------------------------------------------------------------------
(* Every step *)

LEMMA StepInv ==
  ASSUME IInv, NEW p \in Procs, Step(p)
  PROVE  IInv'
<1>1. Typed' /\ LockInv' /\ SessInv' /\ CacheInv' /\ BirthInv' /\ LinkInv'
  BY StepEffect, LockStep, SessStep, BirthStep, LinkStep DEF IInv
<1>2. EventInv' /\ SingleInv' /\ GoneInv' /\ UncachedInv' /\ DoneInv'
  BY EventStep, SingleStep, GoneStep, UncachedStep, DoneStep DEF IInv
<1>3. ExactInv' /\ TitleInv'
  BY ExactStep, TitleStep DEF IInv
<1> QED
  BY <1>1, <1>2, <1>3 DEF IInv

LEMMA StartInv ==
  ASSUME IInv, NEW p \in Procs, NEW kind \in Kinds, NEW t \in Ids, NEW title \in Titles,
         Start(p, kind, t, title)
  PROVE  IInv'
<1>1. Typed' /\ LockInv' /\ SessInv' /\ CacheInv' /\ BirthInv' /\ LinkInv'
  BY StartFacts, LockStart, SessStart, BirthStart, LinkStart DEF IInv
<1>2. EventInv' /\ SingleInv' /\ GoneInv' /\ UncachedInv' /\ DoneInv'
  BY EventStart, SingleStart, GoneStart, UncachedStart, DoneStart DEF IInv
<1>3. ExactInv' /\ TitleInv'
  BY ExactStart, TitleStart DEF IInv
<1> QED
  BY <1>1, <1>2, <1>3 DEF IInv

LEMMA ExpireInv ==
  ASSUME IInv, Expire
  PROVE  IInv'
<1>1. Typed' /\ LockInv' /\ SessInv' /\ CacheInv' /\ BirthInv' /\ LinkInv'
  BY ExpireFacts, SessExpire, BirthExpire, LinkExpire DEF IInv, LockInv
<1>2. EventInv' /\ SingleInv' /\ GoneInv' /\ UncachedInv' /\ DoneInv'
  BY EventExpire, SingleExpire, GoneExpire, UncachedExpire, DoneExpire DEF IInv
<1>3. ExactInv' /\ TitleInv'
  BY ExactExpire, TitleExpire DEF IInv
<1> QED
  BY <1>1, <1>2, <1>3 DEF IInv

LEMMA StutterInv ==
  ASSUME IInv, UNCHANGED vars
  PROVE  IInv'
<1>1. UNCHANGED <<rows, linked, events, copies, list, redis, req, faults, raced, known, left>>
  BY DEF vars, cached, history
<1>2. Typed' /\ LockInv' /\ SessInv' /\ CacheInv'
  BY <1>1 DEF IInv, Typed, StoredInv, ReqInv, LockInv, SessInv, CacheInv
<1>3. BirthInv' /\ LinkInv' /\ EventInv'
  BY <1>1 DEF IInv, BirthInv, Unborn, Bears, LinkInv, EventInv
<1>4. SingleInv' /\ GoneInv' /\ UncachedInv'
  BY <1>1 DEF IInv, SingleInv, At, GoneInv, Gone, Uncached, UncachedInv
<1>5. DoneInv'
  BY <1>1 DEF IInv, DoneInv, HasDone, CopyDone
<1>6. ExactInv'
  <2>1. /\ View(Idle)' = View(Idle) /\ \A p \in Procs : View(req[p])' = View(req[p])
    BY <1>1 DEF View, Seen
  <2> QED
    BY <1>1, <2>1 DEF IInv, ExactInv, Exact, Quiet, At, OnlyGoogleFailed
<1>7. TitleInv'
  BY <1>1 DEF IInv, TitleInv, Alone, OnlyGoogleFailed
<1> QED
  BY <1>2, <1>3, <1>4, <1>5, <1>6, <1>7 DEF IInv

LEMMA NextInv ==
  ASSUME IInv, [Next]_vars
  PROVE  IInv'
BY StepInv, StartInv, ExpireInv, StutterInv DEF Next, Finished

\* What holds of a user's tasks, whichever mutations overlap.
THEOREM Invariance == Spec => []IInv
<1>1. Init => IInv
  BY InitInv
<1>2. IInv /\ [Next]_vars => IInv'
  BY NextInv
<1> QED
  BY <1>1, <1>2, PTL DEF Spec

-----------------------------------------------------------------------------
(* The properties of Tasks *)

\* Rows, copies and what each mutation has at hand are of their types.
THEOREM TypeCorrect == Spec => []TypeOK
<1>1. Typed => TypeOK
  <2> SUFFICES ASSUME Typed PROVE TypeOK
    OBVIOUS
  <2>1. list = Nil \/ (DOMAIN list \subseteq Ids /\ \A t \in DOMAIN list : list[t] \in Row)
    BY PartialFacts DEF Typed, StoredInv
  <2>2. ASSUME NEW p \in Procs
        PROVE  LET r == req[p] IN
               /\ r.step \in Steps /\ r.kind \in Kinds
               /\ r.id \in Ids \cup {Nil} /\ r.cur \in Ids \cup {Nil}
               /\ r.title \in Titles \cup {Nil}
               /\ r.copy \in MaybeRow /\ r.base \in MaybeRow
               /\ DOMAIN r.sess \subseteq Ids /\ DOMAIN r.writes \subseteq Ids
               /\ \A t \in DOMAIN r.writes : r.writes[t] \in MaybeRow
               /\ r.todo \subseteq Ids /\ r.planning \in BOOLEAN
    <3> DEFINE r == req[p]
    <3> HIDE DEF r
    <3>1. r \in Req
      BY ReqFacts DEF r
    <3>2. r.sess \in Partial(Row) /\ r.writes \in Partial(MaybeRow)
      BY <3>1 DEF Req
    <3>3. /\ DOMAIN r.sess \subseteq Ids /\ DOMAIN r.writes \subseteq Ids
          /\ \A t \in DOMAIN r.writes : r.writes[t] \in MaybeRow
      BY <3>2, PartialFacts
    <3> QED
      BY <3>1, <3>3 DEF Req, r
  <2> QED
    BY <2>1, <2>2 DEF TypeOK, Typed, StoredInv
<1> QED
  BY <1>1, Invariance, PTL DEF IInv

\* Between mutations that did not overlap or fail, Redis holds what Postgres
\* holds: every copy is the row, and the list is that of the active tasks.
THEOREM CopiesAgree == Spec => []CopiesAreRows
<1>1. IInv => CopiesAreRows
  <2> SUFFICES ASSUME IInv, Quiet, ~raced, OnlyGoogleFailed
               PROVE  /\ \A t \in Ids : copies[t] # Nil => copies[t] = rows[t]
                      /\ list # Nil => list = [t \in {u \in Ids : Live(rows[u])} |-> rows[t]]
    BY DEF CopiesAreRows
  <2>1. CacheExact(copies, list, View(Idle))
    BY DEF IInv, ExactInv, Exact
  <2>2. View(Idle) = [t \in Ids |-> rows[t]]
    BY IdleFits DEF View, Seen
  <2> QED
    BY <2>1, <2>2 DEF CacheExact
<1> QED
  BY <1>1, Invariance, PTL

\* Whatever overlaps and whichever statement fails, an event belongs to a task
\* that is there.
THEOREM EventsHaveTasks == Spec => []NoOrphans
<1>1. IInv => NoOrphans
  <2> SUFFICES ASSUME IInv, Quiet, faults \subseteq {"statement"}, NEW t \in Ids, events[t] # Nil
               PROVE  Live(rows[t]) /\ rows[t].event
    BY DEF NoOrphans
  <2>1. /\ rows[t] \in GoodRows \cup {Nil}
        /\ rows[t] # Nil \/ \E p \in Procs : Makes(req[p], t)
    BY DEF IInv, EventInv
  <2>2. \A p \in Procs : ~Makes(req[p], t)
    BY DEF Quiet, At, Makes
  <2> QED
    BY <2>1, <2>2 DEF GoodRows, Live
<1> QED
  BY <1>1, Invariance, PTL

\* A task that says it is synced has its title in Google.
THEOREM SyncStatusIsTrue == Spec => []SyncedIsTrue
<1>1. IInv => SyncedIsTrue
  <2> SUFFICES ASSUME IInv, Quiet, ~raced, OnlyGoogleFailed, NEW t \in Ids, Live(rows[t]),
                      rows[t].event, ~rows[t].syncError
               PROVE  events[t] = rows[t].title
    BY DEF SyncedIsTrue
  <2>1. EventsExact(Idle, View(Idle), events)
    BY DEF IInv, ExactInv, Exact
  <2>2. View(Idle)[t] = rows[t] /\ ~Patching(Idle, t)
    BY IdleFits, BlankIdle DEF View, Seen, Patching
  <2> QED
    BY <2>1, <2>2 DEF EventsExact, Synced
<1> QED
  BY <1>1, Invariance, PTL

\* No workspace points to a task that is gone, whatever overlaps or fails.
THEOREM LinksHold == Spec => []LinksAreLive
<1>1. IInv => LinksAreLive
  <2> SUFFICES ASSUME IInv, NEW t \in linked PROVE Live(rows[t])
    BY DEF LinksAreLive
  <2>1. rows[t] \in LiveRows
    BY DEF IInv, LinkInv
  <2> QED
    BY <2>1, NilFacts DEF LiveRows, Live
<1> QED
  BY <1>1, Invariance, PTL

\* What a step does to the rows: a mutation commits what it wrote.
LEMMA RowsStep ==
  ASSUME IInv, [Next]_vars
  PROVE  rows' = rows \/ \E p \in Procs : OnCommit(req[p], req'[p])
<1>1. CASE \E p \in Procs : Step(p)
  BY <1>1, RowsEffect DEF IInv
<1>2. CASE \E p \in Procs, kind \in Kinds, t \in Ids, title \in Titles : Start(p, kind, t, title)
  BY <1>2 DEF Start
<1>3. CASE Expire
  BY <1>3 DEF Expire
<1>4. CASE Finished \/ UNCHANGED vars
  BY <1>4 DEF Finished, vars
<1> QED
  BY <1>1, <1>2, <1>3, <1>4 DEF Next

\* As long as no two mutations overlapped, a completed task stays, completed,
\* even when it is removed.
THEOREM CompletedTasksStay == Spec => CompletedIsKept
<1>1. ASSUME IInv, [Next]_vars, ~raced, NEW t \in Ids, rows[t] # Nil, rows[t].status = "Done"
      PROVE  rows'[t] # Nil /\ rows'[t].status = "Done"
  <2>1. CASE rows' = rows
    BY <1>1, <2>1
  <2>2. CASE \E p \in Procs : OnCommit(req[p], req'[p])
    <3>1. PICK p \in Procs : OnCommit(req[p], req'[p])
      BY <2>2
    <3>2. rows[t] \in DoneRows
      BY <1>1 DEF IInv, Typed, StoredInv, MaybeRow, DoneRows
    <3>3. Kept(req[p], t, DoneRows)
      BY <1>1, <3>2 DEF IInv, DoneInv, HasDone, KnowsDone
    <3>4. rows'[t] = Seen(req[p], t)
      BY <3>1 DEF OnCommit
    <3>5. rows'[t] \in DoneRows
      BY <3>2, <3>3, <3>4 DEF Seen, Kept
    <3> QED
      BY <3>5, NilFacts DEF DoneRows
  <2> QED
    BY <1>1, <2>1, <2>2, RowsStep
<1>2. IInv /\ [Next]_vars =>
        [~raced => CompletedRemain]_vars
  BY <1>1 DEF CompletedRemain
<1> QED
  BY <1>2, Invariance, PTL DEF Spec, CompletedIsKept

\* Alone, or without Redis, a removed task does not come back.
THEOREM RemovedTasksStayRemoved == Spec => RemovedStaysRemoved
<1>1. ASSUME IInv, [Next]_vars, Alone, NEW t \in known, ~Live(rows[t])
      PROVE  ~Live(rows'[t])
  <2>1. CASE rows' = rows
    BY <1>1, <2>1
  <2>2. CASE \E p \in Procs : OnCommit(req[p], req'[p])
    <3>1. PICK p \in Procs : OnCommit(req[p], req'[p])
      BY <2>2
    <3>2. t \in Ids /\ rows'[t] = Seen(req[p], t)
      BY <1>1, <3>1 DEF IInv, Typed, StoredInv, OnCommit
    <3>3. t \in DOMAIN req[p].writes => ~Live(req[p].writes[t])
      BY <1>1 DEF IInv, Alone, GoneInv, Gone, Aloof
    <3> QED
      BY <1>1, <3>2, <3>3 DEF Seen
  <2> QED
    BY <1>1, <2>1, <2>2, RowsStep
<1>2. IInv /\ [Next]_vars =>
        [Alone => \A t \in known : ~Live(rows[t]) => ~Live(rows'[t])]_vars
  BY <1>1
<1> QED
  BY <1>2, Invariance, PTL DEF Spec, RemovedStaysRemoved

\* Nothing but an edit of its title changes a task's title.
THEOREM TitlesAreEdited == Spec => TitleByItsEdit
<1>1. ASSUME IInv, [Next]_vars, Alone /\ (redis => OnlyGoogleFailed), NEW t \in Ids, Live(rows[t]),
             Live(rows'[t]), rows[t].title # rows'[t].title
      PROVE  \E p \in Procs : AtCommit(req[p]) /\ req[p].kind = "edit" /\ req[p].id = t
  <2>1. PICK p \in Procs : OnCommit(req[p], req'[p])
    BY <1>1, RowsStep
  <2>2. AtCommit(req[p]) /\ rows'[t] = Seen(req[p], t)
    BY <2>1 DEF OnCommit
  <2>3. t \in DOMAIN req[p].writes /\ rows'[t] = req[p].writes[t]
    BY <1>1, <2>2 DEF Seen
  <2>4. req[p].kind = "edit" /\ req[p].id = t
    BY <1>1, <2>3 DEF IInv, TitleInv
  <2> QED
    BY <2>2, <2>4
<1>2. IInv /\ [Next]_vars =>
        [Alone /\ (redis => OnlyGoogleFailed) =>
          \A t \in Ids :
            Live(rows[t]) /\ Live(rows'[t]) /\ rows[t].title # rows'[t].title
            => \E p \in Procs : AtCommit(req[p]) /\ req[p].kind = "edit" /\ req[p].id = t]_vars
  BY <1>1
<1> QED
  BY <1>2, Invariance, PTL DEF Spec, TitleByItsEdit
=============================================================================
