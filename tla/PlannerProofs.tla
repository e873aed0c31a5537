--------------------------- MODULE PlannerProofs ---------------------------
(***************************************************************************)
(* The planner keeps its types; every plan it makes is a placement (work   *)
(* time only, on nothing known to be taken, nothing twice); no plan moves  *)
(* a task that has its dates; and requests that do not overlap never leave *)
(* two blocks at one time, nor dates that do not span the blocks.  For any *)
(* tasks, work hours, lengths and number of requests.                      *)
(***************************************************************************)
EXTENDS Planner, WellFoundedInduction, TLAPS

PartRows == UNION {[D -> Row] : D \in SUBSET Ids}
Pipe == [step : {"idle", "tasks", "blocks", "next", "scan", "commit"}, hours : BOOLEAN,
         writes : PartRows, read : PartRows, fixed : SUBSET Interval, todo : SUBSET Ids,
         task : Ids \cup {Nil}, cursor : Nat, end : Times, remaining : Nat,
         mine : SUBSET Block, placed : SUBSET Block, gone : SUBSET Block]

\* What a request knows at each step: it plans tasks it read and may plan, and
\* the blocks of the one it places lie before the slots still to come.
MayPlan(r, t) == t \in DOMAIN r.read /\ Plannable(r.read[t])
Tidy(r) ==
    /\ r.step \in {"idle", "tasks", "blocks"} =>
         r.fixed = {} /\ r.placed = {} /\ r.todo = {} /\ r.gone = {}
    /\ ~r.hours => r.step = "commit" /\ r.placed = {} /\ r.gone = {}
    /\ r.step # "scan" => r.mine = {}
    /\ r.step = "scan" => r.task \in Ids /\ MayPlan(r, r.task)
    /\ \A t \in r.todo : MayPlan(r, t)
    /\ \A b \in r.placed \cup r.mine : MayPlan(r, b.task) /\ b.from < b.to
    /\ \A b \in r.mine : b.to <= r.cursor

Apart(B) == \A a, b \in B : a # b => ~Collides(a, b)

\* What was read is stored, and nobody removes a task.
SeenIn(r, t, stored) == IF t \in DOMAIN r.writes THEN r.writes[t] ELSE stored[t]
Known(r, stored) == \A t \in DOMAIN r.read : SeenIn(r, t, stored) \in Row

\* The edit comes before the plan, which writes no dated task.
AfterRead == {"blocks", "next", "scan", "commit"}
Hands(r) ==
    r.step \in AfterRead /\ r.hours => \A t \in DOMAIN r.writes :
        /\ t \in DOMAIN r.read
        /\ Dated(r.read[t]) => Span(r.writes[t]) = Span(r.read[t])
PipeOK(r, stored) ==
    r \in Pipe /\ Tidy(r) /\ Known(r, stored) /\ Apart(r.placed \cup r.mine)

PlannerStored ==
    /\ rows \in [Ids -> Row \cup {Nil}]
    /\ blocks \subseteq Block
    /\ enabled \in BOOLEAN /\ now \in Nows /\ raced \in BOOLEAN /\ left \in 0..MaxEdits
    /\ unplanned \subseteq Ids
PipeInv ==
    /\ pipe \in [Procs -> Pipe]
    /\ \A p \in Procs : PipeOK(pipe[p], rows) /\ Hands(pipe[p])

\* Until two requests overlap there is one at a time: what it read is what is
\* stored, and what it deletes is what is stored when it commits.
SpansBlock(row, b) == row.from <= b.from /\ b.to <= row.to
ReadStored(r, stored) ==
    r.step \in {"blocks", "next", "scan"} =>
        \A t \in DOMAIN r.read : r.read[t] = SeenIn(r, t, stored)
Ready(r, stored) ==
    r.step = "commit" =>
        IF r.hours
        THEN /\ r.gone = stored
             /\ \A b \in r.placed : b.task \in DOMAIN r.writes /\ SpansBlock(r.writes[b.task], b)
        ELSE r.placed = {} /\ r.gone = {}
OneAtATime ==
    raced \/ /\ \A p, q \in Procs : p # q => At(p, "idle") \/ At(q, "idle")
             /\ \A p \in Procs : ReadStored(pipe[p], rows) /\ Ready(pipe[p], blocks)
             /\ Apart(blocks)
             /\ \A b \in blocks : b.task \in unplanned \/ SpansBlock(rows[b.task], b)
IInv == PlannerStored /\ PipeInv /\ OneAtATime

-----------------------------------------------------------------------------
(* Numbers and data *)

\* Every nonempty set of naturals has a least element.
LEMMA LeastOf ==
  ASSUME NEW S \in SUBSET Nat, S # {}
  PROVE  \E i \in S : \A j \in S : i <= j
<1>1. \E x \in S : \A y \in S : ~ (<<y, x>> \in OpToRel(<, Nat))
  BY WFMin, NatLessThanWellFounded, Zenon
<1>2. ASSUME NEW x \in S, NEW y \in S, ~ (<<y, x>> \in OpToRel(<, Nat))
      PROVE  x <= y
  <2>1. <<y, x>> \in Nat \X Nat
    OBVIOUS
  <2>2. ~(y < x)
    BY <1>2, <2>1 DEF OpToRel
  <2> QED
    BY <2>2
<1> QED
  BY <1>1, <1>2, Zenon

\* A task's blocks have a first and a last one.
LEMMA Ends ==
  ASSUME NEW B \in SUBSET Block, B # {}
  PROVE  /\ \E b \in B : \A x \in B : b.from <= x.from
         /\ \E b \in B : \A x \in B : b.from >= x.from
<1> DEFINE F == {b.from : b \in B}
<1> DEFINE G == {Horizon - b.from : b \in B}
<1>1. \A b \in B : b.from \in 0..Horizon
  BY DEF Block, Times
<1>2. F \in SUBSET Nat /\ F # {} /\ G \in SUBSET Nat /\ G # {}
  BY <1>1, LengthsAssumption
<1>3. \E i \in F : \A j \in F : i <= j
  BY <1>2, LeastOf
<1>4. \E i \in G : \A j \in G : i <= j
  BY <1>2, LeastOf
<1>5. \E b \in B : \A x \in B : b.from <= x.from
  BY <1>3
<1>6. PICK b \in B : \A x \in B : Horizon - b.from <= Horizon - x.from
  BY <1>4
<1>7. \A x \in B : b.from >= x.from
  BY <1>1, <1>6, LengthsAssumption
<1> QED
  BY <1>5, <1>7

\* The first free slot is one of them and the earliest.
LEMMA FirstIsLeast ==
  ASSUME NEW r \in Pipe, Slots(r) # {}
  PROVE  First(r) \in Slots(r) /\ \A d \in Slots(r) : First(r) <= d
<1>1. Slots(r) \in SUBSET Nat
  BY LengthsAssumption DEF Slots, Pipe, Times
<1>2. \E i \in Slots(r) : \A j \in Slots(r) : i <= j
  BY <1>1, LeastOf
<1> QED
  BY <1>2 DEF First

\* A piece is part of a slot, and not more than the task still needs.
LEMMA PieceFits ==
  ASSUME NEW r \in Pipe, r.remaining >= MinBlock
  PROVE  /\ Piece(r) \in Nat /\ 0 < Piece(r) /\ Piece(r) <= SlotLen
         /\ Piece(r) <= r.remaining
  BY LengthsAssumption DEF Piece, Least, Pipe

\* A free slot is work time from its start to its end.
LEMMA SlotsAreWorkTime ==
  ASSUME NEW r \in Pipe, NEW c \in Slots(r), NEW n \in Nat, n <= SlotLen
  PROVE  \A t \in c..(c + n - 1) : t \in WorkTime
<1> DEFINE e == c + SlotLen - 1
<1>1. c \in WorkTime /\ e \in WorkTime /\ c \in Nat
  BY LengthsAssumption DEF Slots, Pipe, Times
<1>2. c <= e /\ e < c + SlotLen
  BY <1>1, LengthsAssumption
<1>3. c..e \subseteq WorkTime
  BY <1>1, <1>2, PausesAssumption
<1>4. c..(c + n - 1) \subseteq c..e
  BY <1>1, LengthsAssumption
<1> QED
  BY <1>3, <1>4

\* What is taken are intervals.
LEMMA FixedIsTime ==
  ASSUME NEW tasks \in PartRows, NEW stored \in SUBSET Block
  PROVE  FixedBy(tasks, stored) \subseteq Interval
<1>1. \A t \in DOMAIN tasks : tasks[t] \in Row
  BY DEF PartRows
<1>2. \A t \in DOMAIN tasks : Meets(tasks[t]) =>
        [from |-> tasks[t].from, to |-> tasks[t].due] \in Interval
  BY <1>1 DEF Meets, Row, When, Interval
<1>3. \A t \in DOMAIN tasks : Dated(tasks[t]) =>
        [from |-> tasks[t].from, to |-> tasks[t].to] \in Interval
  BY <1>1 DEF Dated, Row, When, Interval
<1>4. Spans(stored) \subseteq Interval
  BY DEF Spans, Span, Block, Interval
<1> QED
  BY <1>2, <1>3, <1>4 DEF FixedBy

LEMMA SpansAreTime == ASSUME NEW B \in SUBSET Block PROVE Spans(B) \subseteq Interval
  BY DEF Spans, Span, Block, Interval

LEMMA IdlePipe == ASSUME NEW stored PROVE PipeOK(Idle, stored) /\ Hands(Idle)
<1>1. <<>> \in PartRows
  <2>1. <<>> \in [{} -> Row]
    OBVIOUS
  <2> QED
    BY <2>1 DEF PartRows
<1>2. Idle \in Pipe
  BY <1>1, LengthsAssumption DEF Idle, Pipe, Times
<1>3. DOMAIN Idle.read = {}
  BY DEF Idle
<1>4. Tidy(Idle) /\ Known(Idle, stored) /\ Hands(Idle)
  BY <1>3 DEF Tidy, Known, Hands, AfterRead, Idle
<1> QED
  BY <1>2, <1>4 DEF PipeOK, Apart, Idle

-----------------------------------------------------------------------------
(* What a step has to keep *)

LEMMA InitIInv == Init => IInv
<1> SUFFICES ASSUME Init PROVE IInv
  OBVIOUS
<1>1. PlannerStored
  <2>1. left \in 0..MaxEdits /\ rows \in [Ids -> Row \cup {Nil}] /\ blocks \subseteq Block
        /\ unplanned \subseteq Ids
    BY LengthsAssumption DEF Init
  <2>2. enabled \in BOOLEAN /\ now \in Nows /\ raced \in BOOLEAN
    BY Zenon DEF Init
  <2> QED
    BY <2>1, <2>2 DEF PlannerStored
<1>2. PipeInv
  BY IdlePipe DEF Init, PipeInv, PipeOK
<1>3. OneAtATime
  BY DEF Init, OneAtATime, At, Idle, ReadStored, Ready, Apart
<1> QED
  BY <1>1, <1>2, <1>3 DEF IInv

\* A step of one request leaves the others as they were.
LEMMA SetOK ==
  ASSUME IInv, NEW p \in Procs, NEW r, Set(p, r), PipeOK(r, rows'), Hands(r),
         \A t \in Ids : rows[t] \in Row => rows'[t] \in Row
  PROVE  PipeInv'
<1>1. pipe' = [pipe EXCEPT ![p] = r] /\ r \in Pipe /\ pipe \in [Procs -> Pipe]
  BY DEF Set, PipeOK, IInv, PipeInv
<1>2. ASSUME NEW q \in Procs
      PROVE  PipeOK(pipe'[q], rows') /\ Hands(pipe'[q])
  <2>1. CASE q = p
    BY <1>1, <2>1
  <2>2. CASE q # p
    <3>1. pipe'[q] = pipe[q] /\ PipeOK(pipe[q], rows) /\ Hands(pipe[q])
      BY <1>1, <2>2 DEF IInv, PipeInv
    <3>2. \A t \in DOMAIN pipe[q].read : t \in Ids
      BY <3>1 DEF PipeOK, Pipe, PartRows
    <3>3. Known(pipe[q], rows')
      BY <3>1, <3>2 DEF PipeOK, Known, SeenIn
    <3> QED
      BY <3>1, <3>3 DEF PipeOK
  <2> QED
    BY <2>1, <2>2
<1> QED
  BY <1>1, <1>2 DEF PipeInv

\* Until two overlap, a request at work is the only one.
LEMMA AloneOK ==
  ASSUME IInv, NEW p \in Procs, NEW r, Set(p, r), ~At(p, "idle"),
         UNCHANGED <<raced, rows, blocks, unplanned>>,
         ~raced => ReadStored(r, rows) /\ Ready(r, blocks)
  PROVE  OneAtATime'
<1>1. pipe' = [pipe EXCEPT ![p] = r] /\ pipe \in [Procs -> Pipe]
  BY DEF Set, IInv, PipeInv
<1> SUFFICES ASSUME ~raced PROVE OneAtATime'
  BY DEF OneAtATime
<1>2. \A q \in Procs \ {p} : pipe'[q] = pipe[q] /\ pipe[q].step = "idle"
  BY <1>1 DEF IInv, OneAtATime, At
<1>3. \A q, s \in Procs : q # s => pipe'[q].step = "idle" \/ pipe'[s].step = "idle"
  BY <1>2
<1>4. \A q \in Procs : ReadStored(pipe'[q], rows) /\ Ready(pipe'[q], blocks)
  BY <1>1, <1>2 DEF ReadStored, Ready
<1> QED
  BY <1>3, <1>4 DEF IInv, OneAtATime, At, ReadStored, Ready

\* What every request at hand is known to be.
LEMMA Here ==
  ASSUME IInv, NEW p \in Procs
  PROVE  /\ pipe[p] \in Pipe /\ PipeOK(pipe[p], rows) /\ Hands(pipe[p])
         /\ ~raced => ReadStored(pipe[p], rows) /\ Ready(pipe[p], blocks)
  BY DEF IInv, PipeInv, OneAtATime

-----------------------------------------------------------------------------
(* Reading *)

\* The rows an edit may write.
LEMMA EditsAreRows ==
  ASSUME NEW row \in Row \cup {Nil}, NEW edited \in Edits(row)
  PROVE  edited \in Row
<1>1. Drags \subseteq Interval /\ Dues \subseteq Times
  BY InputsAssumption
<1>2. ASSUME NEW x \in Created PROVE x \in Row
  BY <1>1 DEF Created, Row, When
<1>3. ASSUME NEW x \in Meeting PROVE x \in Row
  <2>1. PICK e \in Estimates, d \in Drags :
          x = [est |-> e, due |-> d.to, from |-> d.from, to |-> Never, meeting |-> TRUE,
               status |-> "Todo"]
    BY DEF Meeting
  <2>2. d.from \in Times /\ d.to \in Times
    BY <1>1 DEF Interval
  <2> QED
    BY <2>1, <2>2 DEF Row, When
<1>4. ASSUME row \in Row, NEW d \in Drags
      PROVE  [row EXCEPT !.from = d.from, !.to = d.to] \in Row
  <2>1. d.from \in Times /\ d.to \in Times
    BY <1>1 DEF Interval
  <2> QED
    BY <1>4, <2>1 DEF Row, When
<1>5. ASSUME row \in Row
      PROVE  /\ [row EXCEPT !.from = Never] \in Row
             /\ [row EXCEPT !.status = "Done"] \in Row
             /\ [row EXCEPT !.status = "Review"] \in Row
  BY <1>5 DEF Row, When
<1> QED
  BY <1>2, <1>3, <1>4, <1>5 DEF Edits

LEMMA EditStep == ASSUME IInv, NEW p \in Procs, NEW t \in Ids, Edit(p, t) PROVE IInv'
<1>1. PICK row \in Edits(rows[t]) :
        Set(p, [Idle EXCEPT !.step = "tasks", !.writes = [x \in {t} |-> row]])
  BY DEF Edit
<1> DEFINE r == [Idle EXCEPT !.step = "tasks", !.writes = [x \in {t} |-> row]]
<1>2. row \in Row
  BY <1>1, EditsAreRows DEF IInv, PlannerStored
<1>3. r.writes \in PartRows
  <2>1. [x \in {t} |-> row] \in [{t} -> Row] /\ {t} \in SUBSET Ids
    BY <1>2
  <2>2. [x \in {t} |-> row] \in PartRows
    BY <2>1 DEF PartRows
  <2> QED
    BY <2>2 DEF Idle
<1>4. PipeOK(r, rows) /\ Hands(r)
  <2>1. PipeOK(Idle, rows)
    BY IdlePipe
  <2>2. r \in Pipe
    BY <1>3, <2>1 DEF PipeOK, Pipe, Idle
  <2>3. Tidy(r) /\ Known(r, rows) /\ Apart(r.placed \cup r.mine) /\ Hands(r)
    BY <2>1 DEF PipeOK, Tidy, Known, Apart, Hands, AfterRead, Idle
  <2> QED
    BY <2>2, <2>3 DEF PipeOK
<1>5. UNCHANGED <<rows, blocks, enabled, now, unplanned>> /\ left' = left - 1 /\ left > 0
  BY DEF Edit
<1>6. raced' = (raced \/ \E q \in Procs : ~At(q, "idle"))
  BY DEF Edit
<1> HIDE DEF r
<1>7. PipeInv'
  BY <1>1, <1>4, <1>5, SetOK DEF r
<1>8. PlannerStored'
  <2>1. left' \in 0..MaxEdits /\ rows' \in [Ids -> Row \cup {Nil}] /\ blocks' \subseteq Block
        /\ unplanned' \subseteq Ids
    BY <1>5, LengthsAssumption DEF IInv, PlannerStored
  <2>2. enabled' \in BOOLEAN /\ now' \in Nows
    BY <1>5, Zenon DEF IInv, PlannerStored
  <2>3. raced' \in BOOLEAN
    BY <1>6, Zenon DEF IInv, PlannerStored
  <2> QED
    BY <2>1, <2>2, <2>3, Zenon DEF PlannerStored
<1>9. OneAtATime'
  <2> SUFFICES ASSUME ~raced, \A q \in Procs : At(q, "idle") PROVE OneAtATime'
    BY <1>6 DEF OneAtATime
  <2>1. pipe' = [pipe EXCEPT ![p] = r] /\ pipe \in [Procs -> Pipe]
    BY <1>1 DEF Set, r, IInv, PipeInv
  <2>2. r.step = "tasks"
    BY DEF r, Idle
  <2>3. \A q \in Procs \ {p} : pipe'[q].step = "idle"
    BY <2>1 DEF At
  <2>4. \A q \in Procs : ReadStored(pipe'[q], rows) /\ Ready(pipe'[q], blocks)
    BY <2>1, <2>2, <2>3 DEF ReadStored, Ready
  <2> QED
    BY <1>5, <2>1, <2>2, <2>3, <2>4 DEF IInv, OneAtATime, At, ReadStored, Ready
<1> QED
  BY <1>7, <1>8, <1>9 DEF IInv

\* Steps that change one request and nothing else.
LEMMA LocalStep ==
  ASSUME IInv, NEW p \in Procs, NEW r, Set(p, r), ~At(p, "idle"),
         UNCHANGED <<rows, blocks, enabled, now, raced, unplanned, left>>,
         PipeOK(r, rows), Hands(r),
         ~raced => ReadStored(r, rows) /\ Ready(r, blocks)
  PROVE  IInv'
<1>1. PipeInv'
  BY SetOK
<1>2. OneAtATime'
  BY AloneOK
<1>3. PlannerStored'
  BY DEF IInv, PlannerStored
<1> QED
  BY <1>1, <1>2, <1>3 DEF IInv

LEMMA DisabledStep == ASSUME IInv, NEW p \in Procs, Disabled(p) PROVE IInv'
<1> DEFINE r == pipe[p]  s == [r EXCEPT !.step = "commit", !.hours = FALSE]
<1>1. PipeOK(r, rows) /\ r.step = "tasks"
  BY Here DEF Disabled, At
<1>2. s \in Pipe /\ Tidy(s) /\ Known(s, rows) /\ Apart(s.placed \cup s.mine)
  BY <1>1 DEF PipeOK, Pipe, Tidy, Known, MayPlan, SeenIn, Apart
<1>3. ReadStored(s, rows) /\ Ready(s, blocks)
  BY <1>1 DEF PipeOK, Pipe, Tidy, ReadStored, Ready
<1>4. PipeOK(s, rows) /\ ~At(p, "idle") /\ Hands(s)
  BY <1>1, <1>2 DEF PipeOK, Pipe, At, Hands
<1> QED
  BY <1>3, <1>4, LocalStep DEF Disabled

LEMMA ReadTasksStep == ASSUME IInv, NEW p \in Procs, ReadTasks(p) PROVE IInv'
<1> DEFINE r == pipe[p]
           D == {u \in Ids : Seen(r, u) # Nil}
           f == [t \in D |-> Seen(r, t)]
           s == [r EXCEPT !.step = "blocks", !.read = f]
<1>1. PipeOK(r, rows) /\ r.step = "tasks" /\ r \in Pipe
  BY Here DEF ReadTasks, At, PipeOK
<1>2. \A t \in DOMAIN r.writes : t \in Ids /\ r.writes[t] \in Row
  BY <1>1 DEF Pipe, PartRows
<1>3. \A t \in Ids : Seen(r, t) \in Row \cup {Nil}
  BY <1>2 DEF Seen, IInv, PlannerStored
<1>4. \A t \in D : f[t] \in Row /\ f[t] = SeenIn(r, t, rows)
  BY <1>3 DEF Seen, SeenIn
<1>5. f \in PartRows
  <2>1. f \in [D -> Row] /\ D \in SUBSET Ids
    BY <1>4
  <2> QED
    BY <2>1 DEF PartRows
<1>6. DOMAIN f = D
  OBVIOUS
<1> HIDE DEF f, D
<1>7. s \in Pipe /\ s.read = f /\ s.writes = r.writes /\ s.step = "blocks"
  BY <1>1, <1>5 DEF Pipe
<1>8. Tidy(s) /\ Apart(s.placed \cup s.mine)
  BY <1>1, <1>7 DEF PipeOK, Tidy, Apart, Pipe
<1>9. Known(s, rows) /\ ReadStored(s, rows) /\ Ready(s, blocks)
  BY <1>4, <1>6, <1>7 DEF Known, ReadStored, Ready, SeenIn, ReadTasks
<1>10. Hands(s)
  <2>1. ASSUME NEW t \in DOMAIN s.writes
        PROVE  t \in DOMAIN s.read /\ s.read[t] = s.writes[t]
    BY <1>2, <1>4, <1>6, <1>7, RowAssumption DEF SeenIn, D, Seen
  <2> QED
    BY <2>1 DEF Hands
<1> QED
  BY <1>1, <1>7, <1>8, <1>9, <1>10, LocalStep DEF PipeOK, ReadTasks, At, f, D

LEMMA ReadBlocksStep == ASSUME IInv, NEW p \in Procs, ReadBlocks(p) PROVE IInv'
<1> DEFINE r == pipe[p]
           T == {t \in DOMAIN r.read : Plannable(r.read[t])}
           F == FixedBy(r.read, blocks)
           s == [r EXCEPT !.step = "next", !.todo = T, !.fixed = F]
<1>1. /\ PipeOK(r, rows) /\ r.step = "blocks" /\ r \in Pipe /\ Hands(r)
      /\ ~raced => ReadStored(r, rows)
  BY Here DEF ReadBlocks, At, PipeOK
<1>2. T \subseteq Ids /\ F \subseteq Interval
  BY <1>1, FixedIsTime DEF Pipe, PartRows, IInv, PlannerStored
<1>3. \A t \in T : MayPlan(r, t)
  BY DEF MayPlan
<1> HIDE DEF T, F
<1>4. s \in Pipe /\ s = [r EXCEPT !.step = "next", !.todo = T, !.fixed = F]
  BY <1>1, <1>2 DEF Pipe
<1>5. Tidy(s) /\ Known(s, rows) /\ Apart(s.placed \cup s.mine)
  BY <1>1, <1>3 DEF PipeOK, Pipe, Tidy, Known, MayPlan, SeenIn, Apart
<1>6. Hands(s) /\ (~raced => ReadStored(s, rows)) /\ Ready(s, blocks)
  BY <1>1 DEF Pipe, Hands, AfterRead, ReadStored, SeenIn, Ready
<1> QED
  BY <1>1, <1>4, <1>5, <1>6, LocalStep DEF PipeOK, ReadBlocks, At, T, F

-----------------------------------------------------------------------------
(* Placing *)

LEMMA NextTaskStep == ASSUME IInv, NEW p \in Procs, NEW t \in Ids, Next_(p, t) PROVE IInv'
<1> DEFINE r == pipe[p]
           row == r.read[t]
           w == WindowStart(row)
           e == Least(Horizon, w + Window)
           s == [r EXCEPT !.step = "scan", !.task = t, !.todo = @ \ {t},
                          !.remaining = row.est, !.cursor = w, !.end = e]
<1>1. /\ PipeOK(r, rows) /\ r.step = "next" /\ r \in Pipe /\ Hands(r)
      /\ ~raced => ReadStored(r, rows)
  BY Here DEF Next_, At, PipeOK
<1>2. t \in r.todo /\ MayPlan(r, t)
  BY <1>1 DEF Next_, PipeOK, Tidy
<1>3. row \in Row
  BY <1>1, <1>2 DEF MayPlan, Pipe, PartRows
<1>4. row.est \in Nat
  BY <1>3, InputsAssumption DEF Row
<1>5. w \in Nat
  <2>1. now \in Nat
    BY InputsAssumption DEF IInv, PlannerStored, Times
  <2>2. ASSUME row.due # Never, ~(DayStart(row.due) <= now) PROVE DayStart(row.due) \in Nat
    <3>1. row.due \in Nat
      BY <1>3, <2>2 DEF Row, When, Times
    <3>2. DayStart(row.due) \in Int
      BY <3>1, LengthsAssumption DEF DayStart
    <3> QED
      BY <2>1, <2>2, <3>2
  <2> QED
    BY <2>1, <2>2 DEF WindowStart
<1>6. e \in Times
  BY <1>5, LengthsAssumption DEF Least, Times
<1> HIDE DEF row, w, e
<1>7. s \in Pipe
  BY <1>1, <1>4, <1>5, <1>6 DEF Pipe
<1>8. Tidy(s) /\ Known(s, rows) /\ Apart(s.placed \cup s.mine)
  BY <1>1, <1>2 DEF PipeOK, Pipe, Tidy, Known, MayPlan, SeenIn, Apart
<1>9. Hands(s) /\ (~raced => ReadStored(s, rows)) /\ Ready(s, blocks)
  BY <1>1 DEF Pipe, Hands, AfterRead, ReadStored, SeenIn, Ready
<1> QED
  BY <1>1, <1>7, <1>8, <1>9, LocalStep DEF PipeOK, Next_, At, row, w, e

\* The block a step places: in a free slot, and on nothing else.
LEMMA NewBlock ==
  ASSUME IInv, NEW p \in Procs, Place(p)
  PROVE  LET r == pipe[p]
             c == First(r)
             b == [task |-> r.task, from |-> c, to |-> c + Piece(r)]
         IN /\ c \in Slots(r) /\ c \in Nat /\ r.cursor <= c
            /\ b \in Block /\ b.from < b.to /\ b.to <= c + SlotLen
            /\ \A x \in Busy(r) : ~Collides(b, x)
            /\ \A x \in r.mine : x.to <= b.from
            /\ r.remaining - Piece(r) \in Nat /\ Piece(r) \in Nat /\ Piece(r) <= SlotLen
<1> DEFINE r == pipe[p]  c == First(r)
           b == [task |-> r.task, from |-> c, to |-> c + Piece(r)]
<1>1. PipeOK(r, rows) /\ r.step = "scan" /\ r \in Pipe /\ r.task \in Ids
  BY Here DEF Place, At, PipeOK, Tidy
<1>2. ~(r.remaining < MinBlock) /\ Slots(r) # {}
  BY DEF Place, Done
<1>3. r.cursor \in Nat /\ r.end \in 0..Horizon /\ r.remaining \in Nat
  BY <1>1 DEF Pipe, Times
<1>4. /\ Piece(r) \in Nat /\ 0 < Piece(r) /\ Piece(r) <= SlotLen
      /\ Piece(r) <= r.remaining
  <2>1. r.remaining >= MinBlock
    BY <1>2, <1>3, LengthsAssumption
  <2> QED
    BY <1>1, <2>1, PieceFits
<1>5. c \in Slots(r)
  BY <1>1, <1>2, FirstIsLeast
<1>6. /\ c \in Nat /\ r.cursor <= c /\ c + SlotLen <= r.end
      /\ \A x \in Busy(r) : ~Collides([from |-> c, to |-> c + SlotLen], x)
  BY <1>3, <1>5, LengthsAssumption DEF Slots
<1> HIDE DEF c
<1>7. c \in Times /\ c + Piece(r) \in Times
  BY <1>3, <1>4, <1>6, LengthsAssumption DEF Times
<1>8. b \in Block /\ b.from < b.to /\ b.to <= c + SlotLen
  BY <1>1, <1>4, <1>6, <1>7, LengthsAssumption DEF Block
<1>9. ASSUME NEW x \in Busy(r) PROVE ~Collides(b, x)
  <2>1. x \in Interval
    BY <1>1, SpansAreTime DEF Busy, Pipe
  <2>2. x.from \in Int /\ x.to \in Int
    BY <2>1 DEF Interval, Times
  <2> QED
    BY <1>4, <1>6, <2>2, LengthsAssumption DEF Collides
<1>10. ASSUME NEW x \in r.mine PROVE x.to <= b.from
  <2>1. x.to <= r.cursor /\ x.to \in Int
    BY <1>1 DEF PipeOK, Tidy, Pipe, Block, Times
  <2> QED
    BY <1>3, <1>6, <2>1
<1>11. r.remaining - Piece(r) \in Nat
  BY <1>3, <1>4
<1> QED
  BY <1>4, <1>5, <1>6, <1>8, <1>9, <1>10, <1>11 DEF c

LEMMA PlaceStep == ASSUME IInv, NEW p \in Procs, Place(p) PROVE IInv'
<1> DEFINE r == pipe[p]  c == First(r)
           b == [task |-> r.task, from |-> c, to |-> c + Piece(r)]
           rest == r.remaining - Piece(r)
           s == [r EXCEPT !.mine = @ \cup {b}, !.remaining = rest, !.cursor = c + SlotLen]
<1>1. /\ PipeOK(r, rows) /\ r.step = "scan" /\ r \in Pipe /\ Hands(r)
      /\ ~raced => ReadStored(r, rows)
  BY Here DEF Place, At, PipeOK
<1>2. /\ c \in Nat /\ r.cursor <= c /\ b \in Block /\ b.from < b.to /\ b.to <= c + SlotLen
      /\ \A x \in Busy(r) : ~Collides(b, x)
      /\ \A x \in r.mine : x.to <= b.from
      /\ rest \in Nat /\ b.task = r.task
  BY NewBlock
<1>3. Place(p) => Set(p, s)
  BY DEF Place
<1> HIDE DEF c, b, rest
<1>4. s \in Pipe
  <2>1. c + SlotLen \in Nat /\ r.mine \cup {b} \subseteq Block
    BY <1>1, <1>2, LengthsAssumption DEF Pipe
  <2> QED
    BY <1>1, <1>2, <2>1 DEF Pipe
<1>5. Tidy(s)
  <2>1. \A x \in r.mine : x.to <= c + SlotLen
    BY <1>1, <1>2, LengthsAssumption DEF PipeOK, Tidy, Pipe, Block, Times
  <2> QED
    BY <1>1, <1>2, <2>1 DEF PipeOK, Tidy, MayPlan, Pipe
<1>6. Apart(s.placed \cup s.mine)
  <2>1. ASSUME NEW x \in r.placed \cup r.mine PROVE ~Collides(b, x) /\ ~Collides(x, b)
    <3>1. x \in Block /\ b.from \in Int /\ b.to \in Int /\ x.from \in Int /\ x.to \in Int
      BY <1>1, <1>2 DEF Pipe, Block, Times
    <3>2. CASE x \in r.placed
      <4>1. Span(x) \in Busy(r)
        BY <3>2 DEF Busy, Spans
      <4> QED
        BY <1>2, <4>1 DEF Collides, Span
    <3>3. CASE x \in r.mine
      BY <1>2, <3>1, <3>3 DEF Collides
    <3> QED
      BY <3>2, <3>3
  <2>2. s.placed \cup s.mine = (r.placed \cup r.mine) \cup {b}
    BY <1>1 DEF Pipe
  <2>3. Apart(r.placed \cup r.mine)
    BY <1>1 DEF PipeOK
  <2> QED
    BY <2>1, <2>2, <2>3 DEF Apart
<1>7. Known(s, rows) /\ Hands(s) /\ (~raced => ReadStored(s, rows)) /\ Ready(s, blocks)
  BY <1>1 DEF PipeOK, Pipe, Known, SeenIn, Hands, AfterRead, ReadStored, Ready
<1> QED
  BY <1>1, <1>3, <1>4, <1>5, <1>6, <1>7, LocalStep DEF PipeOK, Place, At

LEMMA SettleStep == ASSUME IInv, NEW p \in Procs, Settle(p) PROVE IInv'
<1> DEFINE r == pipe[p]
           s == [r EXCEPT !.step = "next", !.placed = @ \cup r.mine, !.mine = {}, !.task = Nil]
<1>1. /\ PipeOK(r, rows) /\ r.step = "scan" /\ r \in Pipe /\ Hands(r)
      /\ ~raced => ReadStored(r, rows)
  BY Here DEF Settle, At, PipeOK
<1>2. s \in Pipe /\ s.placed \cup s.mine = r.placed \cup r.mine /\ s.mine = {}
  BY <1>1 DEF Pipe
<1>3. Tidy(s) /\ Known(s, rows) /\ Apart(s.placed \cup s.mine)
  BY <1>1, <1>2 DEF PipeOK, Pipe, Tidy, Known, MayPlan, SeenIn, Apart
<1>4. Hands(s) /\ (~raced => ReadStored(s, rows)) /\ Ready(s, blocks)
  BY <1>1 DEF Pipe, Hands, AfterRead, ReadStored, SeenIn, Ready
<1> QED
  BY <1>1, <1>2, <1>3, <1>4, LocalStep DEF PipeOK, Settle, At

-----------------------------------------------------------------------------
(* Storing *)

\* The dates a plan writes are the dates it chose, and the row stays a row.
LEMMA PatchOK ==
  ASSUME NEW row \in Row, NEW was \in Row, NEW new \in Row
  PROVE  /\ Patch(row, was, new) \in Row
         /\ was = row => Patch(row, was, new) = new
<1> DEFINE D == {"est", "due", "from", "to", "meeting", "status"}
<1>1. DOMAIN row = D /\ DOMAIN new = D
  BY DEF Row
<1> DEFINE f == [c \in D |-> IF new[c] # was[c] THEN new[c] ELSE row[c]]
<1>2. Patch(row, was, new) = f
  BY <1>1 DEF Patch
<1>3. f \in Row
  <2>1. f = [est |-> f["est"], due |-> f["due"], from |-> f["from"], to |-> f["to"],
             meeting |-> f["meeting"], status |-> f["status"]]
    OBVIOUS
  <2>2. /\ f["est"] \in Estimates /\ f["due"] \in When /\ f["from"] \in When
        /\ f["to"] \in When /\ f["meeting"] \in BOOLEAN
        /\ f["status"] \in {"Todo", "Scheduled", "Review", "Done"}
    BY DEF Row
  <2> HIDE DEF f
  <2> QED
    BY <2>1, <2>2 DEF Row
<1>4. was = row => f = new
  <2> SUFFICES ASSUME was = row PROVE f = new
    OBVIOUS
  <2>1. \A c \in D : f[c] = new[c]
    OBVIOUS
  <2>2. new = [c \in D |-> new[c]]
    BY <1>1 DEF Row
  <2> QED
    BY <2>1, <2>2
<1> QED
  BY <1>2, <1>3, <1>4

\* A planned task's dates span its blocks: the last to start is the last to end.
LEMMA ScheduledOK ==
  ASSUME NEW r \in Pipe, Tidy(r), Apart(r.placed), NEW t \in Planned(r)
  PROVE  /\ t \in DOMAIN r.read /\ Plannable(r.read[t]) /\ Scheduled(r, t) \in Row
         /\ \A b \in r.placed : b.task = t => SpansBlock(Scheduled(r, t), b)
<1> DEFINE B == {b \in r.placed : b.task = t}
           first == CHOOSE b \in B : \A x \in B : b.from <= x.from
           last == CHOOSE b \in B : \A x \in B : b.from >= x.from
<1>1. B \in SUBSET Block /\ B # {}
  BY DEF Planned, Pipe
<1>2. /\ first \in B /\ \A x \in B : first.from <= x.from
      /\ last \in B /\ \A x \in B : last.from >= x.from
  BY <1>1, Ends
<1>3. Scheduled(r, t) = [r.read[t] EXCEPT !.from = first.from, !.to = last.to,
                                          !.status = "Scheduled"]
  BY DEF Scheduled
<1>4. t \in DOMAIN r.read /\ Plannable(r.read[t]) /\ r.read[t] \in Row
  BY <1>1 DEF Tidy, MayPlan, Pipe, PartRows
<1> HIDE DEF first, last
<1>5. first.from \in Times /\ last.to \in Times
  BY <1>1, <1>2 DEF Block
<1>6. Scheduled(r, t) \in Row /\ Scheduled(r, t).from = first.from
      /\ Scheduled(r, t).to = last.to
  BY <1>3, <1>4, <1>5 DEF Row, When
<1>7. ASSUME NEW b \in B PROVE b.to <= last.to
  <2>1. /\ b.from \in Int /\ b.to \in Int /\ last.from \in Int /\ last.to \in Int
        /\ b.from < b.to /\ last.from < last.to /\ b.from <= last.from
    BY <1>1, <1>2 DEF Block, Times, Tidy
  <2>2. b = last \/ ~Collides(b, last)
    BY <1>2 DEF Apart
  <2> QED
    BY <2>1, <2>2 DEF Collides
<1> QED
  BY <1>2, <1>4, <1>6, <1>7 DEF SpansBlock

LEMMA ReplaceStep == ASSUME IInv, NEW p \in Procs, Replace(p) PROVE IInv'
<1> DEFINE r == pipe[p]
           W == [t \in DOMAIN r.writes \cup Planned(r) |->
                   IF t \in Planned(r)
                   THEN Patch(Seen(r, t), r.read[t], Scheduled(r, t))
                   ELSE r.writes[t]]
           s == [r EXCEPT !.step = "commit", !.gone = Replaced(r), !.writes = W]
<1>1. /\ PipeOK(r, rows) /\ r.step = "next" /\ r \in Pipe /\ Hands(r)
      /\ ~raced => ReadStored(r, rows)
  BY Here DEF Replace, At, PipeOK
<1>2. Tidy(r) /\ Known(r, rows) /\ Apart(r.placed) /\ r.todo = {} /\ r.mine = {}
  BY <1>1 DEF Replace, PipeOK, Tidy, Apart
<1>3. Planned(r) \subseteq Ids /\ DOMAIN r.writes \subseteq Ids
      /\ \A t \in DOMAIN r.writes : r.writes[t] \in Row
  BY <1>1 DEF Planned, Pipe, Block, PartRows
<1>4. ASSUME NEW t \in Planned(r)
      PROVE  /\ t \in DOMAIN r.read /\ Plannable(r.read[t])
             /\ Scheduled(r, t) \in Row /\ r.read[t] \in Row /\ Seen(r, t) \in Row
             /\ \A b \in r.placed : b.task = t => SpansBlock(Scheduled(r, t), b)
  <2>1. /\ t \in DOMAIN r.read /\ Plannable(r.read[t]) /\ Scheduled(r, t) \in Row
        /\ \A b \in r.placed : b.task = t => SpansBlock(Scheduled(r, t), b)
    BY <1>1, <1>2, ScheduledOK
  <2>2. Seen(r, t) \in Row /\ r.read[t] \in Row
    BY <1>1, <1>2, <2>1 DEF Known, SeenIn, Seen, Pipe, PartRows
  <2> QED
    BY <2>1, <2>2
<1>5. \A t \in DOMAIN W : W[t] \in Row
  BY <1>3, <1>4, PatchOK
<1>6. W \in PartRows
  <2>1. W \in [DOMAIN W -> Row] /\ DOMAIN W \in SUBSET Ids
    BY <1>3, <1>5
  <2> QED
    BY <2>1 DEF PartRows
<1>7. DOMAIN W = DOMAIN r.writes \cup Planned(r)
  OBVIOUS
<1>8. \A t \in DOMAIN r.writes : t \notin Planned(r) => W[t] = r.writes[t]
  OBVIOUS
<1>9. ~raced => \A t \in Planned(r) : W[t] = Scheduled(r, t)
  <2> SUFFICES ASSUME ~raced, NEW t \in Planned(r) PROVE W[t] = Scheduled(r, t)
    OBVIOUS
  <2>1. Seen(r, t) = r.read[t]
    BY <1>1, <1>4 DEF ReadStored, SeenIn, Seen
  <2> QED
    BY <1>4, <2>1, PatchOK
<1> HIDE DEF W
<1>10. blocks \subseteq Block /\ Replaced(r) = blocks
  BY DEF IInv, PlannerStored, Replaced
<1>11. /\ s \in Pipe /\ s.writes = W /\ s.read = r.read /\ s.step = "commit"
       /\ s.gone = blocks /\ s.placed = r.placed /\ s.mine = {}
  BY <1>1, <1>2, <1>6, <1>10 DEF Pipe
<1>12. Tidy(s) /\ Apart(s.placed \cup s.mine)
  BY <1>1, <1>2, <1>11 DEF PipeOK, Pipe, Tidy, MayPlan, Apart
<1>13. Known(s, rows)
  BY <1>2, <1>5, <1>7, <1>11 DEF Known, SeenIn
<1>14. Hands(s)
  <2> SUFFICES ASSUME NEW t \in DOMAIN W
               PROVE  t \in DOMAIN r.read
                      /\ (Dated(r.read[t]) => Span(W[t]) = Span(r.read[t]))
    BY <1>11 DEF Hands
  <2>1. CASE t \in Planned(r)
    BY <1>4, <2>1 DEF Plannable
  <2>2. CASE t \notin Planned(r)
    <3>1. r.hours
      BY <1>1 DEF PipeOK, Tidy
    <3> QED
      BY <1>1, <1>7, <1>8, <2>2, <3>1 DEF Hands, AfterRead
  <2> QED
    BY <2>1, <2>2
<1>15. ~raced => ReadStored(s, rows) /\ Ready(s, blocks)
  <2> SUFFICES ASSUME ~raced PROVE ReadStored(s, rows) /\ Ready(s, blocks)
    OBVIOUS
  <2>1. s.hours
    BY <1>1, <1>11 DEF PipeOK, Tidy
  <2>2. \A b \in r.placed : b.task \in DOMAIN W /\ SpansBlock(W[b.task], b)
    BY <1>4, <1>7, <1>9 DEF Planned
  <2> QED
    BY <1>11, <2>1, <2>2 DEF ReadStored, Ready
<1> QED
  BY <1>1, <1>11, <1>12, <1>13, <1>14, <1>15, LocalStep DEF PipeOK, Replace, At, W

LEMMA CommitStep == ASSUME IInv, NEW p \in Procs, Commit(p) PROVE IInv'
<1> DEFINE r == pipe[p]
<1>1. /\ PipeOK(r, rows) /\ r.step = "commit" /\ r \in Pipe
      /\ ~raced => Ready(r, blocks)
  BY Here DEF Commit, At, PipeOK
<1>2. /\ rows' = [t \in Ids |-> Seen(r, t)] /\ blocks' = (blocks \ r.gone) \cup r.placed
      /\ unplanned' = IF r.hours THEN {} ELSE unplanned \cup DOMAIN r.writes
      /\ Set(p, Idle) /\ UNCHANGED <<enabled, now, raced, left>>
  BY DEF Commit
<1>3. \A t \in DOMAIN r.writes : r.writes[t] \in Row
  BY <1>1 DEF Pipe, PartRows
<1>4. \A t \in Ids : Seen(r, t) \in Row \cup {Nil} /\ (rows[t] \in Row => Seen(r, t) \in Row)
  BY <1>3 DEF Seen, IInv, PlannerStored
<1>5. r.placed \subseteq Block /\ Apart(r.placed)
  BY <1>1 DEF Pipe, PipeOK, Apart
<1>6. PlannerStored'
  <2>1. DOMAIN r.writes \subseteq Ids
    BY <1>1 DEF Pipe, PartRows
  <2> QED
    BY <1>2, <1>4, <1>5, <2>1 DEF IInv, PlannerStored
<1>7. PipeInv'
  BY <1>2, <1>4, IdlePipe, SetOK
<1>8. OneAtATime'
  <2> SUFFICES ASSUME ~raced PROVE OneAtATime'
    BY <1>2 DEF OneAtATime
  <2>1. \A q \in Procs : pipe'[q].step = "idle"
    <3>1. pipe' = [pipe EXCEPT ![p] = Idle] /\ pipe \in [Procs -> Pipe] /\ Idle.step = "idle"
      BY <1>2 DEF Set, Idle, IInv, PipeInv
    <3>2. \A q \in Procs \ {p} : pipe[q].step = "idle"
      BY <1>1 DEF IInv, OneAtATime, At
    <3> QED
      BY <3>1, <3>2
  <2>2. r.hours => blocks' = r.placed
    BY <1>1, <1>2 DEF Ready
  <2>3. ~r.hours => blocks' = blocks
    BY <1>1, <1>2 DEF Ready
  <2>4. Apart(blocks)'
    BY <1>5, <2>2, <2>3 DEF Apart, IInv, OneAtATime
  <2>5. ASSUME NEW b \in blocks', b.task \notin unplanned' PROVE SpansBlock(rows'[b.task], b)
    <3>1. b.task \in Ids
      BY <1>6, <2>5 DEF PlannerStored, Block
    <3>2. CASE r.hours
      <4>1. b \in r.placed /\ b.task \in DOMAIN r.writes /\ SpansBlock(r.writes[b.task], b)
        BY <1>1, <2>2, <2>5, <3>2 DEF Ready
      <4> QED
        BY <1>2, <3>1, <4>1 DEF Seen
    <3>3. CASE ~r.hours
      <4>1. b \in blocks /\ b.task \notin unplanned /\ b.task \notin DOMAIN r.writes
        BY <1>2, <2>3, <2>5, <3>3
      <4>2. SpansBlock(rows[b.task], b)
        BY <4>1 DEF IInv, OneAtATime
      <4> QED
        BY <1>2, <3>1, <4>1, <4>2 DEF Seen
    <3> QED
      BY <3>2, <3>3
  <2> QED
    BY <1>2, <2>1, <2>4, <2>5 DEF OneAtATime, At, ReadStored, Ready
<1> QED
  BY <1>6, <1>7, <1>8 DEF IInv

LEMMA AbortStep == ASSUME IInv, NEW p \in Procs, Abort(p) PROVE IInv'
<1>1. PipeOK(Idle, rows) /\ Hands(Idle)
  BY IdlePipe
<1>2. ReadStored(Idle, rows) /\ Ready(Idle, blocks)
  BY DEF ReadStored, Ready, Idle
<1> QED
  BY <1>1, <1>2, LocalStep DEF Abort

LEMMA QuietStep ==
  ASSUME IInv, now' \in Nows, enabled' \in BOOLEAN, left' \in 0..MaxEdits,
         UNCHANGED <<rows, blocks, pipe, raced, unplanned>>
  PROVE  IInv'
<1>1. PlannerStored'
  BY DEF IInv, PlannerStored
<1>2. PipeInv'
  BY DEF IInv, PipeInv
<1>3. OneAtATime'
  BY DEF IInv, OneAtATime, At, ReadStored, Ready
<1> QED
  BY <1>1, <1>2, <1>3 DEF IInv

LEMMA NextIInv == IInv /\ [Next]_vars => IInv'
<1> SUFFICES ASSUME IInv, [Next]_vars PROVE IInv'
  OBVIOUS
<1>1. ASSUME NEW p \in Procs, NEW t \in Ids, Edit(p, t) \/ Next_(p, t) PROVE IInv'
  BY <1>1, EditStep, NextTaskStep
<1>2. ASSUME NEW p \in Procs,
             Disabled(p) \/ ReadTasks(p) \/ ReadBlocks(p) \/ Place(p) \/ Settle(p)
      PROVE  IInv'
  BY <1>2, DisabledStep, ReadTasksStep, ReadBlocksStep, PlaceStep, SettleStep
<1>3. ASSUME NEW p \in Procs, Replace(p) \/ Commit(p) \/ Abort(p) PROVE IInv'
  BY <1>3, ReplaceStep, CommitStep, AbortStep
<1>4. CASE Tick \/ SwitchHours
  <2>1. left' \in 0..MaxEdits /\ now' \in Nows
    BY <1>4, LengthsAssumption DEF Tick, SwitchHours, IInv, PlannerStored
  <2>2. enabled' \in BOOLEAN
    BY <1>4, Zenon DEF Tick, SwitchHours, IInv, PlannerStored
  <2> QED
    BY <1>4, <2>1, <2>2, QuietStep DEF Tick, SwitchHours
<1>5. CASE Finished \/ UNCHANGED vars
  <2>1. UNCHANGED vars /\ now \in Nows /\ enabled \in BOOLEAN /\ left \in 0..MaxEdits
    BY <1>5 DEF Finished, IInv, PlannerStored
  <2> QED
    BY <2>1, QuietStep DEF vars
<1> QED
  BY <1>1, <1>2, <1>3, <1>4, <1>5 DEF Next

-----------------------------------------------------------------------------
(* What every run keeps *)

\* The inductive invariant: everything below follows from it.
THEOREM Invariance == Spec => []IInv
  BY InitIInv, NextIInv, PTL DEF Spec

LEMMA TypesOfPlanner == IInv => TypeOK
<1> SUFFICES ASSUME IInv PROVE TypeOK
  OBVIOUS
<1>1. \A p \in Procs : pipe[p] \in Pipe
  BY Here
<1>2. ASSUME NEW f \in PartRows PROVE DOMAIN f \subseteq Ids /\ \A t \in DOMAIN f : f[t] \in Row
  BY DEF PartRows
<1> QED
  BY <1>1, <1>2 DEF IInv, PlannerStored, TypeOK, Pipe

\* The rows, the blocks and every request under way keep their types: no dates
\* off the calendar, no half-planned task (run_scheduling_pipeline).
THEOREM TypeCorrect == Spec => []TypeOK
  BY TypesOfPlanner, Invariance, PTL

\* Requests that never overlapped leave no two blocks at one time
\* (replace_focus_blocks, find_available_slots).
THEOREM Apartness == Spec => []NoDoubleBooking
<1>1. IInv => NoDoubleBooking
  BY DEF IInv, OneAtATime, Apart, NoDoubleBooking
<1> QED
  BY <1>1, Invariance, PTL

\* As long as no two requests overlap, a planned task's dates span its blocks (what
\* _schedule_single_task returns), however often the work hours are switched off and
\* on and whatever fails; but for tasks edited with the hours off, until the next plan.
THEOREM Spanning == Spec => []DatesCoverBlocks
<1>1. IInv => DatesCoverBlocks
  BY DEF IInv, OneAtATime, SpansBlock, DatesCoverBlocks
<1> QED
  BY <1>1, Invariance, PTL

\* A plan leaves the tasks it read with both dates where they are
\* (filter_tasks_needing_scheduling, migrate_task).
THEOREM HandPlaced == Spec => HandPlacedStays
<1> DEFINE Moved(t) == Dated(rows[t]) /\ Span(rows'[t]) # Span(rows[t])
           ByHand(t) == \E p \in Procs :
             /\ t \in DOMAIN pipe[p].writes
             /\ pipe[p].hours /\ Dated(pipe[p].read[t]) => Span(rows'[t]) = Span(pipe[p].read[t])
<1>1. ASSUME IInv, NEW p \in Procs, Commit(p), NEW t \in Ids, Moved(t)
      PROVE  ByHand(t)
  <2>1. rows'[t] = Seen(pipe[p], t) /\ pipe[p].step = "commit"
    BY <1>1 DEF Commit, At
  <2>2. t \in DOMAIN pipe[p].writes /\ rows'[t] = pipe[p].writes[t]
    BY <1>1, <2>1 DEF Seen
  <2>3. Hands(pipe[p])
    BY <1>1, Here
  <2> QED
    BY <2>1, <2>2, <2>3 DEF Hands, AfterRead
<1>2. ASSUME [Next]_vars PROVE (\E p \in Procs : Commit(p)) \/ UNCHANGED rows
  BY <1>2 DEF Next, Edit, Next_, Disabled, ReadTasks, ReadBlocks, Place, Settle, Replace,
       Abort, SwitchHours, Tick, Finished, vars
<1>3. IInv /\ [Next]_vars => \A t \in Ids : rows[t] # Nil /\ Moved(t) => ByHand(t)
  BY <1>1, <1>2
<1>4. IInv /\ [Next]_vars =>
        [\A t \in Ids : rows[t] # Nil /\ Dated(rows[t]) /\ Span(rows'[t]) # Span(rows[t])
         => \E p \in Procs :
              /\ t \in DOMAIN pipe[p].writes
              /\ pipe[p].hours /\ Dated(pipe[p].read[t]) =>
                   Span(rows'[t]) = Span(pipe[p].read[t])]_vars
  BY <1>3
<1> QED
  BY <1>4, Invariance, PTL DEF Spec, HandPlacedStays

-----------------------------------------------------------------------------
(* Plans are placements *)

Taken == [p \in Procs |-> pipe[p].fixed]
Plan == [p \in Procs |-> Spans(pipe[p].placed \cup pipe[p].mine)]

LEMMA SetMaps ==
  ASSUME IInv, NEW p \in Procs, NEW r, Set(p, r)
  PROVE  /\ Taken' = [Taken EXCEPT ![p] = r.fixed]
         /\ Plan' = [Plan EXCEPT ![p] = Spans(r.placed \cup r.mine)]
<1>1. pipe' = [pipe EXCEPT ![p] = r] /\ pipe \in [Procs -> Pipe]
  BY DEF Set, IInv, PipeInv
<1>2. \A q \in Procs : pipe'[q] = IF q = p THEN r ELSE pipe[q]
  BY <1>1
<1> QED
  BY <1>2 DEF Taken, Plan

LEMMA Stutters ==
  ASSUME IInv, NEW p \in Procs, NEW r, Set(p, r), r.fixed = pipe[p].fixed,
         r.placed \cup r.mine = pipe[p].placed \cup pipe[p].mine
  PROVE  UNCHANGED <<Taken, Plan>>
<1>1. /\ Taken' = [Taken EXCEPT ![p] = Taken[p]]
      /\ Plan' = [Plan EXCEPT ![p] = Plan[p]]
  BY SetMaps DEF Taken, Plan
<1> QED
  BY <1>1 DEF Taken, Plan

LEMMA PlaceMaps == ASSUME IInv, NEW p \in Procs, Place(p) PROVE P!Place(p)
<1> DEFINE r == pipe[p]  c == First(r)
           b == [task |-> r.task, from |-> c, to |-> c + Piece(r)]
           old == Spans(r.placed \cup r.mine)
           s == [r EXCEPT !.mine = @ \cup {b}, !.remaining = @ - Piece(r),
                          !.cursor = c + SlotLen]
<1>1. /\ r \in Pipe /\ c \in Slots(r) /\ c \in Nat /\ b \in Block /\ b.from < b.to
      /\ \A x \in Busy(r) : ~Collides(b, x)
      /\ \A x \in r.mine : x.to <= b.from
      /\ Piece(r) \in Nat /\ Piece(r) <= SlotLen
  BY Here, NewBlock
<1>2. Set(p, s)
  BY DEF Place
<1>3. P!InWorkTime(Span(b))
  BY <1>1, SlotsAreWorkTime DEF P!InWorkTime, Span
<1> HIDE DEF c, b
<1>4. s.fixed = r.fixed /\ s.placed \cup s.mine = (r.placed \cup r.mine) \cup {b}
  BY <1>1 DEF Pipe
<1> HIDE DEF s
<1>5. Spans(s.placed \cup s.mine) = old \cup {Span(b)}
  BY <1>4 DEF Spans
<1>6. Taken' = Taken /\ Plan' = [Plan EXCEPT ![p] = @ \cup {Span(b)}]
  <2>1. Taken' = [Taken EXCEPT ![p] = r.fixed] /\ Plan' = [Plan EXCEPT ![p] = old \cup {Span(b)}]
    <3>1. /\ Taken' = [Taken EXCEPT ![p] = s.fixed]
          /\ Plan' = [Plan EXCEPT ![p] = Spans(s.placed \cup s.mine)]
      BY <1>2, SetMaps
    <3> QED
      BY <1>4, <1>5, <3>1
  <2> QED
    BY <2>1 DEF Taken, Plan
<1>7. Span(b) \in Interval /\ Span(b).from < Span(b).to
  BY <1>1 DEF Span, Block, Interval
<1>8. ASSUME NEW x \in r.fixed \cup old PROVE ~P!Overlaps(Span(b), x)
  <2>1. ASSUME x \in Busy(r) PROVE ~P!Overlaps(Span(b), x)
    BY <1>1, <2>1 DEF Collides, Span, P!Overlaps
  <2>2. ASSUME NEW y \in r.mine, x = Span(y) PROVE ~P!Overlaps(Span(b), x)
    <3>1. y.to \in Int /\ b.from \in Int /\ y.to <= b.from
      BY <1>1 DEF Pipe, Block, Times
    <3> QED
      BY <2>2, <3>1 DEF Span, P!Overlaps
  <2> QED
    BY <2>1, <2>2 DEF Busy, Spans
<1>9. Span(b) \notin old
  <2>1. ~P!Overlaps(Span(b), Span(b)) => FALSE
    BY <1>7 DEF P!Overlaps
  <2> QED
    BY <1>8, <2>1
<1>10. Plan[p] = old /\ Taken[p] = r.fixed /\ Plan'[p] = old \cup {Span(b)}
  BY <1>6 DEF Plan, Taken
<1>11. /\ Span(b) \in Plan'[p] \ Plan[p]
       /\ \A x \in Taken[p] \cup Plan[p] : ~P!Overlaps(Span(b), x)
  BY <1>8, <1>9, <1>10
<1> HIDE DEF old
<1> QED
  BY <1>3, <1>6, <1>7, <1>11 DEF P!Place, Taken, Plan

LEMMA NextMaps == IInv /\ [Next]_vars => [P!Next]_<<Taken, Plan>>
<1> SUFFICES ASSUME IInv, [Next]_vars PROVE P!Next \/ UNCHANGED <<Taken, Plan>>
  OBVIOUS
<1>1. ASSUME NEW p \in Procs, NEW t \in Ids, Edit(p, t) PROVE UNCHANGED <<Taken, Plan>>
  <2>1. PICK row \in Edits(rows[t]) :
          Set(p, [Idle EXCEPT !.step = "tasks", !.writes = [x \in {t} |-> row]])
    BY <1>1 DEF Edit
  <2>2. pipe[p].fixed = {} /\ pipe[p].placed = {} /\ pipe[p].mine = {}
    BY <1>1, Here DEF Edit, At, PipeOK, Tidy
  <2> QED
    BY <2>1, <2>2, Stutters DEF Idle
<1>2. ASSUME NEW p \in Procs, NEW t \in Ids, Next_(p, t) PROVE UNCHANGED <<Taken, Plan>>
  BY <1>2, Here, Stutters DEF Next_, Pipe
<1>3. ASSUME NEW p \in Procs, Disabled(p) \/ ReadTasks(p) PROVE UNCHANGED <<Taken, Plan>>
  BY <1>3, Here, Stutters DEF Disabled, ReadTasks, Pipe
<1>4. ASSUME NEW p \in Procs, Settle(p) PROVE UNCHANGED <<Taken, Plan>>
  <2> DEFINE s == [pipe[p] EXCEPT !.step = "next", !.placed = @ \cup pipe[p].mine,
                                  !.mine = {}, !.task = Nil]
  <2>1. Set(p, s) /\ s.fixed = pipe[p].fixed
        /\ s.placed \cup s.mine = pipe[p].placed \cup pipe[p].mine
    BY <1>4, Here DEF Settle, Pipe
  <2> QED
    BY <2>1, Stutters
<1>5. ASSUME NEW p \in Procs, Replace(p) PROVE UNCHANGED <<Taken, Plan>>
  BY <1>5, Here, Stutters DEF Replace, Pipe
<1>6. ASSUME NEW p \in Procs, ReadBlocks(p) PROVE P!Begin(p)
  <2> DEFINE F == FixedBy(pipe[p].read, blocks)
             s == [pipe[p] EXCEPT !.step = "next", !.fixed = F,
                     !.todo = {t \in DOMAIN pipe[p].read : Plannable(pipe[p].read[t])}]
  <2>1. PipeOK(pipe[p], rows) /\ pipe[p] \in Pipe /\ pipe[p].step = "blocks"
    BY <1>6, Here DEF ReadBlocks, At
  <2>2. pipe[p].placed = {} /\ pipe[p].mine = {}
    BY <2>1 DEF PipeOK, Tidy
  <2>3. F \subseteq Interval
    BY <2>1, FixedIsTime DEF Pipe, IInv, PlannerStored
  <2> HIDE DEF F
  <2>4. Set(p, s) /\ s.fixed = F /\ s.placed \cup s.mine = {}
    BY <1>6, <2>1, <2>2 DEF ReadBlocks, Pipe, F
  <2> HIDE DEF s
  <2>5. Plan[p] = {} /\ Taken' = [Taken EXCEPT ![p] = F] /\ Plan' = [Plan EXCEPT ![p] = {}]
    <3>1. /\ Taken' = [Taken EXCEPT ![p] = s.fixed]
          /\ Plan' = [Plan EXCEPT ![p] = Spans(s.placed \cup s.mine)]
      BY <2>4, SetMaps
    <3>2. Spans({}) = {}
      BY DEF Spans
    <3>3. Plan[p] = {}
      BY <2>2, <3>2 DEF Plan
    <3> QED
      BY <2>4, <3>1, <3>2, <3>3
  <2>6. Taken'[p] = F /\ Plan' = Plan
    BY <2>5 DEF Taken, Plan
  <2> QED
    BY <2>3, <2>5, <2>6 DEF P!Begin, Taken, Plan
<1>7. ASSUME NEW p \in Procs, Commit(p) \/ Abort(p) PROVE P!End(p)
  <2>1. Taken' = [Taken EXCEPT ![p] = {}] /\ Plan' = [Plan EXCEPT ![p] = {}]
    BY <1>7, SetMaps DEF Commit, Abort, Idle, Spans
  <2> QED
    BY <2>1 DEF P!End, Taken, Plan
<1>8. CASE SwitchHours \/ Tick \/ Finished \/ UNCHANGED vars
  BY <1>8 DEF SwitchHours, Tick, Finished, vars, Taken, Plan
<1>9. ASSUME NEW p \in Procs, Place(p) PROVE P!Place(p)
  BY <1>9, PlaceMaps
<1> QED
  BY <1>1, <1>2, <1>3, <1>4, <1>5, <1>6, <1>7, <1>8, <1>9 DEF Next, P!Next

\* Every plan of every request is a placement: in work time, on nothing known to
\* be taken and nowhere twice, however requests overlap, fail or give up
\* (SchedulingAlgorithm.run).
THEOREM Placements == Spec => PlansArePlacements
<1>1. Init => P!Init
  BY DEF Init, Idle, Spans, P!Init, P!Nothing
<1>2. IInv /\ [Next]_vars =>
        [P!Next]_<<[p \in Procs |-> pipe[p].fixed],
                   [p \in Procs |-> Spans(pipe[p].placed \cup pipe[p].mine)]>>
  BY NextMaps DEF Taken, Plan
<1> QED
  BY <1>1, <1>2, Invariance, PTL DEF Spec, PlansArePlacements, P!Spec
=============================================================================
