----------------------------- MODULE TaskQuery -----------------------------
(***************************************************************************)
(* The task lists (TasksRepository.query_tasks_by_user): the filters as    *)
(* SQL conditions, the order, and the pages a client reads one after the   *)
(* other while tasks change.  A text is the set of words it contains.      *)
(***************************************************************************)
EXTENDS Integers, FiniteSets, Sequences, SequencesExt

CONSTANTS Ids,         \* numbers: ids are compared
          Variants,    \* rows a task can have
          Filters,     \* filters a client can send
          Sorts,       \* [field, desc], or Nil
          ProjectName, \* the words of each project's name
          Limit,       \* of a page
          MaxChanges,  \* bound: changes of tasks
          Blank,       \* a search term of spaces
          Bad,         \* a date that does not parse
          Nil

VARIABLES rows,     \* Postgres: the user's tasks
          view,     \* the list being read
          changes   \* still to come

vars == <<rows, view, changes>>

Closed == [step |-> "closed", filter |-> Nil, sort |-> Nil, offset |-> 0, total |-> 0,
           shown |-> <<>>,
           clean |-> TRUE]  \* history: nothing changed since it was opened

TypeOK ==
    /\ rows \in [Ids -> Variants \cup {Nil}]
    /\ view.step \in {"closed", "count", "items", "end"}
    /\ view.offset \in Nat /\ view.total \in 0..Cardinality(Ids)
    /\ \A i \in DOMAIN view.shown : view.shown[i] \in Ids
    /\ changes \in 0..MaxChanges

-----------------------------------------------------------------------------
(* The conditions.  A filter that is Nil asks for nothing. *)

\* Not deleted, and not an event of Google's.
Listed == {t \in Ids : rows[t] # Nil /\ ~rows[t].deleted /\ ~rows[t].google}

\* From level three on, every higher one is meant.
LevelIn(level, levels) ==
    level \in levels \/ (level >= 3 /\ \E l \in levels : l >= 3)

\* search_term_condition
Mentions(r, term) ==
    term \in r.title \cup r.notes \cup r.tags
             \cup IF r.project = Nil THEN {} ELSE ProjectName[r.project]

\* coalesce(estimated_start_date, deadline, completedAt, createdAt)
EffectiveDate(r) ==
    IF r.start # Nil THEN r.start ELSE IF r.due # Nil THEN r.due
    ELSE IF r.done # Nil THEN r.done ELSE r.made

\* parse_filter_date gives None for what it cannot read.
Given(date) == date \notin {Nil, Bad}

\* A tag of the task is among those asked for, as a whole (filter_tags_only).
HasTag(r, tags) == r.tags \cap tags # {}

\* The WHERE; a list of categories is asked for as one of statuses is.
InSql(r, f) ==
    /\ f.status # {} => r.status \in f.status
    /\ f.workspace # Nil => r.workspace = f.workspace
    /\ f.project # Nil => r.project = f.project
    /\ f.hasProject => r.project # Nil
    /\ f.levels # {} => LevelIn(r.level, f.levels)
    /\ f.term \notin {Nil, Blank} => Mentions(r, f.term)
    /\ f.search \notin {Nil, Blank} => f.search \in r.title
    /\ Given(f.from) => EffectiveDate(r) >= f.from
    /\ Given(f.to) => EffectiveDate(r) <= f.to

Candidates(f) == {t \in Listed : InSql(rows[t], f)}
Matching(f) == {t \in Candidates(f) : f.tags # {} => HasTag(rows[t], f.tags)}

-----------------------------------------------------------------------------
(* The order *)

\* ORDER BY: what the user sorts by, the newest first, missing values last.
Keys(sort) ==
    IF sort = Nil THEN <<[field |-> "made", desc |-> TRUE]>>
    ELSE IF sort.field = "made" THEN <<sort>>
    ELSE <<sort, [field |-> "made", desc |-> TRUE]>>

Column(t, key) == rows[t][key.field]
Earlier(a, b, key) ==
    LET x == Column(a, key)  y == Column(b, key) IN
    /\ x # Nil
    /\ y = Nil \/ IF key.desc THEN x > y ELSE x < y

\* Slip: nothing settles a tie.
ByKeys(a, b, sort) ==
    \E i \in DOMAIN Keys(sort) :
        /\ Earlier(a, b, Keys(sort)[i])
        /\ \A j \in 1..(i - 1) : Column(a, Keys(sort)[j]) = Column(b, Keys(sort)[j])

\* The id settles it.
Before(a, b, sort) ==
    \/ ByKeys(a, b, sort)
    \/ a < b /\ ~ByKeys(b, a, sort)

\* The answers Postgres may give: a tie the ORDER BY leaves open falls either way.
Answers(S, sort) ==
    {s \in SetToSeqs(S) : \A i, j \in DOMAIN s : i < j => ~Before(s[j], s[i], sort)}

-----------------------------------------------------------------------------
(* A client reads a list, page by page *)

Init ==
    /\ rows \in [Ids -> Variants \cup {Nil}]
    /\ view = Closed /\ changes = MaxChanges

\* The list is opened, or refreshed.
Open(f, sort) ==
    /\ view.step = "closed"
    /\ view' = [Closed EXCEPT !.step = IF f.tags = {} THEN "count" ELSE "items",
                              !.filter = f, !.sort = sort]
    /\ UNCHANGED <<rows, changes>>

\* SELECT count(*), a statement of its own.
Count ==
    /\ view.step = "count"
    /\ view' = [view EXCEPT !.step = "items", !.total = Cardinality(Matching(view.filter))]
    /\ UNCHANGED <<rows, changes>>

Page(s) ==
    LET last == view.offset + Limit IN
    SubSeq(s, view.offset + 1, IF last <= Len(s) THEN last ELSE Len(s))

\* The client asks for more while there is more (hasMore).
Shown(page, total) ==
    [view EXCEPT !.shown = @ \o page, !.total = total, !.offset = @ + Limit,
                 !.step = IF view.offset + Limit >= total THEN "end"
                          ELSE IF view.filter.tags = {} THEN "count" ELSE "items"]

\* OFFSET and LIMIT in SQL.
ItemsOfSql ==
    /\ view.step = "items" /\ view.filter.tags = {}
    /\ \E s \in Answers(Candidates(view.filter), view.sort) :
        view' = Shown(Page(s), view.total)
    /\ UNCHANGED <<rows, changes>>

\* With tags: every candidate is read, in order; those that match keep it and are
\* counted and cut.
ItemsWithTags ==
    /\ view.step = "items" /\ view.filter.tags # {}
    /\ \E filtered \in Answers(Matching(view.filter), view.sort) :
        view' = Shown(Page(filtered), Len(filtered))
    /\ UNCHANGED <<rows, changes>>

Close ==
    /\ view.step = "end" /\ view' = Closed
    /\ UNCHANGED <<rows, changes>>

\* Another request writes a task.
Change(t, row) ==
    /\ changes > 0 /\ rows[t] # row
    /\ rows' = [rows EXCEPT ![t] = row] /\ changes' = changes - 1
    /\ view' = [view EXCEPT !.clean = (view.step = "closed")]

Next ==
    \/ \E f \in Filters, sort \in Sorts : Open(f, sort)
    \/ Count \/ ItemsOfSql \/ ItemsWithTags \/ Close
    \/ \E t \in Ids, row \in Variants \cup {Nil} : Change(t, row)

Spec == Init /\ [][Next]_vars

-----------------------------------------------------------------------------
(* Properties *)

\* The pages of a list show every task that matches once, and the total says how
\* many they are, as long as no task changes in between: each page is a query of
\* its own, so its order must leave no tie open ("ORDER BY determinista").
PagesShowEverything ==
    view.clean =>
        /\ IsInjective(view.shown)
        /\ view.step = "end" =>
            /\ {view.shown[i] : i \in DOMAIN view.shown} = Matching(view.filter)
            /\ view.total = Len(view.shown)
=============================================================================
