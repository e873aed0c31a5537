------------------------------ MODULE Content ------------------------------
(***************************************************************************)
(* Documents ("workspaces"), the drawings in them ("canvases") and the     *)
(* tasks made of the TODO lines of a document that was saved               *)
(* (modules/workspace, canvas and automation).  A mutation is one          *)
(* transaction; documents have copies in Redis, set and deleted before it  *)
(* commits; the automation runs after the answer, in a session of its own. *)
(* Titles, looks, images and previews are left out, and so are the folders *)
(* ("project groups") but for what their removal does to the documents.    *)
(***************************************************************************)
EXTENDS Integers, FiniteSets

CONSTANTS Procs,        \* requests
          Docs, Drawings, Folders, Tasks, Todos,
          Contents,     \* what is saved: blocks, each a TODO's title or Nil
          MaxCanvases,  \* Free's canvases
          FreeScene,    \* the largest scene of Free
          ProScene,     \* and of Pro: the schema's
          MaxRequests,  \* bound: requests, and changes of the plan
          MaxFaults,    \* bound: failures and crashes
          Nil

VARIABLES doc,     \* Postgres: Workspace
          canvas,  \* Postgres: Canvas
          logged,  \* Postgres: AutomationLog
          made,    \* Postgres: how many tasks a line of a document became
          pro,     \* the user's plan
          copy,    \* Redis: workspace:id:<id>
          life,    \* ids of documents: "none", "born" in a request, "known" to the client
          task,    \* what each request is doing
          auto,    \* the automation each request left behind
          most,    \* history: how often a line was in one saved document
          wasPro,  \* history
          slips,   \* history: requests that overlapped in a way nothing prevents, and
                  \* "failed": an update that did not commit, whose copy stays
          left, faults

vars == <<doc, canvas, logged, made, pro, copy, life, task, auto, most, wasPro, slips, left, faults>>
stored == <<doc, canvas, life, pro, wasPro>>
robot == <<logged, made, auto, most>>

\* Workspace, but for what it looks like.
Document == [task : Tasks \cup {Nil}, folder : Folders \cup {Nil}, content : Contents]
Canvas == [doc : Docs \cup {Nil}, scene : 0..ProScene]

Idle == [op |-> "none", step |-> "idle",
         doc |-> Nil, canvas |-> Nil,
         set |-> <<>>,         \* the input: the fields it sets
         obj |-> Nil, detached |-> FALSE, base |-> Nil, \* as in module Chat
         docs |-> <<>>, canvases |-> <<>>]  \* rows written and locked, not committed

TypeOK ==
    /\ doc \in [Docs -> Document \cup {Nil}] /\ copy \in [Docs -> Document \cup {Nil}]
    /\ canvas \in [Drawings -> Canvas \cup {Nil}]
    /\ logged \subseteq Docs \X Todos
    /\ made \in [Docs \X Todos -> Nat] /\ most \in [Docs \X Todos -> Nat]
    /\ pro \in BOOLEAN /\ wasPro \in BOOLEAN
    /\ life \in [Docs -> {"none", "born", "known"}]
    /\ slips \subseteq {"stale", "take", "count", "scan", "failed"}
    /\ \A p \in Procs :
        /\ \A d \in DOMAIN task[p].docs : task[p].docs[d] \in Document \cup {Nil}
        /\ \A c \in DOMAIN task[p].canvases : task[p].canvases[c] \in Canvas \cup {Nil}

Init ==
    /\ doc = [d \in Docs |-> Nil] /\ copy = doc /\ life = [d \in Docs |-> "none"]
    /\ canvas = [c \in Drawings |-> Nil]
    /\ logged = {} /\ made = [x \in Docs \X Todos |-> 0] /\ most = made
    /\ pro = FALSE /\ wasPro = FALSE
    /\ task = [p \in Procs |-> Idle] /\ auto = [p \in Procs |-> Nil]
    /\ slips = {} /\ left = MaxRequests /\ faults = MaxFaults

-----------------------------------------------------------------------------
At(p, op, step) == task[p].op = op /\ task[p].step = step
Set(p, r) == task' = [task EXCEPT ![p] = r]
Fault == faults > 0 /\ faults' = faults - 1
Others(p) == Procs \ {p}

\* Nobody else has written these rows and not committed.
DocsFree(p, D) == \A q \in Others(p) : DOMAIN task[q].docs \cap D = {}
CanvasesFree(p, C) == \A q \in Others(p) : DOMAIN task[q].canvases \cap C = {}

CanvasesOf(D) == {c \in Drawings : canvas[c] # Nil /\ canvas[c].doc \in D}
Gone(S) == [x \in S |-> Nil]

\* One function over another.
Over(f, g) == [x \in DOMAIN f \cup DOMAIN g |-> IF x \in DOMAIN f THEN f[x] ELSE g[x]]

\* Requests about what the client knows.
Start(p) ==
    /\ task[p].step = "idle" /\ left > 0 /\ left' = left - 1
    /\ \/ \E d \in Docs, t \in Tasks \cup {Nil}, f \in Folders \cup {Nil} :
            /\ life[d] = "none" /\ life' = [life EXCEPT ![d] = "born"]
            /\ Set(p, [Idle EXCEPT !.op = "create", !.step = "flush", !.doc = d,
                                   !.obj = [task |-> t, folder |-> f, content |-> <<>>]])
       \/ \E d \in Docs :
            /\ life[d] = "known" /\ UNCHANGED life
            /\ \/ \E s \in [{"task"} -> Tasks] \cup [{"content"} -> Contents] :
                    Set(p, [Idle EXCEPT !.op = "update", !.step = "find", !.doc = d, !.set = s])
               \/ Set(p, [Idle EXCEPT !.op = "remove", !.step = "find", !.doc = d])
       \/ \E f \in Folders :
            /\ UNCHANGED life
            /\ Set(p, [Idle EXCEPT !.op = "clear", !.step = "write", !.set = f])
       \/ \E d \in Docs \cup {Nil} :
            /\ d # Nil => life[d] = "known"
            /\ UNCHANGED life
            /\ Set(p, [Idle EXCEPT !.op = "draw", !.step = "count", !.doc = d])
       \/ \E c \in Drawings :
            /\ canvas[c] # Nil /\ UNCHANGED life
            /\ \/ \E n \in 0..ProScene :
                    Set(p, [Idle EXCEPT !.op = "paint", !.step = "find", !.canvas = c, !.set = n])
               \/ Set(p, [Idle EXCEPT !.op = "erase", !.step = "write", !.canvas = c])
    /\ UNCHANGED <<doc, canvas, pro, wasPro, copy, robot, slips, faults>>

-----------------------------------------------------------------------------
(* Documents *)

\* WorkspacesRepository.create
Create(p) ==
    LET r == task[p] IN
    /\ At(p, "create", "flush")
    /\ Set(p, [r EXCEPT !.docs = [d \in {r.doc} |-> r.obj], !.step = "commit"])
    /\ copy' = [copy EXCEPT ![r.doc] = r.obj]
    /\ slips' = IF r.obj.task = Nil THEN slips ELSE slips \cup {"take"}
    /\ UNCHANGED <<stored, robot, left, faults>>

\* What a request does with the document it found.
Use(r) == CASE r.op = "update" /\ "task" \in DOMAIN r.set -> "release"
              [] r.op = "update" /\ "task" \notin DOMAIN r.set -> "merge"
              [] r.op = "remove" -> "write"
              [] r.op = "draw" -> "insert"

\* get_by_id: the copy, else the row, which is then copied ("not found").
Find(p) ==
    LET r == task[p] IN
    /\ r.step = "find" /\ r.op # "paint"
    /\ Set(p, CASE copy[r.doc] # Nil ->
                    [r EXCEPT !.obj = copy[r.doc], !.detached = TRUE, !.step = Use(r)]
                [] copy[r.doc] = Nil /\ doc[r.doc] # Nil ->
                    [r EXCEPT !.obj = doc[r.doc], !.base = doc[r.doc], !.step = "fill"]
                [] OTHER -> Idle)
    /\ UNCHANGED <<stored, robot, copy, slips, left, faults>>

\* A copy of a row that another request has written and not committed is stale
\* once it does.
Fill(p) ==
    LET r == task[p] IN
    /\ r.step = "fill"
    /\ copy' = [copy EXCEPT ![r.doc] = r.obj]
    /\ Set(p, [r EXCEPT !.step = Use(r)])
    /\ slips' = IF DocsFree(p, {r.doc}) THEN slips ELSE slips \cup {"stale"}
    /\ UNCHANGED <<stored, robot, left, faults>>

\* release_taskId_for_other_workspaces: the rows, and every document's copy.
Released(p) == {d \in Docs \ {task[p].doc} : doc[d] # Nil /\ doc[d].task = task[p].set["task"]}

Release(p) ==
    /\ At(p, "update", "release") /\ DocsFree(p, Released(p))
    /\ Set(p, [task[p] EXCEPT !.docs = [d \in Released(p) |-> [doc[d] EXCEPT !.task = Nil]],
                              !.step = "merge"])
    /\ copy' = Gone(Docs)
    /\ UNCHANGED <<stored, robot, slips, left, faults>>

\* The fields that were set; a detached object is merged into what is stored now.
Merge(p) ==
    LET r == task[p] IN
    /\ At(p, "update", "merge")
    /\ Set(p, [r EXCEPT !.obj = Over(r.set, r.obj), !.step = "flush",
                        !.base = IF r.detached THEN doc[r.doc] ELSE r.base])
    /\ UNCHANGED <<stored, robot, copy, slips, left, faults>>

\* detect_todos: how often a line is among the blocks.
Detected(blocks) == [t \in Todos |-> Cardinality({i \in DOMAIN blocks : blocks[i] = t})]

\* The automation of a document with these lines.
Automation(p, d, lines) ==
    /\ auto' = [auto EXCEPT ![p] = [doc |-> d, rest |-> lines, new |-> [t \in Todos |-> 0]]]
    /\ most' = [x \in Docs \X Todos |->
                  IF x[1] = d /\ lines[x[2]] > most[x] THEN lines[x[2]] ELSE most[x]]

\* The UPDATE writes the fields that differ; a row that is gone is inserted again
\* if it was not there to merge with, and refused otherwise.  An update of the
\* content starts the automation, before the transaction commits.
Flush(p) ==
    LET r == task[p]
        row == IF r.base = Nil \/ doc[r.doc] = Nil THEN r.obj
               ELSE [f \in DOMAIN r.obj |-> IF r.obj[f] # r.base[f] THEN r.obj[f]
                                            ELSE doc[r.doc][f]]
    IN /\ At(p, "update", "flush") /\ DocsFree(p, {r.doc})
       /\ IF doc[r.doc] = Nil /\ r.base # Nil
          THEN Set(p, Idle) /\ UNCHANGED <<copy, auto, most>>
          ELSE /\ "content" \in DOMAIN r.set => auto[p] = Nil  \* bound: one for each
               /\ Set(p, [r EXCEPT !.docs = Over(r.docs, [d \in {r.doc} |-> row]), !.step = "commit"])
               /\ copy' = [copy EXCEPT ![r.doc] = row]
               /\ IF "content" \in DOMAIN r.set
                  THEN Automation(p, r.doc, Detected(row.content))
                  ELSE UNCHANGED <<auto, most>>
       /\ UNCHANGED <<stored, logged, made, slips, left, faults>>

\* Slip: the copy of the document stays.
KeepsCopy(d) == copy

\* WorkspacesRepository.delete
DropCopy(d) == [copy EXCEPT ![d] = Nil]

\* WorkspacesService.remove: its canvases, then the row.
Remove(p) ==
    LET r == task[p] IN
    /\ At(p, "remove", "write")
    /\ DocsFree(p, {r.doc}) /\ CanvasesFree(p, CanvasesOf({r.doc}))
    /\ IF doc[r.doc] = Nil
       THEN Set(p, Idle) /\ UNCHANGED copy
       ELSE /\ Set(p, [r EXCEPT !.docs = Gone({r.doc}), !.canvases = Gone(CanvasesOf({r.doc})),
                                !.step = "commit"])
            /\ copy' = DropCopy(r.doc)
    /\ UNCHANGED <<stored, robot, slips, left, faults>>

\* ProjectGroupsService.remove: the folder's documents and their canvases.
Clear(p) ==
    LET D == {d \in Docs : doc[d] # Nil /\ doc[d].folder = task[p].set} IN
    /\ At(p, "clear", "write")
    /\ DocsFree(p, D) /\ CanvasesFree(p, CanvasesOf(D))
    /\ Set(p, [task[p] EXCEPT !.docs = Gone(D), !.canvases = Gone(CanvasesOf(D)), !.step = "commit"])
    /\ copy' = Gone(Docs)
    /\ UNCHANGED <<stored, robot, slips, left, faults>>

-----------------------------------------------------------------------------
(* Canvases *)

\* count_by_user against the plan's canvases.
MayDraw == pro \/ Cardinality({c \in Drawings : canvas[c] # Nil}) < MaxCanvases

\* CanvasService.create ("canvas_limit_reached")
Count(p) ==
    /\ At(p, "draw", "count")
    /\ Set(p, IF ~MayDraw THEN Idle
              ELSE [task[p] EXCEPT !.step = IF task[p].doc = Nil THEN "insert" ELSE "find"])
    /\ UNCHANGED <<stored, robot, copy, slips, left, faults>>

\* A new id: which one does not matter.
Unused(p) == {c \in Drawings : canvas[c] = Nil /\ CanvasesFree(p, {c})}

Draw(p) ==
    /\ At(p, "draw", "insert")
    /\ Unused(p) # {}
    /\ LET c == CHOOSE c \in Unused(p) : TRUE IN
       Set(p, [task[p] EXCEPT !.canvases = [x \in {c} |-> [doc |-> task[p].doc, scene |-> 0]],
                              !.step = "commit"])
    /\ UNCHANGED <<stored, robot, copy, slips, left, faults>>

\* CanvasService.update: a scene past the limit may be saved while it does not grow.
Paint(p) ==
    LET r == task[p]
        free == IF pro THEN ProScene ELSE FreeScene
    IN /\ At(p, "paint", "find")
       /\ Set(p, IF canvas[r.canvas] = Nil \/ (r.set > free /\ r.set > canvas[r.canvas].scene)
                 THEN Idle
                 ELSE [r EXCEPT !.step = "write"])
       /\ UNCHANGED <<stored, robot, copy, slips, left, faults>>

\* The UPDATE or the DELETE of a canvas; one that is gone cannot be saved.
Write(p) ==
    LET r == task[p] IN
    /\ r.op \in {"paint", "erase"} /\ r.step = "write"
    /\ CanvasesFree(p, {r.canvas})
    /\ Set(p, IF canvas[r.canvas] = Nil THEN Idle
              ELSE [r EXCEPT !.step = "commit",
                             !.canvases = [c \in {r.canvas} |->
                                 IF r.op = "erase" THEN Nil
                                 ELSE [canvas[c] EXCEPT !.scene = r.set]]])
    /\ UNCHANGED <<stored, robot, copy, slips, left, faults>>

-----------------------------------------------------------------------------
(* The end of a request *)

\* What another request read before this commit and will still use.
Overlap(p) ==
    LET r == task[p] IN
    { kind \in {"stale", "take", "count"} : \E q \in Others(p) :
        LET s == task[q] IN
        CASE kind = "stale" -> \/ s.doc \in DOMAIN r.docs /\ s.obj # Nil
                               \/ r.op = "draw" /\ r.doc \in DOMAIN s.docs
          [] kind = "take" -> r.op = "update" /\ s.op = "update" /\ r.set = s.set
                              /\ "task" \in DOMAIN r.set /\ s.step # "release"
          [] kind = "count" -> r.op = "draw" /\ s.op = "draw" /\ s.step # "count" }

Commit(p) ==
    LET r == task[p] IN
    /\ r.step = "commit"
    /\ doc' = Over(r.docs, doc) /\ canvas' = Over(r.canvases, canvas)
    /\ life' = IF r.op = "create" THEN [life EXCEPT ![r.doc] = "known"] ELSE life
    /\ slips' = slips \cup Overlap(p)
    /\ Set(p, Idle)
    /\ UNCHANGED <<pro, wasPro, robot, copy, left, faults>>

\* Rolled back, by an error, a deadlock or a crash; the copy of an update stays,
\* and the next update of the document merges it.
Fail(p) ==
    /\ task[p].step # "idle"
    /\ Fault
    /\ Set(p, Idle)
    /\ slips' = IF At(p, "update", "commit") THEN slips \cup {"failed"} ELSE slips
    /\ UNCHANGED <<stored, robot, copy, left>>

\* Billing changes the plan.
PlanChanges ==
    /\ left > 0 /\ left' = left - 1
    /\ pro' = ~pro /\ wasPro' = TRUE
    /\ UNCHANGED <<doc, canvas, life, robot, copy, task, slips, faults>>

-----------------------------------------------------------------------------
(* run_todo_automation *)

\* Slip: only the lines of this save.
NotYet(d, t) == FALSE

\* Looked up in AutomationLog.
Processed(d, t) == <<d, t>> \in logged

\* One SELECT for each line, in any order; nothing is written until all have been
\* looked up.
Scan(p) ==
    LET a == auto[p] IN
    /\ a # Nil
    /\ \E t \in Todos :
        /\ a.rest[t] > 0
        /\ auto' = [auto EXCEPT ![p].rest[t] = @ - 1,
                                ![p].new[t] = IF Processed(a.doc, t) THEN @ ELSE @ + 1]
    /\ UNCHANGED <<stored, logged, made, most, copy, task, slips, left, faults>>

\* The lines that are to be tasks.
Found(a) == {t \in Todos : a.new[t] > 0}

\* The tasks and their log, in one commit; or it fails and nothing is said.
Automate(p) ==
    LET a == auto[p] IN
    /\ a # Nil /\ \A t \in Todos : a.rest[t] = 0
    /\ \/ /\ made' = [x \in Docs \X Todos |->
                        made[x] + IF x[1] = a.doc THEN a.new[x[2]] ELSE 0]
          /\ logged' = logged \cup {a.doc} \X Found(a)
          /\ slips' = IF Found(a) # {} /\ \E q \in Others(p) : auto[q] # Nil /\ auto[q].doc = a.doc
                      THEN slips \cup {"scan"} ELSE slips
          /\ UNCHANGED faults
       \/ Fault /\ UNCHANGED <<made, logged, slips>>
    /\ auto' = [auto EXCEPT ![p] = Nil]
    /\ UNCHANGED <<stored, most, copy, task, left>>

Next ==
    \/ \E p \in Procs :
        \/ Start(p) \/ Create(p) \/ Find(p) \/ Fill(p) \/ Release(p) \/ Merge(p) \/ Flush(p)
        \/ Remove(p) \/ Clear(p) \/ Count(p) \/ Draw(p) \/ Paint(p) \/ Write(p)
        \/ Commit(p) \/ Fail(p) \/ Scan(p) \/ Automate(p)
    \/ PlanChanges

Spec == Init /\ [][Next]_vars

-----------------------------------------------------------------------------
(* Properties *)

\* A line becomes no more tasks than the times it was in one saved document, for
\* as long as two automations of a document do not run at once ("Guarda el hash
\* en AutomationLog para no repetirlo").
OneTaskPerTodo == "scan" \in slips \/ \A x \in Docs \X Todos : made[x] <= most[x]

\* Free's canvases are as many and as large as its limits, but for two that are
\* created at once.
WithinLimits ==
    wasPro \/ /\ \A c \in Drawings : canvas[c] # Nil => canvas[c].scene <= FreeScene
              /\ "count" \in slips \/ Cardinality({c \in Drawings : canvas[c] # Nil}) <= MaxCanvases

\* No canvas outlives its document, whatever fails and whatever the copies in
\* Redis say, unless a request works with a document that another has just
\* changed ("stale").
CanvasesHaveDocuments ==
    "stale" \in slips \/ \A c \in Drawings :
        canvas[c] # Nil /\ canvas[c].doc # Nil => doc[canvas[c].doc] # Nil

TaskHasOneDocument ==
    \A d, e \in Docs :
        d # e /\ doc[d] # Nil /\ doc[e] # Nil /\ doc[d].task = doc[e].task => doc[d].task = Nil

\* A task has one document, unless one was created with the task of another or
\* two took it at once ("take"), a request worked with what another had just
\* changed ("stale"), or an update failed as it committed ("failed"): its copy
\* keeps the task it did not get, and the document's next update merges that copy and
\* takes the task without releasing it from the others.
OneDocument == slips \cap {"stale", "take", "failed"} # {} \/ TaskHasOneDocument

\* What requests leave in the two tables: the plan's limits, canvases that have
\* their documents, and a task's one document, each but for the slips it names.
DocumentsHold == WithinLimits /\ CanvasesHaveDocuments /\ OneDocument
=============================================================================
