---------------------------- MODULE MCServices ----------------------------
(***************************************************************************)
(* Small instances of the services that do not change each other's state   *)
(* within a step, in one run: a scene is one of them, the others rest.     *)
(*                                                                         *)
(* Planner: an instant is two and a half minutes of a day of half an       *)
(* hour's night and twenty minutes' work.  Reminders: an instant is twenty *)
(* seconds.  SmartNotifier: an instant is half a day.                      *)
(***************************************************************************)
EXTENDS Planner, Sequences, TLC

CONSTANTS p1, p2, t1, t2, d1, u1, s1, e1,  \* processes, tasks, a device, a user, ...
          w1, w2, f1,                        \* words, a folder or project
          \* Reminders: the tasks, when they may start, ... and its bounds
          Reminded, Starts, LastInstant, Period, Ttl, SweepSpan, Devices, People, Owner, MaxMoves,
          SweepFaults,
          \* SmartNotifier: the sessions, the parts of a day, ... and its bounds
          Sessions, Parts, Week, Offset, LastPart, StreakDays, PeakCount, GoalCount, BreakMinutes,
          ShieldCount, Thresholds, MaxActs, SmartFaults,
          \* CalendarSync: the events with a task, and its bounds
          Mirrored, LastVersion, CalendarFaults,
          \* TaskQuery: the tasks, what they can be, what a client asks for, ... and its bound
          Listable, Variants, Filters, Sorts, ProjectWords, PageSize, BlankTerm, BadDate, QueryChanges,
          \* Chat: the sizes of a conversation, and its bounds
          ChatThreshold, ChatKeep, ChatExchanges, ChatFaults,
          \* Content: canvases, what is saved, ... and its bounds
          Drawings, Folders, DocTasks, Todos, Contents, MaxCanvases, FreeScene, ProScene,
          MaxMutations, ContentFaults,
          \* SignIn: lives, limits, ... and its bounds
          Emails, AccessLife, RefreshLife, LinkLife, RateLimit, RateWindow, Lives, Early, Margin,
          LastMinute, MaxVisits, SignInFaults

VARIABLES
  scene,
  \* Reminders
  clock, starts, notes, subs, lock, redis, sweep, sent, pushed, since, calm, moves, rFaults,
  \* SmartNotifier
  hour, tasks, sessions, told, held, mornings, up, run, pushes, repeated, overlapped, acts, sFaults,
  \* CalendarSync
  g, version, floor, linked, token, channel, throttle, sync, edit, kept, excused, cFaults,
  \* TaskQuery
  listed, view, changes,
  \* Chat
  conv, msgs, memories, convCopy, msgsCopy, chat, last, said, deleted, overwritten, messages,
  hFaults,
  \* Content
  doc, canvas, logged, made, pro, docCopy, life, request, auto, most, wasPro, slips, requests,
  wFaults,
  \* SignIn
  minute, known, grant, jar, links, hits, tokens, answers, visit, grants, passed, seen, given, visits,
  iFaults

rVars == <<clock, starts, notes, subs, lock, redis, sweep, sent, pushed, since, calm, moves, rFaults>>
sVars == <<hour, tasks, sessions, told, held, mornings, up, run, pushes, repeated, overlapped, acts,
           sFaults>>
cVars == <<g, version, floor, linked, token, channel, throttle, sync, edit, kept, excused, cFaults>>
qVars == <<listed, view, changes>>
hVars == <<conv, msgs, memories, convCopy, msgsCopy, chat, last, said, deleted, overwritten,
           messages, hFaults>>
wVars == <<doc, canvas, logged, made, pro, docCopy, life, request, auto, most, wasPro, slips,
           requests, wFaults>>
iVars == <<minute, known, grant, jar, links, hits, tokens, answers, visit, grants, passed, seen, given,
           visits, iFaults>>

MCThresholds == [k \in {"early_bird", "focus_master", "task_machine", "zero_distractions",
                        "week_warrior"} |-> 1]
MCContents == {<<>>, <<w2, Nil, w2>>}
\* The windows and lives differ, so that what ends first is seen to.
MCWindow == [k \in {"google-login", "magic-link-ip", "magic-link-email", "magic-verify"} |->
               IF k = "magic-link-ip" THEN 3 ELSE 2]
MCLimit == [k \in DOMAIN MCWindow |-> 1]
MCDrags == {[from |-> 4, to |-> 8], [from |-> 26, to |-> 30]}

R == INSTANCE Reminders WITH
    Ids <- Reminded, End <- LastInstant, MaxFaults <- SweepFaults,
    Users <- People, rows <- starts, faults <- rFaults
ASSUME RemindersAssumption ==
    /\ LastInstant \in Nat /\ Period \in Nat \ {0} /\ Ttl \in Nat \ {0} /\ Starts \subseteq Int
    /\ SweepSpan \in 1..Ttl  \* the lock outlives a sweep that is not slow
    /\ MaxMoves \in Nat /\ SweepFaults \in Nat /\ Owner \in People /\ Nil \notin Procs

S == INSTANCE SmartNotifier WITH
    End <- LastPart, MaxFaults <- SmartFaults, clock <- hour, notes <- told, lock <- held,
    redis <- up, faults <- sFaults
ASSUME SmartAssumption ==
    /\ Parts \in Nat \ {0} /\ Week \in Nat \ {0} /\ Offset \in Int /\ LastPart \in Nat
    /\ Parts <= LastPart /\ BreakMinutes \in Nat /\ ShieldCount \in Nat

C == INSTANCE CalendarSync WITH
    Events <- Mirrored, MaxVersion <- LastVersion, MaxFaults <- CalendarFaults, rows <- linked,
    faults <- cFaults
ASSUME CalendarAssumption ==
    /\ LastVersion \in Nat /\ CalendarFaults \in Nat
    /\ Nil \notin C!Row /\ Nil \notin C!Dates

\* Tasks that differ in what a filter or an order can tell apart, and lists to ask for.
Plain == [status |-> w1, workspace |-> Nil, project |-> Nil, level |-> 2, title |-> {w1}, notes |-> {},
          tags |-> {}, start |-> Nil, due |-> Nil, done |-> Nil, made |-> 1, google |-> FALSE,
          deleted |-> FALSE]
MCVariants == {Plain, [Plain EXCEPT !.due = 2, !.tags = {w2}],
               [Plain EXCEPT !.project = f1, !.level = 4, !.start = 3, !.tags = {w2}],
               [Plain EXCEPT !.google = TRUE], [Plain EXCEPT !.made = 2, !.notes = {w2}]}
Everything == [status |-> {}, workspace |-> Nil, project |-> Nil, hasProject |-> FALSE, levels |-> {},
               term |-> Nil, search |-> Nil, from |-> Nil, to |-> Nil, tags |-> {}]
MCFilters == {Everything, [Everything EXCEPT !.term = w2],
              [Everything EXCEPT !.tags = {w2}, !.search = w1],
              [Everything EXCEPT !.levels = {3}, !.hasProject = TRUE],
              [Everything EXCEPT !.from = 2, !.to = 5, !.term = 0]}
MCSorts == {Nil, [field |-> "due", desc |-> FALSE], [field |-> "made", desc |-> TRUE]}
MCWords == [p \in {f1} |-> {w2}]
Q == INSTANCE TaskQuery WITH
    Ids <- Listable, ProjectName <- ProjectWords, Limit <- PageSize, MaxChanges <- QueryChanges,
    Blank <- BlankTerm, Bad <- BadDate, rows <- listed
ASSUME QueryAssumption ==
    /\ IsFiniteSet(Listable) /\ Listable \subseteq Int /\ PageSize \in Nat \ {0}
    /\ QueryChanges \in Nat

H == INSTANCE Chat WITH
    Threshold <- ChatThreshold, Keep <- ChatKeep, MaxExchanges <- ChatExchanges,
    MaxFaults <- ChatFaults, copy <- convCopy, list <- msgsCopy, task <- chat, raced <- overwritten, left <- messages, faults <- hFaults
ASSUME ChatAssumption == ChatExchanges \in Nat /\ \A sum \in SUBSET H!Message : sum # Nil

W == INSTANCE Content WITH
    Docs <- Ids, Tasks <- DocTasks, MaxRequests <- MaxMutations, MaxFaults <- ContentFaults,
    copy <- docCopy, task <- request, left <- requests, faults <- wFaults
ASSUME ContentAssumption ==
    /\ IsFiniteSet(Drawings) /\ MaxCanvases \in Nat /\ FreeScene \in Nat /\ ProScene \in Nat
    /\ <<>> \in Contents /\ \A c \in Contents : IsFiniteSet(DOMAIN c)
    /\ Nil \notin W!Document /\ Nil \notin W!Canvas

I == INSTANCE SignIn WITH
    Clients <- Procs, Limit <- RateLimit, Window <- RateWindow, End <- LastMinute,
    MaxRequests <- MaxVisits, MaxFaults <- SignInFaults, clock <- minute, kept <- tokens, redis <- answers, task <- visit, left <- visits, faults <- iFaults
ASSUME SignInAssumption ==
    /\ AccessLife \in Nat \ {0} /\ RefreshLife \in Nat \ {0} /\ LinkLife \in Nat /\ LastMinute \in Nat
    /\ RateLimit \in [I!Scopes -> Nat \ {0}] /\ RateWindow \in [I!Scopes -> Nat \ {0}]
    /\ Nil \notin [n : Nat, until : Int]

-----------------------------------------------------------------------------
RestR == /\ clock = Nil /\ starts = Nil /\ notes = Nil /\ subs = Nil /\ lock = Nil /\ redis = Nil
         /\ sweep = Nil /\ sent = Nil /\ pushed = Nil /\ since = Nil /\ calm = Nil /\ moves = Nil
         /\ rFaults = Nil
RestS == /\ hour = Nil /\ tasks = Nil /\ sessions = Nil /\ told = Nil /\ held = Nil
         /\ mornings = Nil /\ up = Nil /\ run = Nil /\ pushes = Nil /\ repeated = Nil
         /\ overlapped = Nil /\ acts = Nil /\ sFaults = Nil
RestC == /\ g = Nil /\ version = Nil /\ floor = Nil /\ linked = Nil /\ token = Nil /\ channel = Nil
         /\ throttle = Nil /\ sync = Nil /\ edit = Nil /\ kept = Nil /\ excused = Nil /\ cFaults = Nil
RestQ == listed = Nil /\ view = Nil /\ changes = Nil
RestH == /\ conv = Nil /\ msgs = Nil /\ memories = Nil /\ convCopy = Nil /\ msgsCopy = Nil
         /\ chat = Nil /\ last = Nil /\ said = Nil /\ deleted = Nil /\ overwritten = Nil
         /\ messages = Nil /\ hFaults = Nil
RestW == /\ doc = Nil /\ canvas = Nil /\ logged = Nil /\ made = Nil /\ pro = Nil /\ docCopy = Nil
         /\ life = Nil /\ request = Nil /\ auto = Nil /\ most = Nil /\ wasPro = Nil /\ slips = Nil
         /\ requests = Nil /\ wFaults = Nil
RestI == /\ minute = Nil /\ known = Nil /\ grant = Nil /\ jar = Nil /\ links = Nil /\ hits = Nil
         /\ tokens = Nil /\ answers = Nil /\ visit = Nil /\ grants = Nil /\ passed = Nil /\ seen = Nil
         /\ given = Nil /\ visits = Nil /\ iFaults = Nil
\* The planner rests with nothing to plan.
RestP == /\ rows = [t \in Ids |-> Nil] /\ blocks = {} /\ enabled = FALSE /\ now = 0
         /\ pipe = [p \in Procs |-> Idle] /\ raced = FALSE /\ unplanned = {} /\ left = 0

ServicesInit ==
    /\ scene \in {"planner", "reminders", "smart", "calendar", "query", "chat", "content",
                 "signin"}
    /\ IF scene = "planner" THEN Init ELSE RestP
    /\ IF scene = "reminders" THEN R!Init ELSE RestR
    /\ IF scene = "smart" THEN S!Init ELSE RestS
    /\ IF scene = "calendar" THEN C!Init ELSE RestC
    /\ IF scene = "query" THEN Q!Init ELSE RestQ
    /\ IF scene = "chat" THEN H!Init ELSE RestH
    /\ IF scene = "content" THEN W!Init ELSE RestW
    /\ IF scene = "signin" THEN I!Init ELSE RestI

ServicesNext ==
    /\ UNCHANGED scene
    /\ \/ /\ scene = "planner" /\ Next
          /\ UNCHANGED <<rVars, sVars, cVars, qVars, hVars, wVars, iVars>>
       \/ /\ scene = "reminders" /\ R!Next
          /\ UNCHANGED <<vars, sVars, cVars, qVars, hVars, wVars, iVars>>
       \/ /\ scene = "smart" /\ S!Next
          /\ UNCHANGED <<vars, rVars, cVars, qVars, hVars, wVars, iVars>>
       \/ /\ scene = "calendar" /\ C!Next
          /\ UNCHANGED <<vars, rVars, sVars, qVars, hVars, wVars, iVars>>
       \/ /\ scene = "query" /\ Q!Next
          /\ UNCHANGED <<vars, rVars, sVars, cVars, hVars, wVars, iVars>>
       \/ /\ scene = "chat" /\ H!Next
          /\ UNCHANGED <<vars, rVars, sVars, cVars, qVars, wVars, iVars>>
       \/ /\ scene = "content" /\ W!Next
          /\ UNCHANGED <<vars, rVars, sVars, cVars, qVars, hVars, iVars>>
       \/ /\ scene = "signin" /\ I!Next
          /\ UNCHANGED <<vars, rVars, sVars, cVars, qVars, hVars, wVars>>

all == <<scene, vars, rVars, sVars, cVars, qVars, hVars, wVars, iVars>>
ServicesSpec == ServicesInit /\ [][ServicesNext]_all

\* Processes are interchangeable, and so are tasks and documents.
Symmetry == Permutations(Procs) \cup Permutations(Ids)

\* Bounds: a sweep meets a failure or an act of the user, not both; after a failure
\* one sync at a time, and while an edit is under way; no behaviour is followed past
\* what the calendar's properties excuse; a failure counts as one of the messages or
\* requests, and as two of those about signing in, which overlap while one waits for
\* a token of Google.
Bounds ==
    CASE scene = "reminders" -> moves + rFaults >= 1
      [] scene = "smart" -> acts + sFaults >= 1
      [] scene = "calendar" ->
            ~excused /\ (\/ Cardinality({p \in Procs : sync[p].step # "rest"}) <= 1
                         \/ cFaults = 1 /\ edit.step = "rest")
      [] scene = "chat" -> hFaults = 0 => messages > 0
      [] scene = "content" -> wFaults = 0 => requests > 0
      [] scene = "signin" ->
            /\ iFaults = 0 => visits > 1
            /\ LET busy == {c \in Procs : visit[c].step # "idle"} IN
               Cardinality(busy) <= 1 \/ \E c \in busy : visit[c].step = "google"
      [] OTHER -> TRUE

-----------------------------------------------------------------------------
(* The properties of the components, each in its scene; they are stated and   *)
(* explained in the components' modules.                                      *)

\* Every component's variables have the values their modules give them.
TypesOK ==
    CASE scene = "planner" -> TypeOK
      [] scene = "reminders" -> R!TypeOK
      [] scene = "smart" -> S!TypeOK
      [] scene = "calendar" -> C!TypeOK
      [] scene = "query" -> Q!TypeOK
      [] scene = "chat" -> H!TypeOK
      [] scene = "content" -> W!TypeOK
      [] scene = "signin" -> I!TypeOK

\* Nobody gets a reminder twice for the dates that an edit set last.
RemindedOnce == scene = "reminders" => R!RemindedOnce
\* Nobody misses the last reminder of a task.
RemindedInTime == scene = "reminders" => R!RemindedInTime
\* A reminder that was pushed is in the list of notifications.
PushedIsStored == scene = "reminders" => R!PushedIsStored
\* A smart notification is not stored again while the list has it, and one morning
\* push leaves a local day.
ToldOnce == scene = "smart" => S!ToldOnce /\ S!OneMorning
\* The changes a sync token claims are in the tasks.
TokenIsHonest == scene = "calendar" => C!TokenIsHonest
\* An estimated date whose push failed is not overwritten by Google's old one.
UnpushedStays == scene = "calendar" => C!UnpushedStays
\* The pages of a list show every task of it once.
PagesShowEverything == scene = "query" => Q!PagesShowEverything
\* What was said is stored or summarised.
NothingForgotten == scene = "chat" => H!NothingForgotten
\* A line of a document becomes one task.
OneTaskPerTodo == scene = "content" => W!OneTaskPerTodo
\* Documents, canvases and tasks stay linked, within the plan's limits, but for the
\* slips each part of it names.
DocumentsHold == scene = "content" => W!DocumentsHold
\* Limits, sessions and Google's tokens are as signing in promises.
SignInHolds == scene = "signin" => I!SignInHolds
=============================================================================
