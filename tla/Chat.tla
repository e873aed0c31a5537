-------------------------------- MODULE Chat --------------------------------
(***************************************************************************)
(* A conversation with the assistant (ai/routes/ai.py): each message is    *)
(* stored, answered by a stream that outlives its client, the answer is    *)
(* stored, facts about the user are remembered, and when the conversation  *)
(* is long a summary replaces its older messages (summarizer.py).  The     *)
(* conversation and its messages have copies in Redis.  What a message     *)
(* costs is module UsageMeter's; one-shot requests store nothing.          *)
(***************************************************************************)
EXTENDS Integers, FiniteSets

CONSTANTS Procs,         \* requests and their background tasks
          Threshold,     \* messages a conversation may hold: 20
          Keep,          \* the last ones, never summarised: 5
          MaxExchanges,  \* bound: messages of the user, and deletions
          MaxFaults,     \* bound: statements that fail, crashes, failing answers
          Nil

VARIABLES conv,     \* Postgres: the conversation: the messages its summary covers, or Nil
          msgs,     \* Postgres: its messages, numbered as they were written
          memories, \* Postgres: messages something was remembered of
          copy,     \* Redis: conversation:id:<id>
          list,     \* Redis: conversation:messages:<id>
          task,     \* what each process is doing
          last,     \* the last number given
          said,     \* history: messages that were committed
          deleted,  \* history: a deletion was answered
          raced,    \* history: a summary was committed over what another had read
          left, faults

vars == <<conv, msgs, memories, copy, list, task, last, said, deleted, raced, left, faults>>
stored == <<conv, msgs, memories, said, deleted>>
cached == <<copy, list>>

Message == 1..(2 * MaxExchanges)
Idle == [step |-> "idle", kind |-> "chat",
         conv |-> Nil,       \* the Conversation object: its summary
         detached |-> FALSE, \* it came from Redis
         base |-> Nil,       \* what the session believes is stored
         list |-> {},        \* the messages as they were read
         adds |-> {}, drops |-> {}, \* rows written, not committed
         sum |-> Nil]        \* the conversation's row, written and not committed

TypeOK ==
    /\ conv \in (SUBSET Message) \cup {Nil} /\ copy \in (SUBSET Message) \cup {Nil}
    /\ msgs \subseteq Message /\ said \subseteq Message /\ memories \subseteq Message
    /\ list \in (SUBSET Message) \cup {Nil}
    /\ last \in 0..(2 * MaxExchanges)
    /\ deleted \in BOOLEAN /\ raced \in BOOLEAN
    /\ \A p \in Procs :
        /\ task[p].kind \in {"new", "chat", "look", "reply", "fold", "delete"}
        /\ task[p].adds \subseteq Message /\ task[p].drops \subseteq Message
        /\ task[p].sum \in (SUBSET Message) \cup {Nil}

Init ==
    /\ conv = Nil /\ msgs = {} /\ memories = {} /\ copy = Nil /\ list = Nil
    /\ task = [p \in Procs |-> Idle] /\ last = 0
    /\ said = {} /\ deleted = FALSE /\ raced = FALSE
    /\ left = MaxExchanges /\ faults = MaxFaults

-----------------------------------------------------------------------------
(* The repositories *)

At(p, step) == task[p].step = step
Set(p, r) == task' = [task EXCEPT ![p] = r]
Fault == faults > 0 /\ faults' = faults - 1

\* The conversation's row is written by somebody else, not committed.
RowFree(p) == \A q \in Procs \ {p} : task[q].sum = Nil

\* What a process does with the conversation it read.
Reading(r) == CASE r.kind = "look" -> "history" [] r.kind = "fold" -> "generate" [] OTHER -> "say"

\* ConversationRepository.get_by_id: the copy, else the row, which is then copied
\* ("Conversation not found").
GetById(p) ==
    LET r == task[p] IN
    Set(p, CASE copy # Nil -> [r EXCEPT !.conv = copy, !.detached = TRUE, !.step = Reading(r)]
             [] copy = Nil /\ conv # Nil -> [r EXCEPT !.conv = conv, !.base = conv, !.step = "fill"]
             [] OTHER -> Idle)

FillCopy(p) ==
    /\ At(p, "fill")
    /\ copy' = task[p].conv
    /\ Set(p, [task[p] EXCEPT !.step = Reading(task[p])])
    /\ UNCHANGED <<stored, list, last, raced, left, faults>>

\* get_by_conversation_id: the copy, else the rows, which are copied (at once here:
\* a copy that is older than it need be can also be read between a write and its
\* commit).
Listed == IF list # Nil THEN list ELSE msgs
FillList == list' = Listed

\* MessageRepository.create: the list goes before the commit.
Create(p, step) ==
    /\ last' = last + 1
    /\ Set(p, [task[p] EXCEPT !.adds = {last + 1}, !.step = step])
    /\ list' = Nil

-----------------------------------------------------------------------------
(* POST /ai/chat, and GET /ai/conversations/{id}/messages ("look") *)

Start(p) ==
    /\ At(p, "idle") /\ left > 0 /\ left' = left - 1
    /\ \E k \in {"new", "chat", "look"} :
        /\ k = "new" <=> said = {}
        /\ Set(p, [Idle EXCEPT !.step = "open", !.kind = k])
    /\ UNCHANGED <<stored, cached, last, raced, faults>>

\* A new conversation; the client knows its id once it is answered.
New(p) ==
    /\ At(p, "open") /\ task[p].kind = "new"
    /\ IF conv = Nil /\ RowFree(p) /\ ~deleted
       THEN Set(p, [task[p] EXCEPT !.step = "say", !.sum = {}]) /\ copy' = {}
       ELSE Set(p, Idle) /\ UNCHANGED copy   \* another conversation: not modelled
    /\ UNCHANGED <<stored, list, last, raced, left, faults>>

Open(p) ==
    /\ At(p, "open") /\ task[p].kind # "new"
    /\ GetById(p)
    /\ UNCHANGED <<stored, cached, last, raced, left, faults>>

Say(p) ==
    /\ At(p, "say")
    /\ Create(p, IF task[p].kind = "new" THEN "commit" ELSE "merge")
    /\ UNCHANGED <<stored, copy, raced, left, faults>>

\* save: a detached object is merged into what is stored now.
Merge(p) ==
    /\ At(p, "merge")
    /\ Set(p, [task[p] EXCEPT !.step = "flush", !.base = IF task[p].detached THEN conv ELSE @])
    /\ UNCHANGED <<stored, cached, last, raced, left, faults>>

\* The UPDATE writes the summary if the object's differs; a row that is gone is
\* inserted again if it was not there to merge with, and refused otherwise.
Flush(p) ==
    LET r == task[p]
        row == IF r.conv # r.base THEN r.conv ELSE conv
    IN /\ At(p, "flush") /\ RowFree(p)
       /\ IF conv = Nil /\ r.base # Nil
          THEN Set(p, Idle) /\ UNCHANGED copy
          ELSE /\ Set(p, [r EXCEPT !.sum = row,
                                   !.step = IF r.kind = "fold" THEN "drop" ELSE "commit"])
               /\ copy' = row
       /\ UNCHANGED <<stored, list, last, raced, left, faults>>

\* The thread the model sees, from its stored messages.
History(p) ==
    /\ At(p, "history")
    /\ Set(p, IF task[p].kind = "look" THEN Idle ELSE [task[p] EXCEPT !.step = "stream"])
    /\ FillList
    /\ UNCHANGED <<stored, copy, last, raced, left, faults>>

\* fetch_ai_stream_and_persist, whether the client still listens or not.
Stream(p) ==
    /\ At(p, "stream")
    /\ Set(p, [Idle EXCEPT !.step = "answered", !.kind = "reply"])
    /\ UNCHANGED <<stored, cached, last, raced, left, faults>>

\* background_post_chat_tasks, in a session of its own.
SaveReply(p) ==
    /\ At(p, "answered")
    /\ Create(p, "commit")
    /\ UNCHANGED <<stored, copy, raced, left, faults>>

\* extract_and_save_memory, if the message is worth it; any failure is passed over.
Remember(p) ==
    /\ At(p, "remember")
    /\ memories' \in {memories, memories \cup {last}}
    /\ Set(p, [task[p] EXCEPT !.step = "list"])
    /\ UNCHANGED <<conv, msgs, said, deleted, cached, last, raced, left, faults>>

-----------------------------------------------------------------------------
(* check_and_summarize *)

\* messages[:-5] of the messages as they were read.
ToSummarize(r) == {m \in r.list : Cardinality({n \in r.list : n > m}) >= Keep}

Check(p) ==
    /\ At(p, "list")
    /\ Set(p, IF Cardinality(Listed) <= Threshold THEN Idle
              ELSE [Idle EXCEPT !.kind = "fold", !.step = "conv", !.list = Listed])
    /\ FillList
    /\ UNCHANGED <<stored, copy, last, raced, left, faults>>

Conversation(p) ==
    /\ At(p, "conv")
    /\ GetById(p)
    /\ UNCHANGED <<stored, cached, last, raced, left, faults>>

\* The new summary has the previous one and the messages.
Generate(p) ==
    /\ At(p, "generate")
    /\ Set(p, [task[p] EXCEPT !.conv = @ \cup ToSummarize(task[p]), !.step = "merge"])
    /\ UNCHANGED <<stored, cached, last, raced, left, faults>>

\* Slip: what is stored by then, but for the last ones.
OldestStored(r) == {m \in msgs : Cardinality({n \in msgs : n > m}) >= Keep}

\* delete_many, by id.
Dropped(r) == ToSummarize(r)

Drop(p) ==
    /\ At(p, "drop")
    /\ \A q \in Procs \ {p} : task[q].drops \cap Dropped(task[p]) = {}
    /\ Set(p, [task[p] EXCEPT !.drops = Dropped(task[p]), !.step = "commit"])
    /\ list' = Nil
    /\ UNCHANGED <<stored, copy, last, raced, left, faults>>

-----------------------------------------------------------------------------
(* DELETE /ai/conversations/{id} *)

Delete(p) ==
    /\ At(p, "idle") /\ left > 0 /\ left' = left - 1
    /\ conv # Nil /\ RowFree(p)
    /\ \A q \in Procs \ {p} : task[q].drops = {}
    /\ Set(p, [Idle EXCEPT !.kind = "delete", !.step = "commit", !.sum = {}, !.drops = msgs])
    /\ copy' = Nil /\ list' = Nil
    /\ UNCHANGED <<stored, last, raced, faults>>

-----------------------------------------------------------------------------
(* Commits and failures *)

\* Others who will write, or copy, a summary they read before this commit.
Outdated(p) ==
    {q \in Procs \ {p} :
        \/ task[q].kind = "fold" /\ task[q].step # "idle"
        \/ task[q].step = "fill"
        \/ task[q].detached /\ task[q].step \in {"say", "merge", "flush"}}

\* A new summary that others will overwrite, or that the copy was not given.
Unseen(p) ==
    /\ task[p].kind # "delete" /\ task[p].sum \notin {Nil, conv}
    /\ Outdated(p) # {} \/ copy \notin {Nil, task[p].sum}

Commit(p) ==
    LET r == task[p] IN
    /\ At(p, "commit")
    /\ conv' = CASE r.kind = "delete" -> Nil
                 [] r.kind # "delete" /\ r.sum # Nil -> r.sum
                 [] OTHER -> conv
    /\ msgs' = (msgs \cup r.adds) \ r.drops
    /\ said' = said \cup r.adds
    /\ deleted' = (deleted \/ r.kind = "delete")
    /\ raced' = (raced \/ Unseen(p))
    /\ Set(p, CASE r.kind \in {"new", "chat"} -> [Idle EXCEPT !.step = "history"]
                [] r.kind = "reply" -> [Idle EXCEPT !.kind = "reply", !.step = "remember"]
                [] OTHER -> Idle)
    /\ UNCHANGED <<memories, cached, last, left, faults>>

\* A statement or a commit fails, the assistant or the summary fails, or the
\* process dies: rolled back.
Fail(p) ==
    /\ ~At(p, "idle") /\ Fault
    /\ Set(p, Idle)
    /\ UNCHANGED <<stored, cached, last, raced, left>>

\* A copy outlives its hour in Redis (bound: while nobody is at work).
Expire ==
    /\ \A p \in Procs : At(p, "idle")
    /\ copy # Nil \/ list # Nil
    /\ copy' \in {copy, Nil} /\ list' \in {list, Nil} /\ cached' # cached
    /\ UNCHANGED <<stored, task, last, raced, left, faults>>

Next ==
    \/ \E p \in Procs :
        \/ Start(p) \/ New(p) \/ FillCopy(p) \/ Open(p) \/ Say(p) \/ Merge(p) \/ Flush(p) \/ History(p)
        \/ Stream(p) \/ SaveReply(p) \/ Remember(p) \/ Check(p) \/ Conversation(p)
        \/ Generate(p) \/ Drop(p) \/ Delete(p) \/ Commit(p) \/ Fail(p)
    \/ Expire

Spec == Init /\ [][Next]_vars

-----------------------------------------------------------------------------
(* Properties *)

\* What was said is in the conversation or covered by its summary, whatever
\* failed, as long as no summary is committed between another request's reading
\* of the conversation and its save, or the filling of its copy, which is then
\* older than the row ("messages that were summarized are deleted").
NothingForgotten ==
    raced \/ deleted \/ said \subseteq msgs \cup IF conv = Nil THEN {} ELSE conv
=============================================================================
