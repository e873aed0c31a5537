--------------------------- MODULE ServicesProofs ---------------------------
(***************************************************************************)
(* Of the services that share no state with others: a conversation never   *)
(* loses what was said to its summaries; the pages of a task list show all *)
(* of it; the limits of signing in and the lives of its tokens hold;       *)
(* documents, canvases and tasks stay linked, within the plan's limits,    *)
(* and a TODO becomes one task.  For any number of requests, failures,     *)
(* documents and browsers.                                                 *)
(***************************************************************************)
EXTENDS MCServices, FiniteSetTheorems, SequenceTheorems, WellFoundedInduction, TLAPS

-----------------------------------------------------------------------------
(* A conversation with the assistant: what its requests hold *)

Sums == (SUBSET H!Message) \cup {Nil}
ChatRun == [step : {"idle", "open", "fill", "say", "merge", "flush", "commit", "history", "stream",
                    "answered", "remember", "list", "conv", "generate", "drop"},
            kind : {"new", "chat", "look", "reply", "fold", "delete"},
            conv : Sums, detached : BOOLEAN, base : Sums, list : SUBSET H!Message,
            adds : SUBSET H!Message, drops : SUBSET H!Message, sum : Sums]
\* What kind of request is at a step, and what it has there.
KindOK(r) ==
    /\ r.step = "say" => r.kind # "fold"
    /\ r.step \in {"open", "fill", "say", "merge", "flush"} => r.kind \in {"new", "chat", "look", "fold"}
    /\ r.step = "answered" => r.kind = "reply"
    /\ r.step \in {"conv", "generate", "drop"} => r.kind = "fold"
    /\ r.step \in {"fill", "generate"} => r.conv # Nil
    /\ r.step \in {"open", "conv", "fill"} => ~r.detached
Spoke(r) == r.step = "remember" \/ (r.kind = "reply" /\ r.step = "commit")
ChatTyped ==
    /\ conv \in Sums /\ convCopy \in Sums /\ msgsCopy \in Sums
    /\ msgs \in SUBSET H!Message /\ said \in SUBSET H!Message /\ memories \in SUBSET H!Message
    /\ last \in 0..(2 * ChatExchanges) /\ messages \in Nat
    /\ deleted \in BOOLEAN /\ overwritten \in BOOLEAN
    /\ chat \in [Procs -> ChatRun]
    /\ \A p \in Procs : KindOK(chat[p]) /\ (Spoke(chat[p]) => last >= 1)

\* Who will still write a message, and who two: the bound counts them.
WritesOne(r) ==
    \/ r.step \in {"open", "history", "stream", "answered"}
    \/ r.kind # "fold" /\ r.step \in {"fill", "say", "merge", "flush"}
    \/ r.kind \in {"new", "chat"} /\ r.step = "commit"
WritesTwo(r) == r.step = "open" \/ (r.kind # "fold" /\ r.step \in {"fill", "say"})
Writers == {p \in Procs : WritesOne(chat[p])}
TwiceWriters == {p \in Procs : WritesTwo(chat[p])}
Room ==
    /\ IsFiniteSet(Writers) /\ IsFiniteSet(TwiceWriters)
    /\ last + Cardinality(Writers) + Cardinality(TwiceWriters) + 2 * messages <= 2 * ChatExchanges
Writes(r) == (IF WritesOne(r) THEN 1 ELSE 0) + (IF WritesTwo(r) THEN 1 ELSE 0)

\* The conversation's row is locked by who has written it.
OneWriter == \A p, q \in Procs : p # q => chat[p].sum = Nil \/ chat[q].sum = Nil

\* A summary has what the stored one has.
Covers(c, sum) == c # Nil => c \subseteq sum
\* Who will write, or copy, the summary it read.
WillSave(r) ==
    \/ r.step = "fill"
    \/ r.detached /\ r.step \in {"say", "merge", "flush"}
    \/ r.kind = "fold" /\ r.step \in {"generate", "merge", "flush"}

NewOK(r, c, s) ==
    /\ r.kind = "new" => r.step \in {"open", "say", "commit"}
    /\ r.kind = "new" /\ r.step # "open" => c = Nil /\ r.sum = {}
    /\ r.kind = "new" /\ r.step = "commit" => r.adds # {}
    /\ s = {} => r.step = "idle" \/ r.kind = "new"
ReadOK(r, c) ==
    /\ WillSave(r) => r.conv # Nil /\ Covers(c, r.conv)
    /\ r.step = "fill" => r.base = r.conv
    /\ ~r.detached /\ r.kind \notin {"new", "fold"} /\ r.step \in {"say", "merge", "flush"} =>
        r.base = r.conv
WriteOK(r, c) ==
    r.sum # Nil => /\ r.step \in {"say", "drop", "commit"} /\ (r.step = "say" => r.kind = "new")
                   /\ r.kind # "delete" => Covers(c, r.sum)
FoldOK(r, c) ==
    r.kind = "fold" =>
        /\ r.step \in {"merge", "flush"} => H!ToSummarize(r) \subseteq r.conv
        /\ r.step \in {"drop", "commit"} => r.sum # Nil /\ H!ToSummarize(r) \subseteq r.sum
        /\ r.step = "flush" => r.base = c
        /\ ~r.detached /\ r.step \in {"fill", "generate", "merge"} => r.base = c
DropOK(r) ==
    /\ r.kind = "delete" => r.step = "commit"
    /\ r.drops # {} => r.step = "commit" /\ r.kind \in {"fold", "delete"}
    /\ r.drops # {} /\ r.kind = "fold" => r.drops \subseteq r.sum
ChatRunOK(r, c, s) == NewOK(r, c, s) /\ ReadOK(r, c) /\ WriteOK(r, c) /\ FoldOK(r, c) /\ DropOK(r)

Uncovered == ~overwritten /\ ~deleted
StoredOK ==
    /\ conv = Nil <=> said = {}
    /\ said \ msgs \subseteq IF conv = Nil THEN {} ELSE conv
    /\ convCopy # Nil => Covers(conv, convCopy)
ChatInv ==
    /\ ChatTyped /\ Room /\ OneWriter
    /\ Uncovered => StoredOK /\ \A p \in Procs : ChatRunOK(chat[p], conv, said)

-----------------------------------------------------------------------------
(* A conversation: steps *)

\* A process that rests holds nothing.
LEMMA IdleChat ==
    /\ H!Idle \in ChatRun /\ H!Idle.sum = Nil /\ H!Idle.drops = {} /\ Writes(H!Idle) = 0
    /\ KindOK(H!Idle) /\ ~Spoke(H!Idle)
    /\ \A c, s : ChatRunOK(H!Idle, c, s)
BY DEF H!Idle, ChatRun, Sums, ChatRunOK, NewOK, ReadOK, WriteOK, FoldOK, DropOK, WillSave,
       Writes, WritesOne, WritesTwo, KindOK, Spoke

\* The summary of a new conversation is empty, and one.
LEMMA EmptySum == {} # Nil /\ {} \in SUBSET H!Message
BY ChatAssumption

\* Counting who writes one thing or another, when one process changes.
LEMMA Recount ==
    ASSUME NEW p \in Procs, NEW before, NEW after, IsFiniteSet(before), after \ {p} = before \ {p}
    PROVE  /\ IsFiniteSet(after) /\ Cardinality(after) \in Nat /\ Cardinality(before) \in Nat
           /\ Cardinality(after) = Cardinality(before) - (IF p \in before THEN 1 ELSE 0)
                                                       + (IF p \in after THEN 1 ELSE 0)
<1> DEFINE rest == before \ {p}
<1>1. IsFiniteSet(rest) /\ Cardinality(rest) = Cardinality(before) - (IF p \in before THEN 1 ELSE 0)
      /\ Cardinality(before) \in Nat
  BY FS_RemoveElement, FS_CardinalityType
<1>2. CASE p \in after
  <2>1. after = rest \cup {p} /\ p \notin rest
    BY <1>2
  <2>2. IsFiniteSet(after) /\ Cardinality(after) = Cardinality(rest) + 1
    BY <1>1, <2>1, FS_AddElement
  <2> QED
    BY <1>1, <1>2, <2>2, FS_CardinalityType
<1>3. CASE p \notin after
  <2>1. after = rest
    BY <1>3
  <2> QED
    BY <1>1, <1>3, <2>1, FS_CardinalityType
<1> QED
  BY <1>2, <1>3

\* Room is kept by a step that writes what it was counted for.
LEMMA RoomKept ==
    ASSUME ChatTyped, Room, NEW p \in Procs, NEW r, H!Set(p, r), last' \in Nat, messages' \in Nat,
           last' + Writes(r) + 2 * messages' <= last + Writes(chat[p]) + 2 * messages
    PROVE  Room' /\ last' \in 0..(2 * ChatExchanges)
<1>1. \A q \in Procs : chat'[q] = IF q = p THEN r ELSE chat[q]
  BY DEF ChatTyped, H!Set
<1>2. Writers' = {q \in Procs : WritesOne(chat'[q])} /\ TwiceWriters' = {q \in Procs : WritesTwo(chat'[q])}
  BY DEF Writers, TwiceWriters, WritesOne, WritesTwo
<1>3. Writers' \ {p} = Writers \ {p} /\ TwiceWriters' \ {p} = TwiceWriters \ {p}
  BY <1>1, <1>2 DEF Writers, TwiceWriters
<1>4. (p \in Writers <=> WritesOne(chat[p])) /\ (p \in TwiceWriters <=> WritesTwo(chat[p]))
  BY DEF Writers, TwiceWriters
<1>5. (p \in Writers' <=> WritesOne(r)) /\ (p \in TwiceWriters' <=> WritesTwo(r))
  BY <1>1, <1>2
<1>6. /\ IsFiniteSet(Writers') /\ Cardinality(Writers') \in Nat /\ Cardinality(Writers) \in Nat
      /\ Cardinality(Writers') = Cardinality(Writers) - (IF p \in Writers THEN 1 ELSE 0)
                                                      + (IF p \in Writers' THEN 1 ELSE 0)
  <2>1. IsFiniteSet(Writers)
    BY DEF Room
  <2> QED
    BY <1>3, <2>1, Recount
<1>7. /\ IsFiniteSet(TwiceWriters') /\ Cardinality(TwiceWriters') \in Nat
      /\ Cardinality(TwiceWriters) \in Nat
      /\ Cardinality(TwiceWriters') = Cardinality(TwiceWriters)
            - (IF p \in TwiceWriters THEN 1 ELSE 0) + (IF p \in TwiceWriters' THEN 1 ELSE 0)
  <2>1. IsFiniteSet(TwiceWriters)
    BY DEF Room
  <2> QED
    BY <1>3, <2>1, Recount
<1>8. last \in Nat /\ messages \in Nat /\ ChatExchanges \in Nat
  BY ChatAssumption DEF ChatTyped
<1>9. /\ Writes(r) = (IF p \in Writers' THEN 1 ELSE 0) + (IF p \in TwiceWriters' THEN 1 ELSE 0)
      /\ Writes(chat[p]) = (IF p \in Writers THEN 1 ELSE 0) + (IF p \in TwiceWriters THEN 1 ELSE 0)
  BY <1>4, <1>5 DEF Writes
<1>10. last' + Cardinality(Writers') + Cardinality(TwiceWriters') + 2 * messages' <= 2 * ChatExchanges
  <2>1. PICK a \in {0, 1}, b \in {0, 1}, c \in {0, 1}, d \in {0, 1} :
            /\ a = (IF p \in Writers THEN 1 ELSE 0) /\ b = (IF p \in Writers' THEN 1 ELSE 0)
            /\ c = (IF p \in TwiceWriters THEN 1 ELSE 0)
            /\ d = (IF p \in TwiceWriters' THEN 1 ELSE 0)
    OBVIOUS
  <2>2. /\ Cardinality(Writers') = Cardinality(Writers) - a + b
        /\ Cardinality(TwiceWriters') = Cardinality(TwiceWriters) - c + d
    BY <1>6, <1>7, <2>1
  <2>3. Writes(r) = b + d /\ Writes(chat[p]) = a + c
    BY <1>9, <2>1
  <2>4. last' + (b + d) + 2 * messages' <= last + (a + c) + 2 * messages
    BY <2>3, Zenon
  <2>5. last + Cardinality(Writers) + Cardinality(TwiceWriters) + 2 * messages <= 2 * ChatExchanges
    BY DEF Room
  <2>6. PICK l \in Nat, l1 \in Nat, k \in Nat, k1 \in Nat, m \in Nat, m1 \in Nat, n \in Nat, n1 \in Nat :
            /\ l = last /\ l1 = last' /\ k = messages /\ k1 = messages'
            /\ m = Cardinality(Writers) /\ m1 = Cardinality(Writers')
            /\ n = Cardinality(TwiceWriters) /\ n1 = Cardinality(TwiceWriters')
    BY <1>6, <1>7, <1>8
  <2>7. m1 = m - a + b /\ n1 = n - c + d
    BY <2>2, <2>6
  <2>8. l1 + (b + d) + 2 * k1 <= l + (a + c) + 2 * k
    BY <2>4, <2>6
  <2>9. l + m + n + 2 * k <= 2 * ChatExchanges
    BY <2>5, <2>6
  <2>10. l1 + m1 + n1 + 2 * k1 <= 2 * ChatExchanges
    BY <1>8, <2>7, <2>8, <2>9
  <2> QED
    BY <2>6, <2>10
<1> QED
  BY <1>6, <1>7, <1>8, <1>10 DEF Room

\* A step of one process that commits nothing.
LEMMA OneChat ==
    ASSUME ChatInv, NEW p \in Procs, NEW r \in ChatRun, H!Set(p, r),
           UNCHANGED <<conv, msgs, said, deleted, overwritten>>, memories' \in SUBSET H!Message,
           convCopy' \in Sums, msgsCopy' \in Sums, last' \in Nat, messages' \in Nat,
           KindOK(r), Spoke(r) => last' >= 1, last' >= last,
           last' + Writes(r) + 2 * messages' <= last + Writes(chat[p]) + 2 * messages,
           Uncovered /\ convCopy' # Nil => Covers(conv, convCopy'),
           Uncovered => ChatRunOK(r, conv, said),
           r.sum # Nil => r.sum = chat[p].sum \/ H!RowFree(p)
    PROVE  ChatInv'
<1>1. ChatTyped /\ Room /\ Room' /\ last' \in 0..(2 * ChatExchanges)
  BY RoomKept DEF ChatInv
<1>2. ChatTyped' /\ \A q \in Procs : chat'[q] = IF q = p THEN r ELSE chat[q]
  <2>1. \A q \in Procs : chat'[q] = IF q = p THEN r ELSE chat[q]
    BY <1>1 DEF ChatTyped, H!Set
  <2>2. chat' \in [Procs -> ChatRun]
    BY <1>1 DEF ChatTyped, H!Set
  <2>3. last \in Nat
    BY <1>1, ChatAssumption DEF ChatTyped
  <2>4. \A q \in Procs : KindOK(chat'[q]) /\ (Spoke(chat'[q]) => last' >= 1)
    <3> TAKE q \in Procs
    <3>1. CASE q = p
      BY <2>1, <3>1
    <3>2. CASE q # p
      <4>1. chat'[q] = chat[q] /\ KindOK(chat[q]) /\ (Spoke(chat[q]) => last >= 1)
        BY <1>1, <2>1, <3>2 DEF ChatTyped
      <4>2. PICK l \in Nat, l1 \in Nat : l = last /\ l1 = last'
        BY <2>3
      <4>3. l >= 1 => l1 >= 1
        BY <4>2
      <4> QED
        BY <4>1, <4>2, <4>3
    <3> QED
      BY <3>1, <3>2
  <2>5. (\A q \in Procs : KindOK(chat[q]) /\ (Spoke(chat[q]) => last >= 1))'
    BY <2>4 DEF KindOK, Spoke
  <2> QED
    BY <1>1, <2>1, <2>2, <2>5 DEF ChatTyped
<1>3. OneWriter'
  BY <1>2 DEF ChatInv, OneWriter, H!RowFree
<1>4. Uncovered' => Uncovered
  BY DEF Uncovered
<1>5. Uncovered => StoredOK'
  BY DEF ChatInv, StoredOK
<1>6. Uncovered => (\A q \in Procs : ChatRunOK(chat[q], conv, said))'
  <2>1. Uncovered => \A q \in Procs : ChatRunOK(chat'[q], conv, said)
    BY <1>2 DEF ChatInv
  <2> QED
    BY <2>1 DEF ChatRunOK, NewOK, ReadOK, WriteOK, FoldOK, DropOK, Covers, WillSave, H!ToSummarize
<1> QED
  BY <1>1, <1>2, <1>3, <1>4, <1>5, <1>6 DEF ChatInv

\* What the invariant says of a process.
LEMMA ChatFacts ==
    ASSUME ChatInv, NEW p \in Procs
    PROVE  /\ chat[p] \in ChatRun
           /\ conv \in Sums /\ convCopy \in Sums /\ msgsCopy \in Sums
           /\ last \in Nat /\ messages \in Nat
           /\ msgs \in SUBSET H!Message /\ said \in SUBSET H!Message
           /\ memories \in SUBSET H!Message
           /\ KindOK(chat[p]) /\ (Spoke(chat[p]) => last >= 1)
           /\ Uncovered => StoredOK /\ ChatRunOK(chat[p], conv, said)
BY ChatAssumption DEF ChatInv, ChatTyped

\* A step that stores nothing and writes no message.
LEMMA QuietChat ==
    ASSUME ChatInv, NEW p \in Procs, NEW r \in ChatRun, H!Set(p, r),
           UNCHANGED <<conv, msgs, memories, said, deleted, overwritten, last, messages>>,
           convCopy' \in Sums, msgsCopy' \in Sums, KindOK(r), Spoke(r) => last >= 1,
           Writes(r) <= Writes(chat[p]),
           Uncovered /\ convCopy' # Nil => Covers(conv, convCopy'),
           Uncovered => ChatRunOK(r, conv, said),
           r.sum # Nil => r.sum = chat[p].sum \/ H!RowFree(p)
    PROVE  ChatInv'
<1>1. last \in Nat /\ messages \in Nat /\ memories \in SUBSET H!Message
  BY ChatFacts
<1>2. PICK l \in Nat, k \in Nat : l = last /\ k = messages
  BY <1>1
<1>3. Writes(r) \in 0..2 /\ Writes(chat[p]) \in 0..2
  BY DEF Writes
<1>4. PICK w \in 0..2, v \in 0..2 : w = Writes(r) /\ v = Writes(chat[p])
  BY <1>3
<1>5. l + w + 2 * k <= l + v + 2 * k
  BY <1>4
<1>6. last' + Writes(r) + 2 * messages' <= last + Writes(chat[p]) + 2 * messages
  BY <1>2, <1>4, <1>5
<1>7. last' \in Nat /\ messages' \in Nat /\ memories' \in SUBSET H!Message /\ last' >= last
  BY <1>1
<1> QED
  BY <1>6, <1>7, OneChat

\* A request that fails or ends, and is rolled back.
LEMMA EndedOK ==
    ASSUME ChatInv, NEW p \in Procs, H!Set(p, H!Idle),
           UNCHANGED <<conv, msgs, memories, said, deleted, overwritten, last, messages>>,
           convCopy' = convCopy, msgsCopy' \in Sums
    PROVE  ChatInv'
<1>1. 0 <= Writes(chat[p])
  BY DEF Writes
<1> QED
  BY <1>1, IdleChat, ChatFacts, QuietChat DEF StoredOK

\* A message is sent, or a conversation looked at.
LEMMA StartOK ==
    ASSUME ChatInv, NEW p \in Procs, H!Start(p)
    PROVE  ChatInv'
<1>1. PICK k \in {"new", "chat", "look"} :
        (k = "new" <=> said = {}) /\ H!Set(p, [H!Idle EXCEPT !.step = "open", !.kind = k])
  BY DEF H!Start
<1> DEFINE r == [H!Idle EXCEPT !.step = "open", !.kind = k]
<1>2. r \in ChatRun /\ KindOK(r) /\ ~Spoke(r) /\ Writes(r) = 2 /\ r.sum = Nil
  <2>1. r \in ChatRun /\ r.step = "open" /\ r.kind = k /\ ~r.detached /\ r.sum = Nil
    BY IdleChat DEF H!Idle, ChatRun
  <2> HIDE DEF r
  <2>2. WritesOne(r) /\ WritesTwo(r)
    BY <2>1 DEF WritesOne, WritesTwo
  <2> QED
    BY <2>1, <2>2 DEF KindOK, Spoke, Writes
<1>3. ChatRunOK(r, conv, said)
  BY <1>1 DEF H!Idle, ChatRunOK, NewOK, ReadOK, WriteOK, FoldOK, DropOK, WillSave, Covers
<1>4. PICK l \in Nat, m \in Nat, w \in 0..2 : l = last /\ m = messages /\ w = Writes(chat[p])
  BY ChatFacts DEF Writes
<1>5. m > 0 /\ messages' = m - 1 /\ last' = l
  BY <1>4 DEF H!Start
<1>6. l + 2 + 2 * (m - 1) <= l + w + 2 * m
  BY <1>4
<1>7. last' + Writes(r) + 2 * messages' <= last + Writes(chat[p]) + 2 * messages
  BY <1>2, <1>4, <1>5, <1>6
<1>8. last' \in Nat /\ messages' \in Nat /\ last' >= last
  BY <1>4, <1>5
<1>9. /\ UNCHANGED <<conv, msgs, said, deleted, overwritten, memories>>
      /\ convCopy' = convCopy /\ msgsCopy' = msgsCopy
  BY DEF H!Start, H!stored, H!cached
<1> HIDE DEF r
<1> QED
  BY <1>1, <1>2, <1>3, <1>7, <1>8, <1>9, ChatFacts, OneChat DEF r, StoredOK

\* A new conversation.
LEMMA NewChatOK ==
    ASSUME ChatInv, NEW p \in Procs, H!New(p)
    PROVE  ChatInv'
<1>1. /\ UNCHANGED <<conv, msgs, said, deleted, overwritten, memories, last, messages>>
      /\ msgsCopy' = msgsCopy /\ msgsCopy' \in Sums
  BY ChatFacts DEF H!New, H!stored
<1>2. CASE conv = Nil /\ H!RowFree(p) /\ ~deleted
  <2> DEFINE r == [chat[p] EXCEPT !.step = "say", !.sum = {}]
  <2>1. H!Set(p, r) /\ convCopy' = {}
    BY <1>2 DEF H!New
  <2>2. chat[p] \in ChatRun /\ chat[p].step = "open" /\ chat[p].kind = "new" /\ KindOK(chat[p])
    BY ChatFacts DEF H!New, H!At
  <2>3. r \in ChatRun /\ r.step = "say" /\ r.kind = "new" /\ r.sum = {} /\ r.drops = chat[p].drops
        /\ ~r.detached /\ r.conv = chat[p].conv
    BY <2>2 DEF ChatRun, Sums, KindOK
  <2> HIDE DEF r
  <2>4. KindOK(r) /\ ~Spoke(r) /\ Writes(r) = Writes(chat[p])
    BY <2>2, <2>3 DEF KindOK, Spoke, Writes, WritesOne, WritesTwo
  <2>5. Uncovered => ChatRunOK(r, conv, said)
    BY <1>2, <2>2, <2>3, ChatFacts DEF ChatRunOK, NewOK, ReadOK, WriteOK, FoldOK, DropOK,
       WillSave, Covers
  <2>6. Writes(r) <= Writes(chat[p]) /\ convCopy' \in Sums
    BY <2>1, <2>4 DEF Writes, Sums
  <2>7. ~(conv # Nil)
    BY <1>2
  <2> QED
    BY <1>1, <1>2, <2>1, <2>3, <2>4, <2>5, <2>6, <2>7, QuietChat DEF Covers
<1>3. CASE ~(conv = Nil /\ H!RowFree(p) /\ ~deleted)
  BY <1>1, <1>3, EndedOK DEF H!New
<1> QED
  BY <1>2, <1>3

\* Reading the conversation through its copy.
LEMMA GetChatOK ==
    ASSUME ChatInv, NEW p \in Procs, H!GetById(p), chat[p].step \in {"open", "conv"},
           chat[p].kind # "new",
           UNCHANGED <<conv, msgs, memories, said, deleted, overwritten, last, messages,
                       convCopy, msgsCopy>>
    PROVE  ChatInv'
<1>1. chat[p] \in ChatRun /\ KindOK(chat[p]) /\ convCopy \in Sums /\ msgsCopy \in Sums /\ conv \in Sums
  BY ChatFacts
<1>2. CASE convCopy # Nil
  <2> DEFINE r == [chat[p] EXCEPT !.conv = convCopy, !.detached = TRUE, !.step = H!Reading(chat[p])]
  <2>1. H!Set(p, r)
    BY <1>2 DEF H!GetById
  <2>2. r.step \in {"history", "generate", "say"} /\ (r.step = "generate" <=> r.kind = "fold")
    BY <1>1 DEF H!Reading, ChatRun
  <2>3. r \in ChatRun /\ r.kind = chat[p].kind /\ r.sum = chat[p].sum /\ r.drops = chat[p].drops
        /\ r.conv = convCopy /\ r.detached /\ r.list = chat[p].list
    BY <1>1, <2>2 DEF ChatRun
  <2> HIDE DEF r
  <2>4. KindOK(r) /\ ~Spoke(r)
    BY <1>1, <1>2, <2>2, <2>3 DEF KindOK, Spoke
  <2>5. Writes(r) <= Writes(chat[p])
    BY <1>1, <2>2, <2>3 DEF KindOK, Writes, WritesOne, WritesTwo
  <2>6. Uncovered => ChatRunOK(r, conv, said)
    BY <1>1, <1>2, <2>2, <2>3, ChatFacts DEF StoredOK, ChatRunOK, NewOK, ReadOK, WriteOK,
       FoldOK, DropOK, WillSave, Covers
  <2>7. Uncovered /\ convCopy' # Nil => Covers(conv, convCopy')
    BY ChatFacts DEF StoredOK
  <2> QED
    BY <1>1, <2>1, <2>3, <2>4, <2>5, <2>6, <2>7, QuietChat
<1>3. CASE convCopy = Nil /\ conv # Nil
  <2> DEFINE r == [chat[p] EXCEPT !.conv = conv, !.base = conv, !.step = "fill"]
  <2>1. H!Set(p, r)
    BY <1>3 DEF H!GetById
  <2>3. r \in ChatRun /\ r.kind = chat[p].kind /\ r.sum = chat[p].sum /\ r.drops = chat[p].drops
        /\ r.conv = conv /\ r.base = conv /\ r.detached = chat[p].detached /\ r.step = "fill"
    BY <1>1 DEF ChatRun
  <2> HIDE DEF r
  <2>4. KindOK(r) /\ ~Spoke(r)
    BY <1>1, <1>3, <2>3 DEF KindOK, Spoke
  <2>5. Writes(r) <= Writes(chat[p])
    BY <1>1, <2>3 DEF KindOK, Writes, WritesOne, WritesTwo
  <2>6. Uncovered => ChatRunOK(r, conv, said)
    BY <1>1, <1>3, <2>3, ChatFacts DEF StoredOK, ChatRunOK, NewOK, ReadOK, WriteOK, FoldOK,
       DropOK, WillSave, Covers
  <2>7. Uncovered /\ convCopy' # Nil => Covers(conv, convCopy')
    BY ChatFacts DEF StoredOK
  <2> QED
    BY <1>1, <2>1, <2>3, <2>4, <2>5, <2>6, <2>7, QuietChat
<1>4. CASE convCopy = Nil /\ conv = Nil
  BY <1>1, <1>4, EndedOK DEF H!GetById
<1> QED
  BY <1>2, <1>3, <1>4

\* A request opens the conversation.
LEMMA OpenChatOK ==
    ASSUME ChatInv, NEW p \in Procs, H!Open(p) \/ H!Conversation(p)
    PROVE  ChatInv'
<1>1. /\ UNCHANGED <<conv, msgs, said, deleted, overwritten, memories, last, messages>>
      /\ UNCHANGED <<convCopy, msgsCopy>> /\ H!GetById(p) /\ chat[p].step \in {"open", "conv"}
  BY DEF H!Open, H!Conversation, H!At, H!stored, H!cached
<1>2. chat[p].kind # "new"
  BY ChatFacts DEF H!Open, H!Conversation, H!At, KindOK
<1> QED
  BY <1>1, <1>2, GetChatOK

\* The copy is filled with what was read, which is still what is stored.
LEMMA FillCopyOK ==
    ASSUME ChatInv, NEW p \in Procs, H!FillCopy(p)
    PROVE  ChatInv'
<1>1. /\ UNCHANGED <<conv, msgs, said, deleted, overwritten, memories, last, messages>>
      /\ msgsCopy' \in Sums /\ convCopy' = chat[p].conv /\ chat[p].step = "fill"
  BY ChatFacts DEF H!FillCopy, H!At, H!stored
<1>2. chat[p] \in ChatRun /\ KindOK(chat[p])
  BY ChatFacts
<1> DEFINE r == [chat[p] EXCEPT !.step = H!Reading(chat[p])]
<1>3. H!Set(p, r)
  BY DEF H!FillCopy
<1>4. r.step \in {"history", "generate", "say"} /\ (r.step = "generate" <=> r.kind = "fold")
  BY <1>2 DEF H!Reading, ChatRun
<1>5. /\ r \in ChatRun /\ r.kind = chat[p].kind /\ r.sum = chat[p].sum /\ r.drops = chat[p].drops
      /\ r.conv = chat[p].conv /\ r.base = chat[p].base /\ r.detached = chat[p].detached
  BY <1>2, <1>4 DEF ChatRun
<1> HIDE DEF r
<1>6. KindOK(r) /\ ~Spoke(r)
  BY <1>1, <1>2, <1>4, <1>5 DEF KindOK, Spoke
<1>7. Writes(r) <= Writes(chat[p])
  BY <1>1, <1>2, <1>4, <1>5 DEF KindOK, Writes, WritesOne, WritesTwo
<1>8. Uncovered => ChatRunOK(r, conv, said) /\ Covers(conv, convCopy')
  BY <1>1, <1>2, <1>4, <1>5, ChatFacts DEF ChatRunOK, NewOK, ReadOK, WriteOK, FoldOK, DropOK,
     WillSave, Covers
<1>9. convCopy' \in Sums
  BY <1>1, <1>2 DEF ChatRun
<1> QED
  BY <1>1, <1>3, <1>5, <1>6, <1>7, <1>8, <1>9, QuietChat

\* A message that is written, by who was counted for it, has a number.
LEMMA CreateOK ==
    ASSUME ChatInv, NEW p \in Procs, NEW step \in {"commit", "merge"}, H!Create(p, step),
           UNCHANGED <<conv, msgs, memories, said, deleted, overwritten, messages, convCopy>>,
           NEW r, r = [chat[p] EXCEPT !.adds = {last + 1}, !.step = step],
           Writes(chat[p]) = Writes(r) + 1, KindOK(r),
           Uncovered => ChatRunOK(r, conv, said)
    PROVE  ChatInv'
<1>1. /\ chat[p] \in ChatRun /\ last \in Nat /\ messages \in Nat /\ H!Set(p, r)
      /\ last' = last + 1 /\ msgsCopy' \in Sums /\ convCopy' \in Sums /\ memories' \in SUBSET H!Message
  BY ChatFacts DEF H!Create, Sums
<1>2. PICK l \in Nat, k \in Nat, w \in 0..2 : l = last /\ k = messages /\ w = Writes(r)
  BY <1>1 DEF Writes
<1>3. last' = l + 1 /\ Writes(chat[p]) = w + 1 /\ messages' = k
  BY <1>1, <1>2
<1>4. l + 1 + w + 2 * k <= l + (w + 1) + 2 * k
  OBVIOUS
<1>5. last' + Writes(r) + 2 * messages' <= last + Writes(chat[p]) + 2 * messages
  BY <1>2, <1>3, <1>4
<1>6. last' \in Nat /\ messages' \in Nat /\ last' >= last /\ last' >= 1
  BY <1>2, <1>3
<1>7. last + 1 \in H!Message
  <2>1. last' \in 0..(2 * ChatExchanges)
    BY <1>1, <1>5, <1>6, RoomKept DEF ChatInv
  <2> QED
    BY <1>1, <1>6, <2>1, ChatAssumption DEF H!Message
<1>8. r \in ChatRun /\ r.sum = chat[p].sum
  BY <1>1, <1>7 DEF ChatRun
<1>9. Uncovered /\ convCopy' # Nil => Covers(conv, convCopy')
  BY ChatFacts DEF StoredOK
<1> QED
  BY <1>1, <1>5, <1>6, <1>8, <1>9, OneChat

\* The user's message.
LEMMA SayOK ==
    ASSUME ChatInv, NEW p \in Procs, H!Say(p)
    PROVE  ChatInv'
<1> DEFINE step == IF chat[p].kind = "new" THEN "commit" ELSE "merge"
           r == [chat[p] EXCEPT !.adds = {last + 1}, !.step = step]
<1>1. /\ chat[p] \in ChatRun /\ KindOK(chat[p]) /\ chat[p].step = "say" /\ H!Create(p, step)
      /\ UNCHANGED <<conv, msgs, memories, said, deleted, overwritten, messages, convCopy>>
  BY ChatFacts DEF H!Say, H!At, H!stored
<1>2. /\ r.kind = chat[p].kind /\ r.sum = chat[p].sum /\ r.drops = chat[p].drops /\ r.step = step
      /\ r.conv = chat[p].conv /\ r.base = chat[p].base /\ r.detached = chat[p].detached
      /\ r.adds = {last + 1}
  BY <1>1 DEF ChatRun
<1>3. step \in {"commit", "merge"} /\ (step = "commit" <=> chat[p].kind = "new")
  OBVIOUS
<1> HIDE DEF r, step
<1>4. KindOK(r)
  BY <1>1, <1>2, <1>3 DEF KindOK
<1>5. Writes(chat[p]) = Writes(r) + 1
  <2>1. WritesOne(chat[p]) /\ WritesTwo(chat[p]) /\ WritesOne(r) /\ ~WritesTwo(r)
    BY <1>1, <1>2, <1>3 DEF KindOK, WritesOne, WritesTwo
  <2> QED
    BY <2>1 DEF Writes
<1>6. Uncovered => ChatRunOK(r, conv, said)
  BY <1>1, <1>2, <1>3, ChatFacts DEF KindOK, ChatRunOK, NewOK, ReadOK, WriteOK, FoldOK, DropOK,
     WillSave, Covers
<1> QED
  BY <1>1, <1>3, <1>4, <1>5, <1>6, CreateOK DEF r

\* The assistant's.
LEMMA SaveReplyOK ==
    ASSUME ChatInv, NEW p \in Procs, H!SaveReply(p)
    PROVE  ChatInv'
<1> DEFINE r == [chat[p] EXCEPT !.adds = {last + 1}, !.step = "commit"]
<1>1. /\ chat[p] \in ChatRun /\ KindOK(chat[p]) /\ chat[p].step = "answered"
      /\ H!Create(p, "commit")
      /\ UNCHANGED <<conv, msgs, memories, said, deleted, overwritten, messages, convCopy>>
  BY ChatFacts DEF H!SaveReply, H!At, H!stored
<1>2. /\ r.kind = "reply" /\ r.sum = chat[p].sum /\ r.drops = chat[p].drops /\ r.step = "commit"
      /\ r.conv = chat[p].conv /\ r.base = chat[p].base /\ r.detached = chat[p].detached
  BY <1>1 DEF ChatRun, KindOK
<1> HIDE DEF r
<1>3. KindOK(r)
  BY <1>2 DEF KindOK
<1>4. Writes(chat[p]) = Writes(r) + 1
  <2>1. WritesOne(chat[p]) /\ ~WritesTwo(chat[p]) /\ ~WritesOne(r) /\ ~WritesTwo(r)
    BY <1>1, <1>2 DEF KindOK, WritesOne, WritesTwo
  <2> QED
    BY <2>1 DEF Writes
<1>5. Uncovered => ChatRunOK(r, conv, said)
  BY <1>1, <1>2, ChatFacts DEF KindOK, ChatRunOK, NewOK, ReadOK, WriteOK, FoldOK, DropOK,
     WillSave, Covers
<1> QED
  BY <1>1, <1>3, <1>4, <1>5, CreateOK DEF r

\* An object of Redis is merged into what is stored.
LEMMA MergeChatOK ==
    ASSUME ChatInv, NEW p \in Procs, H!Merge(p)
    PROVE  ChatInv'
<1>1. /\ UNCHANGED <<conv, msgs, said, deleted, overwritten, memories, last, messages, convCopy, msgsCopy>>
      /\ msgsCopy' \in Sums /\ convCopy' \in Sums /\ chat[p].step = "merge"
  BY ChatFacts DEF H!Merge, H!At, H!stored, H!cached
<1>2. chat[p] \in ChatRun /\ conv \in Sums
  BY ChatFacts
<1> DEFINE base == IF chat[p].detached THEN conv ELSE chat[p].base
           r == [chat[p] EXCEPT !.step = "flush", !.base = base]
<1>3. H!Set(p, r)
  BY <1>2 DEF H!Merge, ChatRun
<1>4. /\ r \in ChatRun /\ r.kind = chat[p].kind /\ r.sum = chat[p].sum /\ r.drops = chat[p].drops
      /\ r.conv = chat[p].conv /\ r.base = base /\ r.detached = chat[p].detached
      /\ r.step = "flush" /\ r.list = chat[p].list
  BY <1>2 DEF ChatRun
<1>5. base = IF chat[p].detached THEN conv ELSE chat[p].base
  OBVIOUS
<1> HIDE DEF r, base
<1>6. KindOK(r) /\ ~Spoke(r) /\ Writes(r) <= Writes(chat[p])
  BY <1>1, <1>4, ChatFacts DEF KindOK, Spoke, Writes, WritesOne, WritesTwo
<1>7. H!ToSummarize(r) = H!ToSummarize(chat[p])
  BY <1>4 DEF H!ToSummarize
<1>8. Uncovered => ChatRunOK(r, conv, said)
  BY <1>1, <1>2, <1>4, <1>5, <1>7, ChatFacts DEF ChatRunOK, NewOK, ReadOK, WriteOK, FoldOK,
     DropOK, WillSave, Covers
<1>9. Uncovered /\ convCopy' # Nil => Covers(conv, convCopy')
  BY <1>1, ChatFacts DEF StoredOK
<1> QED
  BY <1>1, <1>3, <1>4, <1>6, <1>8, <1>9, QuietChat

\* The row is written, with the object's summary if it differs.
LEMMA FlushChatOK ==
    ASSUME ChatInv, NEW p \in Procs, H!Flush(p)
    PROVE  ChatInv'
<1>1. /\ UNCHANGED <<conv, msgs, said, deleted, overwritten, memories, last, messages>>
      /\ msgsCopy' \in Sums /\ msgsCopy' = msgsCopy /\ chat[p].step = "flush" /\ H!RowFree(p)
  BY ChatFacts DEF H!Flush, H!At, H!stored
<1>2. chat[p] \in ChatRun /\ conv \in Sums
  BY ChatFacts
<1>3. CASE conv = Nil /\ chat[p].base # Nil
  BY <1>1, <1>3, EndedOK DEF H!Flush
<1>4. CASE ~(conv = Nil /\ chat[p].base # Nil)
  <2> DEFINE row == IF chat[p].conv # chat[p].base THEN chat[p].conv ELSE conv
             step == IF chat[p].kind = "fold" THEN "drop" ELSE "commit"
             r == [chat[p] EXCEPT !.sum = row, !.step = step]
  <2>1. H!Set(p, r) /\ convCopy' = row
    BY <1>4 DEF H!Flush
  <2>2. /\ step \in {"drop", "commit"} /\ (step = "drop" <=> chat[p].kind = "fold")
        /\ row = (IF chat[p].conv # chat[p].base THEN chat[p].conv ELSE conv) /\ row \in Sums
    BY <1>2 DEF ChatRun
  <2>3. /\ r \in ChatRun /\ r.kind = chat[p].kind /\ r.sum = row /\ r.drops = chat[p].drops
        /\ r.conv = chat[p].conv /\ r.base = chat[p].base /\ r.detached = chat[p].detached
        /\ r.step = step /\ r.list = chat[p].list
    BY <1>2, <2>2 DEF ChatRun
  <2> HIDE DEF r, row, step
  <2>4. KindOK(chat[p]) /\ (Uncovered => chat[p].kind \notin {"new", "delete"})
    BY <1>1, ChatFacts DEF ChatRunOK, NewOK, DropOK
  <2>5. KindOK(r) /\ ~Spoke(r) /\ Writes(r) <= Writes(chat[p])
    BY <1>1, <2>2, <2>3, <2>4 DEF KindOK, Spoke, Writes, WritesOne, WritesTwo
  <2>6. H!ToSummarize(r) = H!ToSummarize(chat[p])
    BY <2>3 DEF H!ToSummarize
  <2>7. Uncovered => Covers(conv, row) /\ (chat[p].kind = "fold" => row = chat[p].conv)
    <3>1. CASE chat[p].detached \/ chat[p].kind = "fold"
      BY <1>1, <2>2, <3>1, ChatFacts DEF ChatRunOK, ReadOK, FoldOK, WillSave, Covers
    <3>2. CASE ~chat[p].detached /\ chat[p].kind # "fold"
      BY <1>1, <2>2, <2>4, <3>2, ChatFacts DEF ChatRunOK, ReadOK, Covers
    <3> QED
      BY <3>1, <3>2
  <2>8. Uncovered => ChatRunOK(r, conv, said)
    BY <1>1, <1>2, <2>2, <2>3, <2>4, <2>6, <2>7, ChatFacts DEF ChatRunOK, NewOK, ReadOK,
       WriteOK, FoldOK, DropOK, WillSave, Covers
  <2> QED
    BY <1>1, <2>1, <2>2, <2>3, <2>5, <2>7, <2>8, QuietChat
<1> QED
  BY <1>3, <1>4

\* The history is read.
LEMMA HistoryOK ==
    ASSUME ChatInv, NEW p \in Procs, H!History(p)
    PROVE  ChatInv'
<1>1. /\ UNCHANGED <<conv, msgs, said, deleted, overwritten, memories, last, messages>> /\ convCopy' = convCopy
      /\ msgsCopy' \in Sums /\ convCopy' \in Sums /\ chat[p].step = "history"
  BY ChatFacts DEF H!History, H!At, H!stored, H!FillList, H!Listed, Sums
<1>2. chat[p] \in ChatRun
  BY ChatFacts
<1>3. CASE chat[p].kind = "look"
  BY <1>1, <1>3, EndedOK DEF H!History
<1>4. CASE chat[p].kind # "look"
  <2> DEFINE r == [chat[p] EXCEPT !.step = "stream"]
  <2>1. H!Set(p, r)
    BY <1>4 DEF H!History
  <2>2. /\ r \in ChatRun /\ r.kind = chat[p].kind /\ r.sum = chat[p].sum /\ r.drops = chat[p].drops
        /\ r.step = "stream"
    BY <1>2 DEF ChatRun
  <2> HIDE DEF r
  <2>3. KindOK(r) /\ ~Spoke(r) /\ Writes(r) <= Writes(chat[p])
    BY <1>1, <2>2 DEF KindOK, Spoke, Writes, WritesOne, WritesTwo
  <2>4. Uncovered => ChatRunOK(r, conv, said)
    BY <1>1, <2>2, ChatFacts DEF ChatRunOK, NewOK, ReadOK, WriteOK, FoldOK, DropOK, WillSave, Covers
  <2>5. Uncovered /\ convCopy' # Nil => Covers(conv, convCopy')
    BY <1>1, ChatFacts DEF StoredOK
  <2> QED
    BY <1>1, <2>1, <2>2, <2>3, <2>4, <2>5, QuietChat
<1> QED
  BY <1>3, <1>4

\* The answer ends.
LEMMA StreamOK ==
    ASSUME ChatInv, NEW p \in Procs, H!Stream(p)
    PROVE  ChatInv'
<1>1. /\ UNCHANGED <<conv, msgs, said, deleted, overwritten, memories, last, messages>> /\ convCopy' = convCopy
      /\ msgsCopy' \in Sums /\ convCopy' \in Sums /\ chat[p].step = "stream"
  BY ChatFacts DEF H!Stream, H!At, H!stored, H!cached
<1> DEFINE r == [H!Idle EXCEPT !.step = "answered", !.kind = "reply"]
<1>2. H!Set(p, r)
  BY DEF H!Stream
<1>3. /\ r \in ChatRun /\ r.kind = "reply" /\ r.sum = Nil /\ r.drops = {} /\ r.step = "answered"
  BY IdleChat DEF ChatRun, H!Idle
<1> HIDE DEF r
<1>4. KindOK(r) /\ ~Spoke(r) /\ Writes(r) <= Writes(chat[p])
  BY <1>1, <1>3 DEF KindOK, Spoke, Writes, WritesOne, WritesTwo
<1>5. Uncovered => ChatRunOK(r, conv, said)
  BY <1>1, <1>3, ChatFacts DEF ChatRunOK, NewOK, ReadOK, WriteOK, FoldOK, DropOK, WillSave, Covers
<1>6. Uncovered /\ convCopy' # Nil => Covers(conv, convCopy')
  BY <1>1, ChatFacts DEF StoredOK
<1> QED
  BY <1>1, <1>2, <1>3, <1>4, <1>5, <1>6, QuietChat

\* Something is remembered.
LEMMA RememberOK ==
    ASSUME ChatInv, NEW p \in Procs, H!Remember(p)
    PROVE  ChatInv'
<1>1. /\ UNCHANGED <<conv, msgs, said, deleted, overwritten, last, messages, convCopy, msgsCopy>>
      /\ chat[p].step = "remember" /\ memories' \in {memories, memories \cup {last}}
  BY DEF H!Remember, H!At, H!cached
<1>2. /\ chat[p] \in ChatRun /\ convCopy' \in Sums /\ msgsCopy' \in Sums /\ last' \in Nat
      /\ messages' \in Nat /\ last >= 1 /\ memories \in SUBSET H!Message
  BY <1>1, ChatFacts DEF Spoke
<1>3. memories' \in SUBSET H!Message
  <2>1. last \in 0..(2 * ChatExchanges)
    BY DEF ChatInv, ChatTyped
  <2>2. last \in H!Message
    BY <1>2, <2>1, ChatAssumption DEF H!Message
  <2> QED
    BY <1>1, <1>2, <2>2
<1> DEFINE r == [chat[p] EXCEPT !.step = "list"]
<1>4. H!Set(p, r)
  BY DEF H!Remember
<1>5. /\ r \in ChatRun /\ r.kind = chat[p].kind /\ r.sum = chat[p].sum /\ r.drops = chat[p].drops
      /\ r.step = "list"
  BY <1>2 DEF ChatRun
<1> HIDE DEF r
<1>6. KindOK(r) /\ ~Spoke(r) /\ Writes(r) = 0 /\ Writes(chat[p]) = 0
  BY <1>1, <1>5 DEF KindOK, Spoke, Writes, WritesOne, WritesTwo
<1>7. Uncovered => ChatRunOK(r, conv, said)
  BY <1>1, <1>5, ChatFacts DEF ChatRunOK, NewOK, ReadOK, WriteOK, FoldOK, DropOK, WillSave, Covers
<1>8. Uncovered /\ convCopy' # Nil => Covers(conv, convCopy')
  BY <1>1, ChatFacts DEF StoredOK
<1>9. PICK l \in Nat, k \in Nat : l = last /\ k = messages
  BY ChatFacts
<1>10. l + 0 + 2 * k <= l + 0 + 2 * k /\ l >= l
  OBVIOUS
<1>11. last' + Writes(r) + 2 * messages' <= last + Writes(chat[p]) + 2 * messages /\ last' >= last
  BY <1>1, <1>6, <1>9, <1>10
<1> QED
  BY <1>1, <1>2, <1>3, <1>4, <1>5, <1>6, <1>7, <1>8, <1>11, OneChat

\* Is the conversation long?
LEMMA CheckOK ==
    ASSUME ChatInv, NEW p \in Procs, H!Check(p)
    PROVE  ChatInv'
<1>1. /\ UNCHANGED <<conv, msgs, said, deleted, overwritten, memories, last, messages>> /\ convCopy' = convCopy
      /\ msgsCopy' \in Sums /\ convCopy' \in Sums /\ chat[p].step = "list"
      /\ H!Listed \in SUBSET H!Message
  BY ChatFacts DEF H!Check, H!At, H!stored, H!FillList, H!Listed, Sums
<1>2. CASE H!Set(p, H!Idle)
  BY <1>1, <1>2, EndedOK
<1>3. CASE H!Set(p, [H!Idle EXCEPT !.kind = "fold", !.step = "conv", !.list = H!Listed])
  <2> DEFINE r == [H!Idle EXCEPT !.kind = "fold", !.step = "conv", !.list = H!Listed]
  <2>1. /\ r \in ChatRun /\ r.kind = "fold" /\ r.sum = Nil /\ r.drops = {} /\ r.step = "conv"
        /\ ~r.detached
    BY <1>1, IdleChat DEF ChatRun, H!Idle
  <2> HIDE DEF r
  <2>2. KindOK(r) /\ ~Spoke(r) /\ Writes(r) = 0 /\ 0 <= Writes(chat[p])
    BY <1>1, <2>1 DEF KindOK, Spoke, Writes, WritesOne, WritesTwo
  <2>3. Uncovered => ChatRunOK(r, conv, said)
    BY <1>1, <2>1, ChatFacts DEF ChatRunOK, NewOK, ReadOK, WriteOK, FoldOK, DropOK, WillSave, Covers
  <2>4. Uncovered /\ convCopy' # Nil => Covers(conv, convCopy')
    BY <1>1, ChatFacts DEF StoredOK
  <2> QED
    BY <1>1, <1>3, <2>1, <2>2, <2>3, <2>4, QuietChat DEF r
<1> QED
  BY <1>2, <1>3 DEF H!Check

\* The summary, of the previous one and the messages.
LEMMA GenerateOK ==
    ASSUME ChatInv, NEW p \in Procs, H!Generate(p)
    PROVE  ChatInv'
<1>1. /\ UNCHANGED <<conv, msgs, said, deleted, overwritten, memories, last, messages>> /\ convCopy' = convCopy
      /\ msgsCopy' \in Sums /\ convCopy' \in Sums /\ chat[p].step = "generate"
  BY ChatFacts DEF H!Generate, H!At, H!stored, H!cached
<1>2. chat[p] \in ChatRun /\ KindOK(chat[p])
  BY ChatFacts
<1> DEFINE sum == chat[p].conv \cup H!ToSummarize(chat[p])
           r == [chat[p] EXCEPT !.conv = sum, !.step = "merge"]
<1>3. H!Set(p, r)
  BY <1>2 DEF H!Generate, ChatRun
<1>4. sum \in SUBSET H!Message /\ sum \in Sums /\ sum # Nil
  <2>1. chat[p].conv \in SUBSET H!Message
    BY <1>1, <1>2 DEF ChatRun, Sums, KindOK
  <2>2. H!ToSummarize(chat[p]) \in SUBSET H!Message
    BY <1>2 DEF ChatRun, H!ToSummarize
  <2> QED
    BY <2>1, <2>2, ChatAssumption DEF Sums
<1>5. /\ r \in ChatRun /\ r.kind = "fold" /\ r.sum = chat[p].sum /\ r.drops = chat[p].drops
      /\ r.step = "merge" /\ r.conv = sum /\ r.base = chat[p].base /\ r.list = chat[p].list
      /\ r.detached = chat[p].detached
  BY <1>1, <1>2, <1>4 DEF ChatRun, KindOK
<1>6. chat[p].conv \subseteq sum /\ H!ToSummarize(chat[p]) \subseteq sum
  OBVIOUS
<1> HIDE DEF r, sum
<1>7. H!ToSummarize(r) = H!ToSummarize(chat[p])
  BY <1>5 DEF H!ToSummarize
<1>8. KindOK(r) /\ ~Spoke(r) /\ Writes(r) <= Writes(chat[p])
  BY <1>1, <1>5 DEF KindOK, Spoke, Writes, WritesOne, WritesTwo
<1>9. Uncovered => ChatRunOK(r, conv, said)
  BY <1>1, <1>2, <1>4, <1>5, <1>6, <1>7, ChatFacts DEF KindOK, ChatRunOK, NewOK, ReadOK,
     WriteOK, FoldOK, DropOK, WillSave, Covers
<1>10. Uncovered /\ convCopy' # Nil => Covers(conv, convCopy')
  BY <1>1, ChatFacts DEF StoredOK
<1> QED
  BY <1>1, <1>3, <1>5, <1>8, <1>9, <1>10, QuietChat

\* The summarised messages go.
LEMMA DropChatOK ==
    ASSUME ChatInv, NEW p \in Procs, H!Drop(p)
    PROVE  ChatInv'
<1>1. /\ UNCHANGED <<conv, msgs, said, deleted, overwritten, memories, last, messages>> /\ convCopy' = convCopy
      /\ msgsCopy' \in Sums /\ convCopy' \in Sums /\ chat[p].step = "drop"
  BY ChatFacts DEF H!Drop, H!At, H!stored, Sums
<1>2. chat[p] \in ChatRun /\ KindOK(chat[p])
  BY ChatFacts
<1> DEFINE r == [chat[p] EXCEPT !.drops = H!Dropped(chat[p]), !.step = "commit"]
<1>3. H!Set(p, r)
  BY DEF H!Drop
<1>4. H!Dropped(chat[p]) \in SUBSET H!Message /\ H!Dropped(chat[p]) = H!ToSummarize(chat[p])
  BY <1>2 DEF ChatRun, H!ToSummarize, H!Dropped
<1>5. /\ r \in ChatRun /\ r.kind = "fold" /\ r.sum = chat[p].sum
      /\ r.step = "commit" /\ r.list = chat[p].list /\ r.drops = H!ToSummarize(chat[p])
  BY <1>1, <1>2, <1>4 DEF ChatRun, KindOK
<1> HIDE DEF r
<1>6. H!ToSummarize(r) = H!ToSummarize(chat[p])
  BY <1>5 DEF H!ToSummarize
<1>7. KindOK(r) /\ ~Spoke(r) /\ Writes(r) <= Writes(chat[p])
  BY <1>1, <1>5 DEF KindOK, Spoke, Writes, WritesOne, WritesTwo
<1>8. Uncovered => ChatRunOK(r, conv, said)
  BY <1>1, <1>2, <1>5, <1>6, ChatFacts DEF KindOK, ChatRunOK, NewOK, ReadOK, WriteOK, FoldOK,
     DropOK, WillSave, Covers
<1>9. Uncovered /\ convCopy' # Nil => Covers(conv, convCopy')
  BY <1>1, ChatFacts DEF StoredOK
<1> QED
  BY <1>1, <1>3, <1>5, <1>7, <1>8, <1>9, QuietChat

\* The user deletes the conversation.
LEMMA DeleteChatOK ==
    ASSUME ChatInv, NEW p \in Procs, H!Delete(p)
    PROVE  ChatInv'
<1>1. /\ UNCHANGED <<conv, msgs, said, deleted, overwritten, memories, last>>
      /\ convCopy' = Nil /\ msgsCopy' = Nil /\ conv # Nil /\ H!RowFree(p)
  BY DEF H!Delete, H!stored
<1> DEFINE r == [H!Idle EXCEPT !.kind = "delete", !.step = "commit", !.sum = {}, !.drops = msgs]
<1>2. H!Set(p, r)
  BY DEF H!Delete
<1>3. r \in ChatRun /\ r.kind = "delete" /\ r.step = "commit"
  BY IdleChat, ChatFacts DEF ChatRun, H!Idle, Sums
<1> HIDE DEF r
<1>4. KindOK(r) /\ ~Spoke(r) /\ Writes(r) = 0
  BY <1>3 DEF KindOK, Spoke, Writes, WritesOne, WritesTwo
<1>5. Uncovered => ChatRunOK(r, conv, said)
  BY <1>1, <1>3, ChatFacts DEF StoredOK, ChatRunOK, NewOK, ReadOK, WriteOK, FoldOK, DropOK,
     WillSave, Covers
<1>6. PICK l \in Nat, m \in Nat, w \in 0..2 : l = last /\ m = messages /\ w = Writes(chat[p])
  BY ChatFacts DEF Writes
<1>7. m > 0 /\ messages' = m - 1 /\ last' = l
  BY <1>1, <1>6 DEF H!Delete
<1>8. l + 0 + 2 * (m - 1) <= l + w + 2 * m /\ m - 1 \in Nat /\ l >= l
  BY <1>7
<1>9. last' + Writes(r) + 2 * messages' <= last + Writes(chat[p]) + 2 * messages
  BY <1>4, <1>6, <1>7, <1>8
<1>10. last' \in Nat /\ messages' \in Nat /\ last' >= last
  BY <1>6, <1>7, <1>8
<1> QED
  BY <1>1, <1>2, <1>3, <1>4, <1>5, <1>9, <1>10, ChatFacts, OneChat DEF Sums

\* A failure.
LEMMA FailChatOK ==
    ASSUME ChatInv, NEW p \in Procs, H!Fail(p)
    PROVE  ChatInv'
BY ChatFacts, EndedOK DEF H!Fail, H!stored, H!cached

\* Nothing moves but the copies, which may go.
LEMMA ExpireOK ==
    ASSUME ChatInv, convCopy' \in {convCopy, Nil}, msgsCopy' \in {msgsCopy, Nil},
           UNCHANGED <<conv, msgs, memories, said, deleted, overwritten, last, messages, chat>>
    PROVE  ChatInv'
<1>1. convCopy' \in Sums /\ msgsCopy' \in Sums
  BY DEF ChatInv, ChatTyped, Sums
<1>2. ChatTyped'
  BY <1>1 DEF ChatInv, ChatTyped, KindOK, Spoke
<1>3. Room' /\ OneWriter'
  BY DEF ChatInv, Room, OneWriter, Writers, TwiceWriters, WritesOne, WritesTwo
<1>4. Uncovered => StoredOK'
  BY DEF ChatInv, StoredOK, Covers
<1>5. Uncovered => (\A p \in Procs : ChatRunOK(chat[p], conv, said))'
  <2>1. Uncovered => \A p \in Procs : ChatRunOK(chat'[p], conv', said')
    BY DEF ChatInv
  <2> QED
    BY <2>1 DEF H!ToSummarize, ChatRunOK, NewOK, ReadOK, WriteOK, FoldOK, DropOK, WillSave, Covers
<1>6. Uncovered' <=> Uncovered
  BY DEF Uncovered
<1> QED
  BY <1>2, <1>3, <1>4, <1>5, <1>6 DEF ChatInv

\* What is left of a request that committed.
Ended(r) ==
    /\ r.step \in {"history", "remember", "idle"} /\ r.kind \in {"chat", "reply"} /\ ~r.detached
    /\ r.kind = "reply" => r.step = "remember"
    /\ r.sum = Nil /\ r.drops = {}

\* Who has nothing to do with a summary.
Aside(r) == r.step = "idle" \/ (~WillSave(r) /\ r.kind # "fold")

\* A commit that nobody will overwrite leaves everybody at or past its summary.
LEMMA CommitCovers ==
    ASSUME ChatInv, NEW p \in Procs, H!Commit(p), Uncovered'
    PROVE  /\ Uncovered /\ chat[p].kind # "delete"
           /\ conv' = IF chat[p].sum # Nil THEN chat[p].sum ELSE conv
           /\ Covers(conv, conv') /\ (conv' = Nil <=> said' = {})
           /\ conv' # conv => /\ chat[p].sum # Nil /\ convCopy \in {Nil, conv'}
                              /\ \A q \in Procs \ {p} : Aside(chat[q])
<1>1. Uncovered /\ chat[p].kind # "delete" /\ ~H!Unseen(p) /\ chat[p].step = "commit"
  BY DEF H!Commit, H!At, Uncovered
<1>2. conv' = IF chat[p].sum # Nil THEN chat[p].sum ELSE conv
  BY <1>1 DEF H!Commit
<1>3. Covers(conv, conv')
  BY <1>1, <1>2, ChatFacts DEF ChatRunOK, WriteOK, Covers
<1>4. said' = said \cup chat[p].adds
  BY DEF H!Commit
<1>5. conv' = Nil <=> said' = {}
  <2>1. CASE chat[p].kind = "new"
    BY <1>1, <1>2, <1>4, <2>1, ChatFacts, EmptySum DEF ChatRunOK, NewOK
  <2>2. CASE chat[p].kind # "new"
    BY <1>1, <1>2, <1>4, <2>2, ChatFacts DEF ChatRunOK, NewOK, StoredOK
  <2> QED
    BY <2>1, <2>2
<1>6. ASSUME conv' # conv
      PROVE  /\ chat[p].sum # Nil /\ convCopy \in {Nil, conv'}
             /\ \A q \in Procs \ {p} : Aside(chat[q])
  <2>1. chat[p].sum \notin {Nil, conv} /\ conv' = chat[p].sum
    BY <1>2, <1>6
  <2>2. H!Outdated(p) = {} /\ convCopy \in {Nil, chat[p].sum}
    BY <1>1, <2>1 DEF H!Unseen
  <2>3. \A q \in Procs \ {p} : Aside(chat[q])
    BY <2>2 DEF H!Outdated, WillSave, Aside
  <2> QED
    BY <2>1, <2>2, <2>3
<1> QED
  BY <1>1, <1>2, <1>3, <1>5, <1>6

\* A commit, of a message, of a summary or of a deletion.
LEMMA CommitChatOK ==
    ASSUME ChatInv, NEW p \in Procs, H!Commit(p)
    PROVE  ChatInv'
<1>1. /\ chat[p] \in ChatRun /\ chat[p].step = "commit" /\ KindOK(chat[p])
      /\ UNCHANGED <<memories, convCopy, msgsCopy, last, messages>>
      /\ msgs' = (msgs \cup chat[p].adds) \ chat[p].drops /\ said' = said \cup chat[p].adds
  BY ChatFacts DEF H!Commit, H!At, H!cached
<1>2. PICK r \in ChatRun :
        /\ H!Set(p, r) /\ Ended(r)
        /\ r.step = "history" => chat[p].kind \in {"new", "chat"}
        /\ r.step = "remember" => chat[p].kind = "reply"
  <2>1. CASE chat[p].kind \in {"new", "chat"}
    <3> DEFINE r == [H!Idle EXCEPT !.step = "history"]
    <3>1. H!Set(p, r)
      BY <2>1 DEF H!Commit
    <3>2. r \in ChatRun /\ Ended(r)
      BY IdleChat DEF ChatRun, H!Idle, Ended
    <3>3. /\ r.step = "history" => chat[p].kind \in {"new", "chat"}
          /\ r.step = "remember" => chat[p].kind = "reply"
      BY <2>1 DEF H!Idle
    <3> QED
      BY <3>1, <3>2, <3>3
  <2>2. CASE chat[p].kind = "reply"
    <3> DEFINE r == [H!Idle EXCEPT !.kind = "reply", !.step = "remember"]
    <3>1. H!Set(p, r)
      BY <2>2 DEF H!Commit
    <3>2. r \in ChatRun /\ Ended(r)
      BY IdleChat DEF ChatRun, H!Idle, Ended
    <3>3. /\ r.step = "history" => chat[p].kind \in {"new", "chat"}
          /\ r.step = "remember" => chat[p].kind = "reply"
      BY <2>2 DEF H!Idle
    <3> QED
      BY <3>1, <3>2, <3>3
  <2>3. CASE chat[p].kind \notin {"new", "chat", "reply"}
    <3> DEFINE r == H!Idle
    <3>1. H!Set(p, r)
      BY <2>3 DEF H!Commit
    <3>2. r \in ChatRun /\ Ended(r)
      BY IdleChat DEF ChatRun, H!Idle, Ended
    <3>3. /\ r.step = "history" => chat[p].kind \in {"new", "chat"}
          /\ r.step = "remember" => chat[p].kind = "reply"
      BY <2>3 DEF H!Idle
    <3> QED
      BY <3>1, <3>2, <3>3
  <2> QED
    BY <2>1, <2>2, <2>3
<1>3. /\ r.step \in {"history", "remember", "idle"} /\ r.kind \in {"chat", "reply"} /\ ~r.detached
      /\ r.kind = "reply" => r.step = "remember"
  BY <1>2 DEF Ended
<1>4. r.sum = Nil /\ r.drops = {}
  BY <1>2 DEF Ended
<1>5. KindOK(r) /\ (Spoke(r) => Spoke(chat[p]))
  BY <1>1, <1>2, <1>3 DEF KindOK, Spoke
<1>6. Writes(r) <= Writes(chat[p])
  BY <1>1, <1>2, <1>3 DEF Writes, WritesOne, WritesTwo
<1>7. \A q \in Procs : chat'[q] = IF q = p THEN r ELSE chat[q]
  BY <1>2 DEF ChatInv, ChatTyped, H!Set
<1>8. Room'
  <2>1. PICK l \in Nat, k \in Nat, w \in 0..2, v \in 0..2 :
            l = last /\ k = messages /\ w = Writes(r) /\ v = Writes(chat[p])
    BY ChatFacts DEF Writes
  <2>2. l + w + 2 * k <= l + v + 2 * k
    BY <1>6, <2>1
  <2>3. last' + Writes(r) + 2 * messages' <= last + Writes(chat[p]) + 2 * messages
    BY <1>1, <2>1, <2>2
  <2>4. last' \in Nat /\ messages' \in Nat
    BY <1>1, <2>1
  <2> QED
    BY <1>2, <2>3, <2>4, RoomKept DEF ChatInv
<1>9. ChatTyped'
  <2>1. chat' \in [Procs -> ChatRun]
    BY <1>2 DEF ChatInv, ChatTyped, H!Set
  <2>2. conv' \in Sums
    BY <1>1, ChatFacts DEF H!Commit, ChatRun, Sums
  <2>3. msgs' \in SUBSET H!Message /\ said' \in SUBSET H!Message
    BY <1>1, ChatFacts DEF ChatRun
  <2>4. deleted' \in BOOLEAN /\ overwritten' \in BOOLEAN
    BY DEF H!Commit
  <2>5. \A q \in Procs : KindOK(chat'[q]) /\ (Spoke(chat'[q]) => last' >= 1)
    BY <1>1, <1>5, <1>7 DEF ChatInv, ChatTyped
  <2>6. (\A q \in Procs : KindOK(chat[q]) /\ (Spoke(chat[q]) => last >= 1))'
    BY <2>5 DEF KindOK, Spoke
  <2> QED
    BY <1>1, <2>1, <2>2, <2>3, <2>4, <2>6 DEF ChatInv, ChatTyped
<1>10. OneWriter'
  BY <1>4, <1>7 DEF ChatInv, OneWriter
<1>11. ASSUME Uncovered' PROVE StoredOK'
  <2>1. said' \ msgs' \subseteq IF conv' = Nil THEN {} ELSE conv'
    <3>1. said' \ msgs' \subseteq (said \ msgs) \cup chat[p].drops
      BY <1>1
    <3>2. said \ msgs \subseteq IF conv' = Nil THEN {} ELSE conv'
      BY <1>11, CommitCovers, ChatFacts DEF StoredOK, Covers
    <3>3. chat[p].drops \subseteq IF conv' = Nil THEN {} ELSE conv'
      BY <1>1, <1>11, CommitCovers, ChatFacts DEF ChatRunOK, DropOK, FoldOK
    <3> QED
      BY <3>1, <3>2, <3>3
  <2>2. convCopy' # Nil => Covers(conv', convCopy')
    BY <1>1, <1>11, CommitCovers, ChatFacts DEF StoredOK, Covers
  <2>3. conv' = Nil <=> said' = {}
    BY <1>11, CommitCovers
  <2> QED
    BY <2>1, <2>2, <2>3 DEF StoredOK, Covers
<1>12. ASSUME Uncovered' PROVE (\A q \in Procs : ChatRunOK(chat[q], conv, said))'
  <2>1. ASSUME NEW q \in Procs PROVE ChatRunOK(chat'[q], conv', said')
    <3>1. CASE q = p
      <4>1. said' = {} => r.step = "idle"
        <5>1. said' = {} => said = {} /\ chat[p].adds = {}
          BY <1>1
        <5> QED
          BY <1>1, <1>2, <1>3, <1>11, <1>12, <5>1, CommitCovers, ChatFacts DEF ChatRunOK, NewOK
      <4>2. ChatRunOK(r, conv', said')
        BY <1>3, <1>4, <4>1 DEF ChatRunOK, NewOK, ReadOK, WriteOK, FoldOK, DropOK, WillSave, Covers
      <4> QED
        BY <1>7, <3>1, <4>2
    <3>2. CASE q # p
      <4>1. chat'[q] = chat[q] /\ chat[q] \in ChatRun /\ ChatRunOK(chat[q], conv, said)
        BY <1>7, <1>12, <3>2, CommitCovers, ChatFacts
      <4>2. said' = {} => said = {}
        BY <1>1
      <4>3. CASE conv' = conv
        BY <4>1, <4>2, <4>3 DEF ChatRunOK, NewOK
      <4>4. CASE conv' # conv
        <5>1. chat[p].sum # Nil /\ Aside(chat[q])
          <6>1. q \in Procs \ {p}
            BY <3>2
          <6> QED
            BY <1>12, <4>4, <6>1, CommitCovers
        <5>2. chat[q].sum = Nil
          BY <3>2, <5>1 DEF ChatInv, OneWriter
        <5> QED
          BY <4>1, <4>2, <5>1, <5>2, EmptySum DEF Aside, ChatRunOK, NewOK, ReadOK, WriteOK,
             FoldOK, DropOK, WillSave, Covers
      <4> QED
        BY <4>3, <4>4
    <3> QED
      BY <3>1, <3>2
  <2> QED
    BY <2>1 DEF H!ToSummarize, ChatRunOK, NewOK, ReadOK, WriteOK, FoldOK, DropOK, WillSave, Covers
<1> QED
  BY <1>8, <1>9, <1>10, <1>11, <1>12 DEF ChatInv

\* No conversation yet.
LEMMA ChatInit ==
    ASSUME H!Init
    PROVE  ChatInv
<1>1. \A p \in Procs : chat[p] = H!Idle
  BY DEF H!Init
<1>2. ChatTyped
  <2>1. chat \in [Procs -> ChatRun]
    BY IdleChat DEF H!Init
  <2>2. \A p \in Procs : KindOK(chat[p]) /\ (Spoke(chat[p]) => last >= 1)
    BY <1>1, IdleChat
  <2>3. last \in 0..(2 * ChatExchanges) /\ messages \in Nat
    BY ChatAssumption DEF H!Init
  <2> QED
    BY <2>1, <2>2, <2>3 DEF H!Init, ChatTyped, Sums
<1>3. Room
  <2>1. Writers = {} /\ TwiceWriters = {}
    BY <1>1 DEF H!Idle, Writers, TwiceWriters, WritesOne, WritesTwo
  <2> QED
    BY <2>1, ChatAssumption, FS_EmptySet DEF Room, H!Init
<1>4. OneWriter
  BY <1>1, IdleChat DEF OneWriter
<1>5. StoredOK /\ \A p \in Procs : ChatRunOK(chat[p], conv, said)
  BY <1>1, IdleChat DEF H!Init, StoredOK
<1> QED
  BY <1>2, <1>3, <1>4, <1>5 DEF ChatInv

\* The invariant is inductive.
LEMMA ChatStep ==
    ASSUME ChatInv, [H!Next]_H!vars
    PROVE  ChatInv'
<1>1. CASE UNCHANGED H!vars
  BY <1>1, ExpireOK DEF H!vars
<1>2. CASE H!Expire
  BY <1>2, ExpireOK DEF H!Expire, H!stored
<1>3. ASSUME NEW p \in Procs,
             \/ H!Start(p) \/ H!New(p) \/ H!FillCopy(p) \/ H!Open(p) \/ H!Say(p) \/ H!Merge(p)
             \/ H!Flush(p) \/ H!History(p) \/ H!Stream(p) \/ H!SaveReply(p) \/ H!Remember(p)
             \/ H!Check(p) \/ H!Conversation(p) \/ H!Generate(p) \/ H!Drop(p) \/ H!Delete(p)
             \/ H!Commit(p) \/ H!Fail(p)
      PROVE  ChatInv'
  BY <1>3, StartOK, NewChatOK, FillCopyOK, OpenChatOK, SayOK, MergeChatOK, FlushChatOK, HistoryOK,
     StreamOK, SaveReplyOK, RememberOK, CheckOK, GenerateOK, DropChatOK, DeleteChatOK, CommitChatOK,
     FailChatOK
<1> QED
  BY <1>1, <1>2, <1>3 DEF H!Next

-----------------------------------------------------------------------------
(* A conversation: theorems *)

\* The inductive invariant of a conversation: ConversationRepository's writers hold
\* the row one at a time, and unless a commit was one that others had read past, a
\* summary that is stored, copied, held by a request or written by it has what the
\* stored one covers, and a fold (check_and_summarize) drops what its own has.
THEOREM ChatInvariance == ServicesSpec => [](scene = "chat" => ChatInv)
<1> DEFINE Inv == scene = "chat" => ChatInv
<1>1. ServicesInit => Inv
  BY ChatInit DEF ServicesInit
<1>2. Inv /\ [ServicesNext]_all => Inv'
  <2> SUFFICES ASSUME Inv, [ServicesNext]_all, scene' = "chat" PROVE ChatInv'
    OBVIOUS
  <2>1. scene = "chat"
    BY DEF ServicesNext, all
  <2>2. H!Next \/ UNCHANGED H!vars
    BY <2>1 DEF ServicesNext, all, hVars, H!vars
  <2> QED
    BY <2>1, <2>2, ChatStep
<1> QED
  BY <1>1, <1>2, PTL DEF ServicesSpec

\* What was said is among the stored messages or covered by the summary, however
\* chats, answers, summaries (check_and_summarize, delete_many, save), expiring
\* copies and failures interleave, up to a deletion or a summary committed over
\* what another request had read or over an older copy.
THEOREM NothingIsForgotten == ServicesSpec => []NothingForgotten
<1>1. (scene = "chat" => ChatInv) => NothingForgotten
  BY DEF ChatInv, StoredOK, Uncovered, NothingForgotten, H!NothingForgotten
<1> QED
  BY <1>1, ChatInvariance, PTL

-----------------------------------------------------------------------------
(* A list of tasks: the order *)

\* A set of numbers has a least one.
LEMMA HasLeast ==
  ASSUME NEW X \in SUBSET Nat, X # {}
  PROVE  \E i \in X : \A j \in X : i <= j
<1>1. \E x \in X : \A y \in X : ~ (<<y, x>> \in OpToRel(<, Nat))
  BY WFMin, NatLessThanWellFounded, Zenon
<1>2. ASSUME NEW x \in X, NEW y \in X, ~ (<<y, x>> \in OpToRel(<, Nat))
      PROVE  x <= y
  <2>1. <<y, x>> \in Nat \X Nat
    OBVIOUS
  <2>2. ~(y < x)
    BY <1>2, <2>1 DEF OpToRel
  <2> QED
    BY <2>2
<1> QED
  BY <1>1, <1>2, Zenon

\* The list's module counts like this one.
LEMMA TasksCardinality == \A X : Q!Cardinality(X) = Cardinality(X)
BY Zenon DEF Q!Cardinality, Cardinality

\* Of two tasks one comes first.
LEMMA OrderIsTotal ==
  ASSUME NEW a \in Listable, NEW b \in Listable, a # b, NEW sort
  PROVE  Q!Before(a, b, sort) \/ Q!Before(b, a, sort)
<1>1. a < b \/ b < a
  BY QueryAssumption
<1> QED
  BY <1>1 DEF Q!Before

\* An answer has every row that was asked for once, in the order.
LEMMA AnswersHaveAll ==
  ASSUME NEW X \in SUBSET Listable, NEW sort, NEW s \in Q!Answers(X, sort)
  PROVE  /\ Cardinality(X) \in Nat /\ s \in [1..Cardinality(X) -> X]
         /\ s \in Seq(X) /\ Len(s) = Cardinality(X) /\ DOMAIN s = 1..Cardinality(X)
         /\ \A i, j \in 1..Cardinality(X) : s[i] = s[j] => i = j
         /\ \A t \in X : \E i \in 1..Cardinality(X) : s[i] = t
         /\ \A i, j \in 1..Cardinality(X) : i < j => ~Q!Before(s[j], s[i], sort)
<1> DEFINE n == Cardinality(X)
<1>1. IsFiniteSet(X) /\ n \in Nat
  BY FS_Subset, FS_CardinalityType, QueryAssumption
<1>2. s \in [1..n -> X] /\ \A i, j \in 1..n : i # j => s[i] # s[j]
  <2>1. s \in Q!SetToSeqs(X)
    BY DEF Q!Answers
  <2>2. Q!Cardinality(X) = n
    BY TasksCardinality
  <2> HIDE DEF n
  <2> QED
    BY <2>1, <2>2 DEF Q!SetToSeqs
<1>3. s \in Injection(1..n, X)
  BY <1>2 DEF Injection, IsInjective
<1>4. IsFiniteSet(1..n) /\ Cardinality(1..n) = n
  BY <1>1, FS_Interval
<1>5. s \in Surjection(1..n, X)
  BY <1>1, <1>3, <1>4, FS_Injection
<1>6. \A t \in X : \E i \in 1..n : s[i] = t
  BY <1>5 DEF Surjection
<1>7. \A i, j \in DOMAIN s : i < j => ~Q!Before(s[j], s[i], sort)
  BY DEF Q!Answers
<1> QED
  BY <1>1, <1>2, <1>6, <1>7

\* The order leaves no tie, so there is one answer.
LEMMA OneAnswer ==
  ASSUME NEW X \in SUBSET Listable, NEW sort,
         NEW s \in Q!Answers(X, sort), NEW u \in Q!Answers(X, sort)
  PROVE  s = u
<1> DEFINE n == Cardinality(X)
           Differ == {i \in 1..n : s[i] # u[i]}
<1>1. /\ n \in Nat /\ s \in [1..n -> X]
      /\ \A i, j \in 1..n : s[i] = s[j] => i = j
      /\ \A t \in X : \E i \in 1..n : s[i] = t
      /\ \A i, j \in 1..n : i < j => ~Q!Before(s[j], s[i], sort)
  BY AnswersHaveAll
<1>2. /\ u \in [1..n -> X]
      /\ \A i, j \in 1..n : u[i] = u[j] => i = j
      /\ \A t \in X : \E i \in 1..n : u[i] = t
      /\ \A i, j \in 1..n : i < j => ~Q!Before(u[j], u[i], sort)
  BY AnswersHaveAll
<1> HIDE DEF n
<1> SUFFICES ASSUME s # u PROVE FALSE
  OBVIOUS
<1>21. Differ # {}
  <2>1. s = [i \in 1..n |-> s[i]] /\ u = [i \in 1..n |-> u[i]]
    BY <1>1, <1>2
  <2>2. PICK i \in 1..n : s[i] # u[i]
    BY <2>1, Zenon
  <2> QED
    BY <2>2
<1>3. PICK i \in Differ : \A j \in Differ : i <= j
  <2>1. Differ \in SUBSET Nat
    BY <1>1
  <2> HIDE DEF Differ
  <2> QED
    BY <1>21, <2>1, HasLeast
<1>4. i \in 1..n /\ s[i] # u[i] /\ \A j \in 1..n : j < i => s[j] = u[j]
  <2>1. ASSUME NEW j \in 1..n, j < i PROVE s[j] = u[j]
    <3>1. j \notin Differ
      BY <1>1, <1>3, <2>1
    <3> QED
      BY <3>1
  <2> QED
    BY <1>3, <2>1
<1>5. s[i] \in X /\ u[i] \in X /\ s[i] \in Listable /\ u[i] \in Listable
  BY <1>1, <1>2, <1>4
<1>6. PICK j \in 1..n : u[j] = s[i]
  BY <1>2, <1>5
<1>7. PICK k \in 1..n : s[k] = u[i]
  BY <1>1, <1>5
<1> HIDE DEF Differ
<1>71. i < j
  <2>1. j < i => s[j] = s[i]
    BY <1>4, <1>6
  <2>2. ~(j < i)
    BY <2>1, <1>1, <1>4
  <2>3. j # i
    BY <1>4, <1>6
  <2>4. i \in Int /\ j \in Int
    BY <1>1, <1>4
  <2> QED
    BY <2>2, <2>3, <2>4
<1>72. i < k
  <2>1. k < i => u[k] = u[i]
    BY <1>4, <1>7
  <2>2. ~(k < i)
    BY <2>1, <1>1, <1>2, <1>4
  <2>3. k # i
    BY <1>4, <1>7
  <2>4. i \in Int /\ k \in Int
    BY <1>1, <1>4
  <2> QED
    BY <2>2, <2>3, <2>4
<1>8. ~Q!Before(s[i], u[i], sort)
  BY <1>2, <1>4, <1>6, <1>71
<1>9. ~Q!Before(u[i], s[i], sort)
  BY <1>1, <1>4, <1>7, <1>72
<1> QED
  BY <1>4, <1>5, <1>8, <1>9, OrderIsTotal

-----------------------------------------------------------------------------
(* A list of tasks: its pages *)

QueryRun == [step : {"closed", "count", "items", "end"}, filter : Filters \cup {Nil},
             sort : Sorts \cup {Nil}, offset : Nat, total : Nat, shown : Seq(Listable),
             clean : BOOLEAN]
QueryTyped ==
    /\ listed \in [Listable -> Variants \cup {Nil}] /\ changes \in 0..QueryChanges
    /\ view \in QueryRun /\ view.total <= Cardinality(Listable)

\* What was read is the answer's beginning, and so the whole at the end.
Begins(t, s, n) ==
    /\ Len(t) = IF n <= Len(s) THEN n ELSE Len(s)
    /\ \A i \in 1..Len(t) : t[i] = s[i]
PagesOK(v) ==
    LET X == Q!Matching(v.filter) IN
    /\ \A s \in Q!Answers(X, v.sort) : Begins(v.shown, s, v.offset)
    /\ IF v.offset = 0 THEN v.shown = <<>> ELSE Q!Answers(X, v.sort) # {}
    /\ v.step = "items" /\ v.filter.tags = {} => v.total = Cardinality(X)
    /\ v.step = "end" => v.offset > 0 /\ v.offset >= v.total /\ v.total = Cardinality(X)

QueryInv ==
    /\ QueryTyped
    /\ view.step = "closed" => view = Q!Closed
    /\ view.step # "closed" /\ view.clean => PagesOK(view)

\* What is asked for is among the tasks.
LEMMA MatchingIsListable ==
  ASSUME NEW f
  PROVE  /\ Q!Matching(f) \in SUBSET Listable
         /\ Cardinality(Q!Matching(f)) \in Nat
         /\ Cardinality(Q!Matching(f)) <= Cardinality(Listable)
         /\ Cardinality(Listable) \in Nat
<1>1. Q!Matching(f) \in SUBSET Listable
  BY DEF Q!Matching, Q!Candidates, Q!Listed
<1> QED
  BY <1>1, FS_Subset, FS_CardinalityType, QueryAssumption

\* A page added to the answer's beginning gives a longer one.
LEMMA PageAdds ==
  ASSUME NEW X, NEW s \in Seq(X), NEW t \in Seq(X), NEW n \in Nat, NEW m \in Nat \ {0}
  PROVE  LET page == SubSeq(s, n + 1, IF n + m <= Len(s) THEN n + m ELSE Len(s))
         IN  /\ t \o page \in Seq(X)
             /\ Begins(t, s, n) => Begins(t \o page, s, n + m)
<1> DEFINE till == IF n + m <= Len(s) THEN n + m ELSE Len(s)
           page == SubSeq(s, n + 1, till)
<1>1. till \in Nat /\ till <= Len(s) /\ Len(s) \in Nat /\ Len(t) \in Nat
  OBVIOUS
<1>2. /\ page \in Seq(X)
      /\ Len(page) = IF n + 1 <= till THEN till - n ELSE 0
      /\ \A i \in 1..Len(page) : page[i] = s[n + i]
  <2> HIDE DEF till
  <2>1. page \in Seq(X)
    BY <1>1, SubSeqProperties
  <2> QED
    BY <1>1, <2>1, SubSeqProperties
<1> HIDE DEF page
<1>3. /\ t \o page \in Seq(X)
      /\ Len(t \o page) = Len(t) + Len(page)
      /\ \A i \in 1..Len(t \o page) :
            (t \o page)[i] = IF i <= Len(t) THEN t[i] ELSE page[i - Len(t)]
  <2>1. t \o page \in Seq(X)
    BY <1>2, ConcatProperties
  <2>2. Len(t \o page) = Len(t) + Len(page)
    BY <1>2, ConcatProperties
  <2> QED
    BY <1>2, <2>1, <2>2, ConcatProperties
<1>4. ASSUME Begins(t, s, n) PROVE Begins(t \o page, s, n + m)
  <2>1. Len(t) = (IF n <= Len(s) THEN n ELSE Len(s)) /\ Len(t) \in Nat
    BY <1>1, <1>4 DEF Begins
  <2>11. till = IF n + m <= Len(s) THEN n + m ELSE Len(s)
    OBVIOUS
  <2> HIDE DEF till
  <2>2. Len(t \o page) = IF n + m <= Len(s) THEN n + m ELSE Len(s)
    <3>1. Len(page) = IF n + 1 <= till THEN till - n ELSE 0
      BY <1>2
    <3>2. Len(t \o page) = Len(t) + Len(page)
      BY <1>3
    <3>3. CASE n <= Len(s)
      BY <1>1, <2>1, <2>11, <3>1, <3>2, <3>3
    <3>4. CASE ~(n <= Len(s))
      BY <1>1, <2>1, <2>11, <3>1, <3>2, <3>4
    <3> QED
      BY <3>3, <3>4
  <2>3. ASSUME NEW i \in 1..Len(t \o page) PROVE (t \o page)[i] = s[i]
    <3>1. CASE i <= Len(t)
      BY <1>3, <1>4, <2>1, <3>1 DEF Begins
    <3>2. CASE i > Len(t)
      <4>1. Len(page) = (IF n + 1 <= till THEN till - n ELSE 0) /\ Len(t \o page) = Len(t) + Len(page)
        BY <1>2, <1>3
      <4>2. Len(t) = n /\ i - Len(t) \in 1..Len(page)
        BY <1>1, <2>1, <2>2, <2>11, <3>2, <4>1
      <4> QED
        BY <1>2, <1>3, <3>2, <4>2
    <3> QED
      BY <3>1, <3>2, <2>1
  <2> QED
    BY <2>2, <2>3 DEF Begins
<1> QED
  BY <1>3, <1>4 DEF page

\* The initial state, and the steps.
LEMMA QueryInit == Q!Init => QueryInv
<1> SUFFICES ASSUME Q!Init PROVE QueryInv
  OBVIOUS
<1>1. Q!Closed \in QueryRun
  BY DEF Q!Closed, QueryRun
<1> QED
  BY <1>1, MatchingIsListable, QueryAssumption DEF Q!Init, QueryInv, QueryTyped, Q!Closed

\* While no task changes the answers are the same.
LEMMA SameAnswers ==
  ASSUME UNCHANGED listed
  PROVE  PagesOK(view)' <=> PagesOK(view')
<1>1. ASSUME NEW f PROVE Q!Matching(f)' = Q!Matching(f)
  BY DEF Q!Matching, Q!Candidates, Q!Listed
<1>2. ASSUME NEW X, NEW sort PROVE Q!Answers(X, sort)' = Q!Answers(X, sort)
  BY DEF Q!Answers, Q!Before, Q!ByKeys, Q!Earlier, Q!Column
<1> QED
  BY DEF PagesOK, Q!Matching, Q!Candidates, Q!Listed, Q!Answers, Q!Before, Q!ByKeys, Q!Earlier,
     Q!Column

LEMMA OpenOK ==
  ASSUME QueryInv, NEW f \in Filters, NEW sort \in Sorts, Q!Open(f, sort)
  PROVE  QueryInv'
<1>1. view' = [step |-> IF f.tags = {} THEN "count" ELSE "items", filter |-> f, sort |-> sort,
               offset |-> 0, total |-> 0, shown |-> <<>>, clean |-> TRUE]
  BY DEF Q!Open, Q!Closed
<1>2. QueryTyped'
  BY <1>1, MatchingIsListable DEF QueryInv, QueryTyped, QueryRun, Q!Open
<1>3. ASSUME NEW s \in Q!Answers(Q!Matching(f), sort) PROVE Begins(<<>>, s, 0)
  BY AnswersHaveAll, MatchingIsListable DEF Begins
<1>4. PagesOK(view')
  <2>1. f.tags = {} => view'.step = "count"
    BY <1>1
  <2> QED
    BY <1>1, <1>3, <2>1 DEF PagesOK
<1>5. PagesOK(view)'
  BY <1>4, SameAnswers DEF Q!Open
<1> QED
  BY <1>1, <1>2, <1>5 DEF QueryInv

LEMMA CountOK ==
  ASSUME QueryInv, Q!Count
  PROVE  QueryInv'
<1> DEFINE n == Cardinality(Q!Matching(view.filter))
<1>1. view' = [view EXCEPT !.step = "items", !.total = n] /\ UNCHANGED <<listed, changes>>
  BY TasksCardinality DEF Q!Count
<1>2. n \in Nat /\ n <= Cardinality(Listable)
  BY MatchingIsListable
<1>3. QueryTyped'
  BY <1>1, <1>2 DEF QueryInv, QueryTyped, QueryRun
<1>4. /\ view'.filter = view.filter /\ view'.sort = view.sort /\ view'.shown = view.shown
      /\ view'.offset = view.offset /\ view'.total = n /\ view'.step = "items"
      /\ view'.clean = view.clean
  BY <1>1 DEF QueryInv, QueryTyped, QueryRun
<1>5. view.step = "count"
  BY DEF Q!Count
<1>6. view.clean => PagesOK(view')
  BY <1>4, <1>5 DEF QueryInv, PagesOK
<1> QED
  BY <1>1, <1>3, <1>4, <1>6, SameAnswers DEF QueryInv

\* Either way of reading a page shows one of the answer for what matches.
LEMMA PageOK ==
  ASSUME QueryInv, view.step = "items", UNCHANGED <<listed, changes>>,
         NEW s \in Q!Answers(Q!Matching(view.filter), view.sort),
         NEW total, view' = Q!Shown(Q!Page(s), total),
         total \in Nat, total <= Cardinality(Listable),
         view.clean => total = Cardinality(Q!Matching(view.filter))
  PROVE  QueryInv'
<1> DEFINE X == Q!Matching(view.filter)
           page == Q!Page(s)
<1>1. /\ X \in SUBSET Listable /\ Cardinality(X) \in Nat
      /\ s \in Seq(X) /\ Len(s) = Cardinality(X) /\ s \in Seq(Listable)
  BY MatchingIsListable, AnswersHaveAll
<1>2. /\ view.offset \in Nat /\ view.shown \in Seq(Listable) /\ PageSize \in Nat \ {0}
  BY QueryAssumption DEF QueryInv, QueryTyped, QueryRun
<1>3. page = SubSeq(s, view.offset + 1,
                    IF view.offset + PageSize <= Len(s) THEN view.offset + PageSize ELSE Len(s))
  BY DEF Q!Page
<1>4. /\ view.shown \o page \in Seq(Listable)
      /\ Begins(view.shown, s, view.offset)
           => Begins(view.shown \o page, s, view.offset + PageSize)
  BY <1>1, <1>2, <1>3, PageAdds
<1>5. /\ view'.filter = view.filter /\ view'.sort = view.sort /\ view'.shown = view.shown \o page
      /\ view'.offset = view.offset + PageSize /\ view'.total = total
      /\ view'.step = IF view.offset + PageSize >= total THEN "end"
                      ELSE IF view.filter.tags = {} THEN "count" ELSE "items"
      /\ view'.clean = view.clean /\ view' \in QueryRun
  <2>1. view \in QueryRun
    BY DEF QueryInv, QueryTyped
  <2>2. view' = [view EXCEPT !.shown = view.shown \o page, !.total = total,
                             !.offset = view.offset + PageSize,
                             !.step = IF view.offset + PageSize >= total THEN "end"
                                      ELSE IF view.filter.tags = {} THEN "count" ELSE "items"]
    BY DEF Q!Shown
  <2> HIDE DEF page
  <2>3. view.offset + PageSize \in Nat
    BY <1>2
  <2> QED
    BY <1>4, <2>1, <2>2, <2>3 DEF QueryRun
<1>6. QueryTyped'
  BY <1>5 DEF QueryInv, QueryTyped
<1>7. ASSUME view.clean PROVE PagesOK(view')
  <2>1. PagesOK(view)
    BY <1>7 DEF QueryInv
  <2>2. ASSUME NEW u \in Q!Answers(X, view.sort)
        PROVE  Begins(view'.shown, u, view'.offset)
    <3>1. u = s
      BY <1>1, OneAnswer
    <3>2. Begins(view.shown, s, view.offset)
      BY <2>1 DEF PagesOK
    <3> QED
      BY <3>1, <3>2, <1>4, <1>5
  <2>3. view'.offset # 0 /\ view'.offset > 0
    BY <1>2, <1>5
  <2>4. view'.step = "items" => view.filter.tags # {}
    BY <1>5
  <2>5. view'.step = "end" => view'.offset >= view'.total
    BY <1>5
  <2> HIDE DEF page
  <2> QED
    BY <1>5, <1>7, <2>2, <2>3, <2>4, <2>5 DEF PagesOK
<1>8. view'.step # "closed"
  BY <1>5
<1> QED
  BY <1>5, <1>6, <1>7, <1>8, SameAnswers DEF QueryInv

LEMMA ItemsOfSqlOK ==
  ASSUME QueryInv, Q!ItemsOfSql
  PROVE  QueryInv'
<1>1. Q!Matching(view.filter) = Q!Candidates(view.filter)
  BY DEF Q!ItemsOfSql, Q!Matching
<1>2. PICK s \in Q!Answers(Q!Matching(view.filter), view.sort) :
        view' = Q!Shown(Q!Page(s), view.total)
  BY <1>1 DEF Q!ItemsOfSql
<1>3. view.step = "items" /\ view.filter.tags = {} /\ UNCHANGED <<listed, changes>>
  BY DEF Q!ItemsOfSql
<1>4. view.total \in Nat /\ view.total <= Cardinality(Listable)
  BY DEF QueryInv, QueryTyped, QueryRun
<1>5. view.clean => view.total = Cardinality(Q!Matching(view.filter))
  BY <1>3 DEF QueryInv, PagesOK
<1> QED
  BY <1>2, <1>3, <1>4, <1>5, PageOK

LEMMA ItemsWithTagsOK ==
  ASSUME QueryInv, Q!ItemsWithTags
  PROVE  QueryInv'
<1>1. PICK s \in Q!Answers(Q!Matching(view.filter), view.sort) :
        view' = Q!Shown(Q!Page(s), Len(s))
  BY DEF Q!ItemsWithTags
<1>2. view.step = "items" /\ UNCHANGED <<listed, changes>>
  BY DEF Q!ItemsWithTags
<1>3. /\ Len(s) = Cardinality(Q!Matching(view.filter)) /\ Len(s) \in Nat
      /\ Len(s) <= Cardinality(Listable)
  BY MatchingIsListable, AnswersHaveAll
<1> QED
  BY <1>1, <1>2, <1>3, PageOK

LEMMA CloseOK ==
  ASSUME QueryInv, Q!Close
  PROVE  QueryInv'
<1>1. Q!Closed \in QueryRun /\ Q!Closed.total = 0 /\ Q!Closed.step = "closed"
  BY DEF Q!Closed, QueryRun
<1> QED
  BY <1>1, MatchingIsListable DEF Q!Close, QueryInv, QueryTyped

LEMMA ChangeOK ==
  ASSUME QueryInv, NEW t \in Listable, NEW row \in Variants \cup {Nil}, Q!Change(t, row)
  PROVE  QueryInv'
<1>1. /\ view' = [view EXCEPT !.clean = (view.step = "closed")]
      /\ listed' = [listed EXCEPT ![t] = row] /\ changes > 0 /\ changes' = changes - 1
  BY DEF Q!Change
<1>2. QueryTyped'
  <2>1. view \in QueryRun /\ view.total <= Cardinality(Listable)
    BY DEF QueryInv, QueryTyped
  <2>2. (view.step = "closed") \in BOOLEAN
    OBVIOUS
  <2>3. view' \in QueryRun /\ view'.total = view.total
    BY <1>1, <2>1, <2>2 DEF QueryRun
  <2>4. listed' \in [Listable -> Variants \cup {Nil}]
    BY <1>1 DEF QueryInv, QueryTyped
  <2>5. changes' \in 0..QueryChanges
    BY <1>1, QueryAssumption DEF QueryInv, QueryTyped
  <2> QED
    BY <2>1, <2>3, <2>4, <2>5 DEF QueryTyped
<1>3. CASE view.step = "closed"
  <2>1. view = Q!Closed
    BY <1>3 DEF QueryInv
  <2>2. view \in QueryRun /\ view.clean = TRUE
    BY <2>1 DEF QueryInv, QueryTyped, Q!Closed
  <2>3. view' = view
    BY <1>1, <1>3, <2>2 DEF QueryRun
  <2> QED
    BY <1>2, <1>3, <2>1, <2>3 DEF QueryInv, Q!Closed
<1>4. CASE view.step # "closed"
  <2>1. view'.step = view.step /\ view'.clean = FALSE
    BY <1>1, <1>4 DEF QueryInv, QueryTyped, QueryRun
  <2> QED
    BY <1>2, <1>4, <2>1 DEF QueryInv
<1> QED
  BY <1>3, <1>4

LEMMA QueryStep ==
  ASSUME QueryInv, Q!Next \/ UNCHANGED Q!vars
  PROVE  QueryInv'
<1>1. CASE UNCHANGED Q!vars
  <2>1. UNCHANGED <<listed, view, changes>>
    BY <1>1 DEF Q!vars
  <2>2. PagesOK(view)' <=> PagesOK(view)
    BY <2>1, SameAnswers
  <2> QED
    BY <2>1, <2>2 DEF QueryInv, QueryTyped
<1>2. CASE Q!Next
  BY <1>2, OpenOK, CountOK, ItemsOfSqlOK, ItemsWithTagsOK, CloseOK, ChangeOK DEF Q!Next
<1> QED
  BY <1>1, <1>2

\* What the invariant says of the pages, and of the types.
LEMMA PagesFollow == QueryInv => Q!PagesShowEverything
<1> SUFFICES ASSUME QueryInv, view.clean PROVE
        /\ Q!IsInjective(view.shown)
        /\ view.step = "end" =>
            /\ {view.shown[i] : i \in DOMAIN view.shown} = Q!Matching(view.filter)
            /\ view.total = Len(view.shown)
  BY DEF Q!PagesShowEverything
<1> DEFINE X == Q!Matching(view.filter)
<1>1. view.shown \in Seq(Listable) /\ view.offset \in Nat /\ view.total \in Nat
  BY DEF QueryInv, QueryTyped, QueryRun
<1>2. view.shown = <<>> => Q!IsInjective(view.shown)
  BY DEF Q!IsInjective
<1>3. CASE view.shown = <<>> /\ view.step # "end"
  BY <1>2, <1>3
<1>4. CASE view.shown # <<>> \/ view.step = "end"
  <2>1. PagesOK(view)
    BY <1>4 DEF QueryInv, Q!Closed
  <2>2. PICK s \in Q!Answers(X, view.sort) : Begins(view.shown, s, view.offset)
    BY <1>1, <1>4, <2>1 DEF PagesOK
  <2>3. /\ Cardinality(X) \in Nat /\ s \in [1..Cardinality(X) -> X] /\ Len(s) = Cardinality(X)
        /\ \A i, j \in 1..Cardinality(X) : s[i] = s[j] => i = j
        /\ \A t \in X : \E i \in 1..Cardinality(X) : s[i] = t
    BY MatchingIsListable, AnswersHaveAll
  <2> HIDE DEF X
  <2>4. /\ Len(view.shown) \in Nat /\ Len(view.shown) <= Cardinality(X)
        /\ DOMAIN view.shown = 1..Len(view.shown)
        /\ \A i \in 1..Len(view.shown) : view.shown[i] = s[i]
    BY <1>1, <2>2, <2>3 DEF Begins
  <2>5. Q!IsInjective(view.shown)
    BY <2>3, <2>4 DEF Q!IsInjective
  <2>6. ASSUME view.step = "end"
        PROVE  /\ {view.shown[i] : i \in DOMAIN view.shown} = X
               /\ view.total = Len(view.shown)
    <3>1. view.offset >= Cardinality(X) /\ view.total = Cardinality(X)
      BY <2>1, <2>6 DEF PagesOK, X
    <3>2. Len(view.shown) = Cardinality(X)
      BY <1>1, <2>2, <2>3, <3>1 DEF Begins
    <3> QED
      BY <2>3, <2>4, <3>1, <3>2
  <2> QED
    BY <2>5, <2>6 DEF X
<1> QED
  BY <1>3, <1>4

-----------------------------------------------------------------------------
(* A list of tasks: theorems *)

\* The inductive invariant of a list that is read page by page: as long as no task
\* changed, what was read is the beginning of the one answer to the query
\* (query_tasks_by_user: ORDER BY ends with the id), and the total counts it.
THEOREM QueryInvariance == ServicesSpec => [](scene = "query" => QueryInv)
<1> DEFINE Inv == scene = "query" => QueryInv
<1>1. ServicesInit => Inv
  BY QueryInit DEF ServicesInit
<1>2. Inv /\ [ServicesNext]_all => Inv'
  <2> SUFFICES ASSUME Inv, [ServicesNext]_all, scene' = "query" PROVE QueryInv'
    OBVIOUS
  <2>1. scene = "query"
    BY DEF ServicesNext, all
  <2>2. Q!Next \/ UNCHANGED Q!vars
    BY <2>1 DEF ServicesNext, all, qVars, Q!vars
  <2> QED
    BY <2>1, <2>2, QueryStep
<1> QED
  BY <1>1, <1>2, PTL DEF ServicesSpec

\* The pages of a list show every task that matches once, and the total counts
\* them, for any tasks, filters, orders and page size, with and without tags, as
\* long as no task changes while they are read (query_tasks_by_user,
\* get_tasks_by_user_paginated).
THEOREM AllPagesShown == ServicesSpec => []PagesShowEverything
<1>1. (scene = "query" => QueryInv) => PagesShowEverything
  BY PagesFollow DEF PagesShowEverything
<1> QED
  BY <1>1, QueryInvariance, PTL

-----------------------------------------------------------------------------
(* Signing in: limits *)

Counters == [n : Nat \ {0}, until : Int]
Live(h, t) == h # Nil /\ h.until > t
\* The limiter of a key: let through X, with counter h at time t.
Limited(X, h, t, w, limit) ==
    /\ IsFiniteSet(X) /\ X \subseteq Int \X Nat
    /\ \A x \in X : t - w < x[1] /\ x[1] <= t
    /\ h # Nil => h \in Counters
    /\ Live(h, t) =>
        LET s == h.until - w
            new == {x \in X : x[1] >= s}
        IN /\ s <= t /\ \E x \in new : x[1] = s
           /\ \A x \in new : x[2] < h.n
           /\ Cardinality(new) = IF h.n < limit THEN h.n ELSE limit
           /\ Cardinality({x \in X : x[1] < s}) <= limit - 1
    /\ ~Live(h, t) => (\A x \in X : x[1] < t) /\ Cardinality(X) <= limit - 1
LimiterOK ==
    \A k \in I!Keys : Limited(passed[k], hits[k], minute, RateWindow[k[1]], RateLimit[k[1]])

LEMMA KeyFacts ==
    ASSUME NEW k \in I!Keys
    PROVE  RateWindow[k[1]] \in Nat \ {0} /\ RateLimit[k[1]] \in Nat \ {0}
<1>1. k[1] \in I!Scopes
  BY DEF I!Keys, I!Scopes
<1> QED
  BY <1>1, SignInAssumption

\* A hit is counted, and let through while there are few.
LEMMA HitCounted ==
    ASSUME NEW X, NEW h, NEW t \in Int, NEW w \in Nat \ {0}, NEW limit \in Nat \ {0},
           Limited(X, h, t, w, limit), NEW n, n = (IF Live(h, t) THEN h.n ELSE 0),
           NEW h1, h1 = [n |-> n + 1, until |-> IF n = 0 THEN t + w ELSE h.until],
           NEW X1, X1 = IF n < limit THEN X \cup {<<t, n>>} ELSE X
    PROVE  Limited(X1, h1, t, w, limit)
<1>1. n \in Nat /\ (n = 0 <=> ~Live(h, t))
  BY DEF Limited, Live, Counters
<1>2. IsFiniteSet(X) /\ X \subseteq Int \X Nat /\ \A x \in X : t - w < x[1] /\ x[1] <= t
  BY DEF Limited
<1>3. h1 \in Counters /\ h1 # Nil /\ h1.n = n + 1 /\ Live(h1, t)
  <2>1. h1 \in Counters
    BY <1>1 DEF Counters, Limited, Live
  <2>2. h1.until > t
    BY <1>1 DEF Limited, Live
  <2> QED
    BY <2>1, <2>2, SignInAssumption DEF Counters, Live
<1>4. IsFiniteSet(X1) /\ X1 \subseteq Int \X Nat /\ \A x \in X1 : t - w < x[1] /\ x[1] <= t
  <2>1. IsFiniteSet(X1)
    BY <1>2, FS_AddElement
  <2> QED
    BY <1>1, <1>2, <2>1
<1> DEFINE s == h1.until - w
           new == {x \in X : x[1] >= s}
           new1 == {x \in X1 : x[1] >= s}
<1>5. s \in Int /\ s <= t /\ (Live(h, t) => s = h.until - w) /\ (~Live(h, t) => s = t)
  BY <1>1, <1>3 DEF Limited, Counters
<1>6. /\ \A x \in new : x[2] < n
      /\ Cardinality(new) = IF n < limit THEN n ELSE limit
      /\ Cardinality({x \in X : x[1] < s}) <= limit - 1
  <2>1. CASE Live(h, t)
    BY <1>1, <1>5, <2>1 DEF Limited
  <2>2. CASE ~Live(h, t)
    <3>1. \A x \in X : x[1] < s
      BY <1>5, <2>2 DEF Limited
    <3>2. new = {} /\ {x \in X : x[1] < s} = X
      BY <1>2, <1>5, <3>1
    <3>3. n = 0 /\ Cardinality(X) <= limit - 1
      BY <1>1, <2>2 DEF Limited
    <3>4. Cardinality(new) = 0
      BY <3>2, FS_EmptySet
    <3>5. Cardinality({x \in X : x[1] < s}) <= limit - 1
      BY <3>2, <3>3
    <3>6. \A x \in new : x[2] < n
      BY <3>2
    <3> HIDE DEF new
    <3> QED
      BY <3>3, <3>4, <3>5, <3>6
  <2> QED
    BY <2>1, <2>2
<1>7. {x \in X1 : x[1] < s} = {x \in X : x[1] < s}
  BY <1>1, <1>5
<1>8. \E x \in new1 : x[1] = s
  <2>1. CASE Live(h, t)
    BY <1>5, <2>1 DEF Limited
  <2>2. CASE ~Live(h, t)
    <3>1. <<t, n>> \in new1
      BY <1>1, <1>5, <2>2
    <3> QED
      BY <1>5, <2>2, <3>1
  <2> QED
    BY <2>1, <2>2
<1>9. \A x \in new1 : x[2] < n + 1
  BY <1>1, <1>2, <1>6
<1>10. Cardinality(new1) = IF n + 1 < limit THEN n + 1 ELSE limit
  <2>1. CASE n < limit
    <3>1. new1 = new \cup {<<t, n>>}
      BY <1>1, <1>5, <2>1
    <3>2. <<t, n>> \notin new
      BY <1>1, <1>6
    <3>3. IsFiniteSet(new)
      BY <1>2, FS_Subset
    <3>4. Cardinality(new1) = Cardinality(new) + 1
      BY <3>1, <3>2, <3>3, FS_AddElement
    <3>5. Cardinality(new) = n
      BY <1>6, <2>1
    <3> QED
      BY <1>1, <2>1, <3>4, <3>5
  <2>2. CASE ~(n < limit)
    <3>1. new1 = new
      BY <2>2
    <3> QED
      BY <1>1, <1>6, <2>2, <3>1
  <2> QED
    BY <2>1, <2>2
<1> HIDE DEF new, new1, s
<1> QED
  BY <1>3, <1>4, <1>5, <1>6, <1>7, <1>8, <1>9, <1>10 DEF Limited, s, new1

\* A minute passes: what the counter does not count any more is few.
LEMMA HitsPass ==
    ASSUME NEW X, NEW h, NEW t \in Int, NEW w \in Nat \ {0}, NEW limit \in Nat \ {0},
           Limited(X, h, t, w, limit), NEW ending, ending = t + 1,
           NEW h1, h1 = (IF h # Nil /\ h.until <= ending THEN Nil ELSE h),
           NEW X1, X1 = {x \in X : x[1] > ending - w}
    PROVE  Limited(X1, h1, ending, w, limit)
<1>1. IsFiniteSet(X) /\ X \subseteq Int \X Nat /\ (\A x \in X : t - w < x[1] /\ x[1] <= t)
      /\ (h # Nil => h \in Counters)
  BY DEF Limited
<1>2. IsFiniteSet(X1) /\ X1 \subseteq Int \X Nat /\ (\A x \in X1 : ending - w < x[1] /\ x[1] <= ending)
  BY <1>1, FS_Subset
<1>3. CASE Live(h1, ending)
  <2>1. h1 = h /\ Live(h, t) /\ h \in Counters /\ h.until > ending
    BY <1>1, <1>3 DEF Live, Counters
  <2> DEFINE s == h.until - w
  <2>2. s \in Int /\ s > ending - w /\ s <= ending
    BY <2>1 DEF Counters, Limited
  <2>3. {x \in X1 : x[1] >= s} = {x \in X : x[1] >= s}
    BY <1>1, <2>2
  <2>4. /\ IsFiniteSet({x \in X : x[1] < s}) /\ {x \in X1 : x[1] < s} \subseteq {x \in X : x[1] < s}
    BY <1>1, FS_Subset
  <2>5. Cardinality({x \in X1 : x[1] < s}) <= Cardinality({x \in X : x[1] < s})
        /\ Cardinality({x \in X1 : x[1] < s}) \in Nat /\ Cardinality({x \in X : x[1] < s}) \in Nat
    BY <2>4, FS_Subset, FS_CardinalityType
  <2>6. /\ \E x \in {x \in X : x[1] >= s} : x[1] = s
        /\ \A x \in {x \in X : x[1] >= s} : x[2] < h.n
        /\ Cardinality({x \in X : x[1] >= s}) = IF h.n < limit THEN h.n ELSE limit
        /\ Cardinality({x \in X : x[1] < s}) <= limit - 1
    BY <2>1 DEF Limited
  <2>7. Cardinality({x \in X1 : x[1] < s}) <= limit - 1
    BY <2>5, <2>6
  <2> HIDE DEF s
  <2> QED
    BY <1>1, <1>2, <1>3, <2>1, <2>2, <2>3, <2>6, <2>7 DEF Limited, s
<1>4. CASE ~Live(h1, ending)
  <2>1. \A x \in X1 : x[1] < ending
    BY <1>1
  <2>2. Cardinality(X1) <= limit - 1
    <3>1. CASE Live(h, t)
      <4> DEFINE s == h.until - w
                 new == {x \in X : x[1] >= s}
      <4>1. h \in Counters /\ h.until <= ending /\ s \in Int /\ ending - w >= s
        BY <1>1, <1>4, <3>1 DEF Live, Counters
      <4>2. PICK y \in new : y[1] = s
        BY <3>1 DEF Limited
      <4>3. X1 \subseteq new \ {y}
        BY <1>1, <4>1, <4>2
      <4>4. IsFiniteSet(new) /\ IsFiniteSet(new \ {y})
        BY <1>1, FS_Subset
      <4>5. Cardinality(new \ {y}) = Cardinality(new) - 1 /\ Cardinality(new) \in Nat
        BY <4>2, <4>4, FS_RemoveElement, FS_CardinalityType
      <4>6. Cardinality(X1) <= Cardinality(new \ {y}) /\ Cardinality(X1) \in Nat
        BY <1>2, <4>3, <4>4, FS_Subset, FS_CardinalityType
      <4>7. Cardinality(new) <= limit
        BY <3>1, <4>1 DEF Limited, Counters
      <4> HIDE DEF new
      <4> QED
        BY <4>5, <4>6, <4>7
    <3>2. CASE ~Live(h, t)
      <4>1. Cardinality(X1) <= Cardinality(X) /\ Cardinality(X1) \in Nat /\ Cardinality(X) \in Nat
        BY <1>1, <1>2, FS_Subset, FS_CardinalityType
      <4>2. Cardinality(X) <= limit - 1
        BY <3>2 DEF Limited
      <4> QED
        BY <4>1, <4>2
    <3> QED
      BY <3>1, <3>2
  <2>3. h1 = Nil \/ h1 \in Counters
    BY <1>1
  <2> QED
    BY <1>2, <1>4, <2>1, <2>2, <2>3 DEF Limited
<1> QED
  BY <1>3, <1>4

\* Nothing is counted.
LEMMA NoHits ==
    ASSUME NEW t \in Int, NEW w \in Nat \ {0}, NEW limit \in Nat \ {0}
    PROVE  Limited({}, Nil, t, w, limit)
BY FS_EmptySet DEF Limited, Live

-----------------------------------------------------------------------------
(* Signing in: sessions, Google's tokens and steps *)

\* A browser's tokens are those it was given when it was last seen.
JarOK(c) ==
    /\ DOMAIN jar[c] = {"access", "refresh"} /\ seen[c].at \in Int /\ seen[c].at <= minute
    /\ jar[c].access # Nil => \E x \in {"access", Nil} :
         jar[c].access = I!Token(x, seen[c].email, seen[c].at, AccessLife)
    /\ jar[c].refresh # Nil => \E x \in {"refresh", Nil} :
         jar[c].refresh = I!Token(x, seen[c].email, seen[c].at, RefreshLife)
SignInv ==
    /\ minute \in Nat
    /\ hits = [k \in I!Keys |-> hits[k]] /\ passed = [k \in I!Keys |-> passed[k]] /\ LimiterOK
    /\ jar = [c \in Procs |-> jar[c]] /\ seen = [c \in Procs |-> seen[c]]
    /\ \A c \in Procs : JarOK(c)
    /\ given = [c \in Procs |-> given[c]] /\ I!GoogleTokenWorks

\* What a limiter does to its key, and to no other.
LEMMA EnforceOK ==
    ASSUME SignInv, NEW k, I!Enforce(k), minute' = minute
    PROVE  /\ hits' = [j \in I!Keys |-> hits'[j]] /\ passed' = [j \in I!Keys |-> passed'[j]]
           /\ LimiterOK'
<1>1. PICK t \in Int : t = minute
  BY DEF SignInv
<1>2. hits' = [j \in I!Keys |-> hits'[j]] /\ passed' = [j \in I!Keys |-> passed'[j]]
  BY DEF SignInv, I!Enforce
<1>3. ASSUME NEW j \in I!Keys
      PROVE  Limited(passed'[j], hits'[j], t, RateWindow[j[1]], RateLimit[j[1]])
  <2>1. Limited(passed[j], hits[j], t, RateWindow[j[1]], RateLimit[j[1]])
    BY <1>1 DEF SignInv, LimiterOK
  <2>2. CASE j # k \/ ~answers
    BY <2>1, <2>2 DEF SignInv, I!Enforce
  <2>3. CASE j = k /\ answers
    <3> DEFINE n == IF Live(hits[k], t) THEN hits[k].n ELSE 0
    <3>1. I!Hits(k) = n
      BY <1>1 DEF I!Hits, Live
    <3>2. hits'[k] = [n |-> n + 1, until |-> IF n = 0 THEN t + RateWindow[k[1]] ELSE hits[k].until]
      BY <1>1, <2>3, <3>1 DEF SignInv, I!Enforce, I!Counted
    <3>3. passed'[k] = IF n < RateLimit[k[1]] THEN passed[k] \cup {<<t, n>>} ELSE passed[k]
      BY <1>1, <2>3, <3>1 DEF SignInv, I!Enforce, I!Passes
    <3> HIDE DEF n
    <3> QED
      BY <2>1, <2>3, <3>2, <3>3, KeyFacts, HitCounted DEF n
  <2> QED
    BY <2>2, <2>3
<1> QED
  BY <1>1, <1>2, <1>3 DEF LimiterOK

\* Most requests see to one of the three.
LEMMA LimiterRests ==
    ASSUME SignInv, UNCHANGED <<minute, hits, passed>>
    PROVE  /\ hits' = [j \in I!Keys |-> hits'[j]] /\ passed' = [j \in I!Keys |-> passed'[j]]
           /\ LimiterOK'
BY DEF SignInv, LimiterOK
LEMMA SessionsRest ==
    ASSUME SignInv, UNCHANGED <<minute, jar, seen>>
    PROVE  /\ jar' = [c \in Procs |-> jar'[c]] /\ seen' = [c \in Procs |-> seen'[c]]
           /\ (\A c \in Procs : JarOK(c))'
BY DEF SignInv, JarOK, I!Token
LEMMA GoogleRests ==
    ASSUME SignInv, UNCHANGED given
    PROVE  given' = [c \in Procs |-> given'[c]] /\ I!GoogleTokenWorks'
BY DEF SignInv, I!GoogleTokenWorks

\* Those of a limiter.
LEMMA LimitedOK ==
    ASSUME SignInv, NEW c \in Procs,
           I!RequestLink(c) \/ I!LimitEmail(c) \/ I!Verify(c) \/ I!LoginGoogle(c)
    PROVE  SignInv'
<1>1. UNCHANGED <<minute, jar, seen, given>> /\ \E k : I!Enforce(k)
  BY DEF I!RequestLink, I!LimitEmail, I!Verify, I!LoginGoogle, I!sessions, I!google
<1> QED
  BY <1>1, EnforceOK, SessionsRest, GoogleRests DEF SignInv

\* Those of none.
LEMMA SteadyOK ==
    ASSUME SignInv, UNCHANGED <<minute, hits, passed, jar, seen, given>>
    PROVE  SignInv'
BY LimiterRests, SessionsRest, GoogleRests DEF SignInv

LEMMA IssueOK ==
    ASSUME SignInv, NEW c \in Procs, I!Issue(c) \/ I!Logout(c)
    PROVE  SignInv'
<1>1. UNCHANGED <<minute, hits, passed, given>>
  BY DEF I!Issue, I!Logout, I!limiter, I!google
<1>2. ASSUME NEW d \in Procs PROVE JarOK(d)'
  <2>1. CASE d # c
    <3>1. jar'[d] = jar[d] /\ seen'[d] = seen[d]
      BY <2>1 DEF SignInv, I!Issue, I!Logout
    <3> QED
      BY <1>1, <3>1 DEF SignInv, JarOK, I!Token
  <2>2. CASE d = c /\ I!Issue(c)
    <3>1. /\ jar'[c] = [access |-> I!Token("access", visit[c].email, minute, AccessLife),
                        refresh |-> I!Token("refresh", visit[c].email, minute, RefreshLife)]
          /\ seen'[c] = [email |-> visit[c].email, at |-> minute]
      BY <2>2 DEF SignInv, I!Issue
    <3> QED
      BY <1>1, <2>2, <3>1 DEF SignInv, JarOK, I!Token
  <2>3. CASE d = c /\ I!Logout(c)
    <3>1. jar'[c] = [access |-> Nil, refresh |-> Nil] /\ seen'[c] = [email |-> Nil, at |-> 0]
      BY <2>3 DEF SignInv, I!Logout, I!Empty, I!NotSeen
    <3> QED
      BY <1>1, <2>3, <3>1 DEF SignInv, JarOK
  <2> QED
    BY <2>1, <2>2, <2>3
<1>3. jar' = [d \in Procs |-> jar'[d]] /\ seen' = [d \in Procs |-> seen'[d]]
  BY DEF SignInv, I!Issue, I!Logout
<1> QED
  BY <1>1, <1>2, <1>3, LimiterRests, GoogleRests DEF SignInv

\* A carried of Google is given out.
LEMMA GiveOK ==
    ASSUME SignInv, NEW c \in Procs, I!ReuseToken(c) \/ I!NewToken(c)
    PROVE  SignInv'
<1>1. UNCHANGED <<minute, hits, passed, jar, seen>>
  BY DEF I!ReuseToken, I!NewToken, I!sessions, I!limiter
<1>2. given' = given \/ \E exp, fresh :
        I!Give(c, visit[c].connection, exp, fresh) /\ (fresh \/ exp > minute + Margin)
  BY DEF I!ReuseToken, I!NewToken, I!Reusable, I!Kept, I!google
<1>3. given' = [d \in Procs |-> given'[d]] /\ I!GoogleTokenWorks'
  <2>1. CASE given' = given
    BY <2>1, GoogleRests
  <2>2. CASE given' # given
    <3>1. PICK exp, fresh :
            I!Give(c, visit[c].connection, exp, fresh) /\ (fresh \/ exp > minute + Margin)
      BY <1>2, <2>2, Zenon
    <3> QED
      BY <3>1 DEF SignInv, I!Give, I!GoogleTokenWorks
  <2> QED
    BY <2>1, <2>2
<1> QED
  BY <1>1, <1>3, LimiterRests, SessionsRest DEF SignInv

\* A minute passes.
LEMMA TickOK ==
    ASSUME SignInv, I!Tick
    PROVE  SignInv'
<1>1. PICK t \in Nat, ending \in Nat : t = minute /\ ending = minute' /\ ending = t + 1
  BY DEF SignInv, I!Tick
<1>2. LimiterOK' /\ hits' = [k \in I!Keys |-> hits'[k]] /\ passed' = [k \in I!Keys |-> passed'[k]]
  <2>1. ASSUME NEW k \in I!Keys
        PROVE  Limited(passed'[k], hits'[k], ending, RateWindow[k[1]], RateLimit[k[1]])
    <3>1. Limited(passed[k], hits[k], t, RateWindow[k[1]], RateLimit[k[1]])
      BY <1>1 DEF SignInv, LimiterOK
    <3>2. /\ hits'[k] = IF hits[k] # Nil /\ hits[k].until <= ending THEN Nil ELSE hits[k]
          /\ passed'[k] = {x \in passed[k] : x[1] > ending - RateWindow[k[1]]}
      BY <1>1 DEF I!Tick
    <3>3. PICK w \in Nat \ {0}, limit \in Nat \ {0} : w = RateWindow[k[1]] /\ limit = RateLimit[k[1]]
      BY KeyFacts
    <3>4. PICK X, h : X = passed[k] /\ h = hits[k]
      OBVIOUS
    <3>5. Limited(X, h, t, w, limit)
      BY <3>1, <3>3, <3>4
    <3>6. PICK X1, h1 : X1 = {x \in X : x[1] > ending - w}
                        /\ h1 = IF h # Nil /\ h.until <= ending THEN Nil ELSE h
      OBVIOUS
    <3>7. Limited(X1, h1, ending, w, limit)
      BY <1>1, <3>5, <3>6, HitsPass
    <3>8. passed'[k] = X1 /\ hits'[k] = h1
      BY <3>2, <3>3, <3>4, <3>6
    <3> QED
      BY <3>3, <3>7, <3>8
  <2> QED
    BY <1>1, <2>1 DEF LimiterOK, I!Tick
<1>3. ASSUME NEW c \in Procs PROVE JarOK(c)'
  <2>1. /\ DOMAIN jar'[c] = {"access", "refresh"} /\ seen'[c] = seen[c]
        /\ jar'[c].access \in {jar[c].access, Nil} /\ jar'[c].refresh \in {jar[c].refresh, Nil}
    BY DEF SignInv, JarOK, I!Tick
  <2>2. seen[c].at \in Int /\ seen[c].at <= ending
    BY <1>1 DEF SignInv, JarOK
  <2> QED
    BY <1>1, <2>1, <2>2 DEF SignInv, JarOK, I!Token
<1>4. jar' = [c \in Procs |-> jar'[c]] /\ seen' = [c \in Procs |-> seen'[c]]
  BY DEF SignInv, I!Tick
<1>5. given' = [c \in Procs |-> given'[c]] /\ I!GoogleTokenWorks'
  BY DEF I!Tick, I!GoogleTokenWorks
<1> QED
  BY <1>1, <1>2, <1>3, <1>4, <1>5 DEF SignInv

\* Redis goes, with what it holds or without losing it.
LEMMA RedisGoesOK ==
    ASSUME SignInv, I!RedisGoes
    PROVE  SignInv'
<1>1. UNCHANGED <<minute, jar, seen, given>>
  BY DEF I!RedisGoes, I!sessions
<1>2. LimiterOK' /\ hits' = [k \in I!Keys |-> hits'[k]] /\ passed' = [k \in I!Keys |-> passed'[k]]
  <2>1. CASE UNCHANGED I!limiter
    BY <1>1, <2>1, LimiterRests DEF I!limiter
  <2>2. CASE hits' = [k \in I!Keys |-> Nil] /\ passed' = [k \in I!Keys |-> {}]
    BY <1>1, <2>2, NoHits, KeyFacts DEF LimiterOK, SignInv
  <2> QED
    BY <2>1, <2>2 DEF I!RedisGoes
<1> QED
  BY <1>1, <1>2, SessionsRest, GoogleRests DEF SignInv

LEMMA SignInInit ==
    ASSUME I!Init
    PROVE  SignInv
<1>1. LimiterOK
  BY NoHits, KeyFacts DEF I!Init, LimiterOK
<1>2. \A c \in Procs : JarOK(c)
  BY DEF I!Init, JarOK, I!Token, I!Empty
<1> QED
  BY <1>1, <1>2 DEF I!Init, SignInv, I!GoogleTokenWorks

LEMMA SignInStep ==
    ASSUME SignInv, [I!Next]_I!vars
    PROVE  SignInv'
<1>1. CASE UNCHANGED I!vars
  BY <1>1, SteadyOK DEF I!vars
<1>2. ASSUME NEW c \in Procs,
             \/ I!Issue(c) \/ I!Logout(c) \/ I!RequestLink(c) \/ I!LimitEmail(c) \/ I!Verify(c)
             \/ I!LoginGoogle(c) \/ I!ReuseToken(c) \/ I!NewToken(c)
      PROVE  SignInv'
  BY <1>2, IssueOK, LimitedOK, GiveOK
<1>3. ASSUME NEW c \in Procs,
             \/ I!Refresh(c) \/ I!Load(c) \/ I!SendLink(c) \/ I!Exchange(c) \/ I!Find(c)
             \/ I!Create(c) \/ I!SaveGrant(c) \/ I!AskGoogle(c)
      PROVE  SignInv'
  BY <1>3, SteadyOK DEF I!Refresh, I!Load, I!SendLink, I!Exchange, I!Find, I!Create, I!SaveGrant,
     I!AskGoogle, I!sessions, I!limiter, I!google
<1>4. ASSUME NEW e \in Emails, I!DeleteAccount(e) PROVE SignInv'
  BY <1>4, SteadyOK DEF I!DeleteAccount, I!sessions, I!limiter, I!google
<1>5. CASE I!RedisReturns
  BY <1>5, SteadyOK DEF I!RedisReturns, I!sessions, I!limiter, I!google
<1> QED
  BY <1>1, <1>2, <1>3, <1>4, <1>5, TickOK, RedisGoesOK DEF I!Next

\* The instance counts as its module does.
LEMMA SameCardinality ==
    ASSUME NEW X
    PROVE  I!Cardinality(X) = Cardinality(X)
BY Zenon DEF I!Cardinality, Cardinality

\* What the limiter promises.
LEMMA LimitsFollow ==
    ASSUME SignInv
    PROVE  I!LimitsHold
<1> SUFFICES ASSUME NEW k \in I!Keys
             PROVE  /\ ~I!Passes(k) => I!Within(k, minute - RateWindow[k[1]] + 1, minute)
                                       >= RateLimit[k[1]]
                    /\ I!Within(k, minute - RateWindow[k[1]] + 1, minute) < 2 * RateLimit[k[1]]
  BY DEF I!LimitsHold
<1>1. PICK t \in Nat, w \in Nat \ {0}, limit \in Nat \ {0} :
        t = minute /\ w = RateWindow[k[1]] /\ limit = RateLimit[k[1]]
  BY KeyFacts DEF SignInv
<1> DEFINE X == passed[k]
           h == hits[k]
           n == Cardinality(X)
<1>2. Limited(X, h, t, w, limit)
  BY <1>1 DEF SignInv, LimiterOK
<1>3. I!Within(k, minute - w + 1, minute) = n /\ n \in Nat
  <2>1. \A x \in X : x[1] \in (t - w + 1)..t
    <3>1. X \subseteq Int \X Nat /\ \A x \in X : t - w < x[1] /\ x[1] <= t
      BY <1>2 DEF Limited
    <3>2. \A x \in X : x[1] \in Int
      BY <3>1
    <3> HIDE DEF X
    <3> QED
      BY <3>1, <3>2
  <2>2. \A x \in passed[k] : x[1] \in (minute - w + 1)..minute
    BY <1>1, <2>1, Zenon
  <2>3. {x \in passed[k] : x[1] \in (minute - w + 1)..minute} = passed[k]
    BY <2>2, Zenon
  <2>4. I!Within(k, minute - w + 1, minute) = Cardinality(X)
    BY <2>3, SameCardinality DEF I!Within
  <2>5. Cardinality(X) \in Nat
    BY <1>2, FS_CardinalityType DEF Limited
  <2> QED
    BY <2>4, <2>5, Zenon DEF n
<1>4. ~I!Passes(k) => Live(h, t) /\ h.n >= limit
  <2>1. Live(h, t) => h.n \in Nat
    BY <1>2 DEF Limited, Live, Counters
  <2>2. I!Hits(k) = IF Live(h, t) THEN h.n ELSE 0
    BY <1>1, Zenon DEF I!Hits, Live
  <2> HIDE DEF h
  <2>3. ~I!Passes(k) => ~(I!Hits(k) < limit)
    BY <1>1, Zenon DEF I!Passes
  <2> QED
    BY <2>1, <2>2, <2>3
<1> HIDE DEF X, h, n
<1>5. CASE Live(h, t)
  <2> DEFINE s == h.until - w
             new == {x \in X : x[1] >= s}
             old == {x \in X : x[1] < s}
  <2>1. s \in Int /\ h.n \in Nat
    BY <1>2, <1>5 DEF Limited, Live, Counters
  <2>2. IsFiniteSet(new) /\ IsFiniteSet(old) /\ X = new \cup old /\ new \cap old = {}
    BY <1>2, <2>1, FS_Subset DEF Limited
  <2>3. n = Cardinality(new) + Cardinality(old) /\ Cardinality(new) \in Nat
        /\ Cardinality(old) \in Nat
    <3>1. /\ Cardinality(X) = Cardinality(new) + Cardinality(old) - Cardinality(new \cap old)
          /\ Cardinality(new) \in Nat /\ Cardinality(old) \in Nat
      BY <2>2, FS_Union, FS_CardinalityType
    <3>2. Cardinality(new \cap old) = 0
      BY <2>2, FS_EmptySet
    <3> HIDE DEF new, old
    <3> QED
      BY <3>1, <3>2 DEF n
  <2>4. /\ Cardinality(new) = IF h.n < limit THEN h.n ELSE limit
        /\ Cardinality(old) <= limit - 1
    BY <1>2, <1>5 DEF Limited
  <2> HIDE DEF new, old
  <2>5. n < 2 * limit /\ (h.n >= limit => n >= limit)
    BY <2>1, <2>3, <2>4
  <2> QED
    BY <1>1, <1>3, <1>4, <2>5
<1>6. CASE ~Live(h, t)
  <2>1. n <= limit - 1
    BY <1>2, <1>6 DEF Limited, n
  <2>2. n < 2 * limit
    BY <1>3, <2>1
  <2> QED
    BY <1>1, <1>3, <1>4, <1>6, <2>2
<1> QED
  BY <1>5, <1>6

\* What a session promises.
LEMMA SessionsFollow ==
    ASSUME SignInv
    PROVE  I!SessionsEnd
<1> SUFFICES ASSUME NEW c \in Procs
             PROVE  /\ \A e \in I!Users(c, "access") :
                         e = seen[c].email /\ minute - seen[c].at < AccessLife
                    /\ \A e \in I!Users(c, "refresh") :
                         e = seen[c].email /\ minute - seen[c].at < RefreshLife
  BY DEF I!SessionsEnd
<1>1. PICK t \in Nat, at \in Int : t = minute /\ at = seen[c].at /\ at <= t
  BY DEF SignInv, JarOK
<1>2. AccessLife \in Nat /\ RefreshLife \in Nat
  BY SignInAssumption
<1>3. ASSUME NEW type \in {"access", "refresh"}, NEW e \in I!Users(c, type)
      PROVE  /\ e = seen[c].email
             /\ t - at < IF type = "access" THEN AccessLife ELSE RefreshLife
  <2>1. PICK kind \in {"access", "refresh"}, span \in {AccessLife, RefreshLife},
          x \in {"access", "refresh", Nil} :
          /\ span = (IF kind = "access" THEN AccessLife ELSE RefreshLife) /\ x \in {kind, Nil}
          /\ e = I!SessionUser(I!Token(x, seen[c].email, at, span), type) /\ e # Nil
    <3>1. e # Nil /\ \E carried \in {jar[c].access, jar[c].refresh} :
             carried # Nil /\ e = I!SessionUser(carried, type)
      BY DEF I!Users, I!SessionUser
    <3> QED
      BY <1>1, <3>1 DEF SignInv, JarOK
  <2>2. PICK carried : carried = I!Token(x, seen[c].email, at, span)
    OBVIOUS
  <2>3. carried.type = x /\ carried.iat = at /\ carried.exp = at + span /\ carried.email = seen[c].email
    BY <2>2 DEF I!Token
  <2>4. at + span > t /\ e = seen[c].email /\ I!TokenType(carried) = type
    BY <1>1, <2>1, <2>2, <2>3 DEF I!SessionUser
  <2>5. span \in Nat /\ at + span - at = span
    BY <1>1, <1>2, <2>1
  <2>6. /\ x # Nil => type = kind
        /\ x = Nil => type = IF span \in 1..AccessLife THEN "access" ELSE "refresh"
    BY <2>1, <2>3, <2>4, <2>5 DEF I!TokenType
  <2>7. t - at < span
    BY <1>1, <2>4, <2>5
  <2>8. type = "access" => t - at < AccessLife
    BY <1>1, <1>2, <2>1, <2>5, <2>6, <2>7
  <2>9. type = "refresh" => t - at < RefreshLife
    <3>1. CASE span = RefreshLife
      BY <2>7, <3>1
    <3>2. CASE span # RefreshLife
      <4>1. (x = Nil /\ span = AccessLife /\ span \notin 1..AccessLife) \/ type = "access"
        BY <2>1, <2>6, <3>2
      <4>2. span = AccessLife /\ span \notin 1..AccessLife => span = 0
        BY <1>2
      <4>3. ~(t - at < 0)
        BY <1>1
      <4> QED
        BY <2>7, <4>1, <4>2, <4>3
    <3> QED
      BY <3>1, <3>2
  <2> QED
    BY <2>4, <2>8, <2>9
<1> QED
  BY <1>1, <1>3

-----------------------------------------------------------------------------
(* Signing in: theorems *)

\* The inductive invariant of signing in.  The counter that RateLimitMiddleware keeps
\* of a key has begun with a request let through, has counted those since, up to the
\* limit, and those before it that are still in the window were fewer than the limit;
\* a browser's tokens (create_access_token, create_refresh_token) are the account's
\* and the time's at which it was last given some.
THEOREM SignInInvariance == ServicesSpec => [](scene = "signin" => SignInv)
<1> DEFINE Inv == scene = "signin" => SignInv
<1>1. ServicesInit => Inv
  BY SignInInit DEF ServicesInit
<1>2. Inv /\ [ServicesNext]_all => Inv'
  <2> SUFFICES ASSUME Inv, [ServicesNext]_all, scene' = "signin" PROVE SignInv'
    OBVIOUS
  <2>1. scene = "signin"
    BY DEF ServicesNext, all
  <2>2. I!Next \/ UNCHANGED I!vars
    BY <2>1 DEF ServicesNext, all, iVars, I!vars
  <2> QED
    BY <2>1, <2>2, SignInStep
<1> QED
  BY <1>1, <1>2, PTL DEF ServicesSpec

\* A key is refused only after its limit of requests within a window, and gets less
\* than twice the limit in any; a token is used by the account it was given to and no
\* longer than its life, for any lives, limits, windows, accounts and browsers, however
\* Redis, Google, links by mail and deleted accounts interleave.  A token of Google's
\* that is given out is of the connection asked for and lives longer than the margin
\* (refresh_google_access_token).
THEOREM SigningInHolds == ServicesSpec => []SignInHolds
<1>1. (scene = "signin" => SignInv) => SignInHolds
  BY LimitsFollow, SessionsFollow DEF SignInHolds, I!SignInHolds, SignInv
<1> QED
  BY <1>1, SignInInvariance, PTL

-----------------------------------------------------------------------------
(* Documents: what is stored, and what their requests hold *)

Part(X, V) == UNION {[D -> V] : D \in SUBSET X}
Rows == W!Document \cup {Nil}
Drawn == W!Canvas \cup {Nil}
Fields == [{"task"} -> DocTasks] \cup [{"content"} -> Contents]

\* Functions on a part of X.
LEMMA PartFacts ==
    ASSUME NEW X, NEW V, NEW f
    PROVE  f \in Part(X, V) <=> /\ f = [x \in DOMAIN f |-> f[x]] /\ DOMAIN f \subseteq X
                                /\ \A x \in DOMAIN f : f[x] \in V
<1>1. ASSUME f \in Part(X, V)
      PROVE  f = [x \in DOMAIN f |-> f[x]] /\ DOMAIN f \subseteq X /\ \A x \in DOMAIN f : f[x] \in V
  BY <1>1 DEF Part
<1>2. ASSUME f = [x \in DOMAIN f |-> f[x]], DOMAIN f \subseteq X, \A x \in DOMAIN f : f[x] \in V
      PROVE  f \in Part(X, V)
  <2>1. f \in [DOMAIN f -> V]
    BY <1>2
  <2> QED
    BY <1>2, <2>1 DEF Part
<1> QED
  BY <1>1, <1>2

\* One of them over another, over one on all of X, and the fields set over a document.
LEMMA OverParts ==
    ASSUME NEW X, NEW V, NEW f \in Part(X, V), NEW h \in Part(X, V)
    PROVE  /\ W!Over(f, h) \in Part(X, V) /\ DOMAIN W!Over(f, h) = DOMAIN f \cup DOMAIN h
           /\ \A x \in DOMAIN W!Over(f, h) : W!Over(f, h)[x] = IF x \in DOMAIN f THEN f[x] ELSE h[x]
<1>1. /\ DOMAIN f \subseteq X /\ DOMAIN h \subseteq X /\ (\A x \in DOMAIN f : f[x] \in V)
      /\ \A x \in DOMAIN h : h[x] \in V
  BY PartFacts
<1> QED
  BY <1>1, PartFacts DEF W!Over

LEMMA OverAll ==
    ASSUME NEW X, NEW V, NEW f \in Part(X, V), NEW h \in [X -> V]
    PROVE  /\ W!Over(f, h) \in [X -> V]
           /\ \A x \in X : W!Over(f, h)[x] = IF x \in DOMAIN f THEN f[x] ELSE h[x]
<1>1. DOMAIN f \subseteq X /\ \A x \in DOMAIN f : f[x] \in V
  BY PartFacts
<1> QED
  BY <1>1 DEF W!Over

LEMMA OverDocument ==
    ASSUME NEW set \in Fields, NEW obj \in W!Document
    PROVE  /\ W!Over(set, obj) \in W!Document
           /\ W!Over(set, obj).task = IF "task" \in DOMAIN set THEN set["task"] ELSE obj.task
<1>1. CASE set \in [{"task"} -> DocTasks]
  BY <1>1 DEF W!Over, W!Document
<1>2. CASE set \in [{"content"} -> Contents]
  BY <1>2 DEF W!Over, W!Document
<1> QED
  BY <1>1, <1>2 DEF Fields

Mutation ==
    [op : {"none", "create", "update", "remove", "clear", "draw", "paint", "erase"},
     step : {"idle", "flush", "commit", "find", "fill", "release", "merge", "write", "count", "insert"},
     doc : Ids \cup {Nil}, canvas : Drawings \cup {Nil},
     set : {<<>>} \cup Fields \cup Folders \cup 0..ProScene,
     obj : Rows, detached : BOOLEAN, base : Rows,
     docs : Part(Ids, Rows), canvases : Part(Drawings, Drawn)]
ContentTyped ==
    /\ doc \in [Ids -> Rows] /\ docCopy \in [Ids -> Rows] /\ canvas \in [Drawings -> Drawn]
    /\ life \in [Ids -> {"none", "born", "known"}] /\ pro \in BOOLEAN /\ wasPro \in BOOLEAN
    /\ request \in [Procs -> Mutation]

\* What a mutation has at each of its steps.
Takes(r) == r.op = "update" /\ "task" \in DOMAIN r.set
StepOK(r) ==
    /\ r.op = "none" <=> r.step = "idle"
    /\ r.op = "create" => r.step \in {"flush", "commit"} /\ r.doc \in Ids /\ r.obj \in W!Document
    /\ r.op = "update" => /\ r.step \in {"find", "fill", "release", "merge", "flush", "commit"}
                          /\ r.doc \in Ids /\ r.set \in Fields
                          /\ r.step # "find" => r.obj \in W!Document
                          /\ r.step = "release" => Takes(r)
    /\ r.op = "remove" => r.step \in {"find", "fill", "write", "commit"} /\ r.doc \in Ids
    /\ r.op = "clear" => r.step \in {"write", "commit"} /\ r.doc = Nil
    /\ r.op = "draw" => /\ r.step \in {"count", "find", "fill", "insert", "commit"}
                        /\ r.step \in {"find", "fill"} => r.doc \in Ids
                        /\ r.step \in {"insert", "commit"} /\ r.doc # Nil => r.obj # Nil
    /\ r.op = "paint" => /\ r.step \in {"find", "write", "commit"} /\ r.doc = Nil
                         /\ r.canvas \in Drawings /\ r.set \in 0..ProScene
    /\ r.op = "erase" => r.step \in {"write", "commit"} /\ r.doc = Nil /\ r.canvas \in Drawings
    /\ r.step = "fill" => r.obj \in W!Document /\ r.base = r.obj /\ ~r.detached
    /\ r.step \in {"count", "find"} => ~r.detached
    /\ r.doc = Nil => r.obj = Nil
\* And the rows it has written.
WroteOK(r) ==
    /\ DOMAIN r.docs # {} => \/ r.step = "commit" /\ r.op \in {"create", "update", "remove", "clear"}
                             \/ Takes(r) /\ r.step \in {"merge", "flush"}
    /\ r.op = "create" /\ r.step = "commit" => DOMAIN r.docs = {r.doc} /\ r.docs[r.doc] = r.obj
    /\ r.op = "update" =>
        /\ r.doc \in DOMAIN r.docs <=> r.step = "commit"
        /\ \A d \in DOMAIN r.docs : /\ r.docs[d] # Nil
                                    /\ d # r.doc => Takes(r) /\ r.docs[d].task = Nil
    /\ r.op \in {"remove", "clear"} => \A d \in DOMAIN r.docs : r.docs[d] = Nil
    /\ DOMAIN r.canvases # {} => r.step = "commit" /\ r.op \notin {"create", "update"}
    /\ r.op \in {"remove", "clear", "erase"} => \A c \in DOMAIN r.canvases : r.canvases[c] = Nil
    /\ r.op = "draw" /\ r.step = "commit" =>
        \E c \in Drawings : DOMAIN r.canvases = {c} /\ r.canvases[c] = [doc |-> r.doc, scene |-> 0]
\* A drawing that is written is new, or stays in its document.
DrawnOK(r, V) ==
    \A c \in DOMAIN r.canvases : r.canvases[c] # Nil =>
        \/ r.op = "draw" /\ V[c] = Nil
        \/ r.op = "paint" /\ V[c] # Nil /\ r.canvases[c].doc = V[c].doc
\* The copy of a document that is not committed is its.
CopyOK(r, Copy) == r.op = "create" /\ r.step = "commit" => Copy[r.doc] \in {Nil, r.obj}
\* Free's limits.
There(V) == {c \in Drawings : V[c] # Nil}
SmallOK(r) ==
    /\ \A c \in DOMAIN r.canvases : r.canvases[c] # Nil => r.canvases[c].scene <= FreeScene
    /\ r.op = "paint" /\ r.step \in {"write", "commit"} => r.set <= FreeScene
FewOK(r, V) == r.op = "draw" /\ r.step # "count" => W!Cardinality(There(V)) < MaxCanvases

\* Rows are locked by who has written them, and the ids of new documents by who makes them.
Locks ==
    \A p, q \in Procs : p # q =>
        /\ DOMAIN request[p].docs \cap DOMAIN request[q].docs = {}
        /\ DOMAIN request[p].canvases \cap DOMAIN request[q].canvases = {}
        /\ request[p].op = "create" /\ request[q].op = "create" => request[p].doc # request[q].doc
KnownOK(r, L) ==
    /\ r.op = "create" => L[r.doc] = "born"
    /\ r.op # "create" => (r.doc # Nil => L[r.doc] = "known") /\ \A d \in DOMAIN r.docs : L[d] = "known"

\* The tasks that the documents of updates will have.
Pending == {x \in Ids \X (DocTasks \cup {Nil}) : \E q \in Procs :
              /\ request[q].op = "update" /\ request[q].step = "commit"
              /\ request[q].doc = x[1] /\ request[q].docs[x[1]].task = x[2]}
Written == UNION {DOMAIN request[q].docs : q \in Procs}
\* What a request may have read as the task of a document: what was committed or
\* waits to be, and anything once an update has failed.
Believed == IF "failed" \in slips THEN Ids \X (DocTasks \cup {Nil}) ELSE Pending
\* What was read, while no request worked with what another had changed.
TaskOf(d, t, D, K) == t = D[d].task \/ <<d, t>> \in K
ReadFresh(r, D, V, K) ==
    /\ r.obj # Nil /\ r.op # "create" => D[r.doc] # Nil
    /\ \A d \in DOMAIN r.docs : r.docs[d] = Nil =>
         \A c \in Drawings : V[c] # Nil /\ V[c].doc = d => c \in DOMAIN r.canvases
    /\ r.step = "fill" => r.obj.task = D[r.doc].task
    /\ r.op = "update" /\ r.step \in {"fill", "release", "merge", "flush"} =>
        /\ ~r.detached \/ r.step = "flush" => r.base # Nil /\ r.base.task = D[r.doc].task
        /\ IF Takes(r) /\ r.step = "flush" THEN r.obj.task = r.set["task"]
           ELSE TaskOf(r.doc, r.obj.task, D, K)
\* A copy of a document that nobody writes has its task, until an update has failed.
CopyFresh(c, d, D, K, B, Z) ==
    c # Nil => /\ D[d] # Nil
               /\ \/ (c.task = D[d].task \/ "failed" \in Z) /\ d \notin B
                  \/ <<d, c.task>> \in K
DrawnFresh(V, D) == \A c \in Drawings : V[c] # Nil /\ V[c].doc # Nil => D[V[c].doc] # Nil
\* An update keeps the task of its document or takes one, which the others release.
TakeFresh(r, D) ==
    /\ r.op = "create" /\ r.step = "commit" => r.obj.task = Nil
    /\ r.op = "update" /\ r.step = "commit" =>
        r.docs[r.doc].task = IF Takes(r) THEN r.set["task"] ELSE D[r.doc].task
    /\ Takes(r) /\ r.step \in {"merge", "flush", "commit"} /\ r.set["task"] # Nil =>
        \A e \in Ids \ {r.doc} : D[e] # Nil /\ D[e].task = r.set["task"] => e \in DOMAIN r.docs

Fresh(Z) == "stale" \notin Z
Untaken(Z) == Z \cap {"stale", "take", "failed"} = {}
DistinctTasks(D) ==
    \A d, e \in Ids : d # e /\ D[d] # Nil /\ D[e] # Nil /\ D[d].task = D[e].task => D[d].task = Nil
Small(V) == \A c \in Drawings : V[c] # Nil => V[c].scene <= FreeScene
ContentInv ==
    /\ ContentTyped /\ Locks
    /\ \A d \in Ids : doc[d] # Nil => life[d] = "known"
    /\ \A p \in Procs : /\ StepOK(request[p]) /\ WroteOK(request[p])
                        /\ DrawnOK(request[p], canvas) /\ KnownOK(request[p], life)
                        /\ CopyOK(request[p], docCopy)
    /\ ~wasPro => ~pro /\ Small(canvas) /\ \A p \in Procs : SmallOK(request[p])
    /\ ~wasPro /\ "count" \notin slips =>
        /\ W!Cardinality(There(canvas)) <= MaxCanvases
        /\ \A p \in Procs : FewOK(request[p], canvas)
    /\ Fresh(slips) =>
        /\ DrawnFresh(canvas, doc)
        /\ \A p \in Procs : ReadFresh(request[p], doc, canvas, Believed)
        /\ \A d \in Ids : life[d] = "known" => CopyFresh(docCopy[d], d, doc, Pending, Written, slips)
    /\ Untaken(slips) => DistinctTasks(doc) /\ \A p \in Procs : TakeFresh(request[p], doc)


\* A request that does nothing meets the invariant.
LEMMA IdleMutation ==
    /\ W!Idle \in Mutation /\ DOMAIN W!Idle.docs = {} /\ DOMAIN W!Idle.canvases = {}
    /\ W!Idle.op = "none" /\ W!Idle.step = "idle" /\ W!Idle.doc = Nil /\ W!Idle.obj = Nil
    /\ StepOK(W!Idle) /\ WroteOK(W!Idle) /\ SmallOK(W!Idle)
    /\ \A V : DrawnOK(W!Idle, V) /\ FewOK(W!Idle, V)
    /\ \A L : KnownOK(W!Idle, L) /\ CopyOK(W!Idle, L)
    /\ \A D, V, K : ReadFresh(W!Idle, D, V, K) /\ TakeFresh(W!Idle, D)
<1>1. /\ DOMAIN W!Idle.docs = {} /\ DOMAIN W!Idle.canvases = {}
      /\ W!Idle.op = "none" /\ W!Idle.step = "idle" /\ W!Idle.doc = Nil /\ W!Idle.obj = Nil
  BY DEF W!Idle
<1>2. W!Idle \in Mutation
  <2>1. <<>> \in [{} -> Rows] /\ <<>> \in [{} -> Drawn]
    OBVIOUS
  <2>2. <<>> \in Part(Ids, Rows) /\ <<>> \in Part(Drawings, Drawn)
    BY <2>1 DEF Part
  <2> QED
    BY <2>2 DEF W!Idle, Mutation, Rows
<1> QED
  BY <1>1, <1>2 DEF StepOK, WroteOK, SmallOK, DrawnOK, FewOK, KnownOK, CopyOK, ReadFresh,
     TakeFresh, Takes

\* What the invariant says of a request.
LEMMA RequestFacts ==
    ASSUME ContentInv, NEW p \in Procs
    PROVE  /\ request[p] \in Mutation
           /\ StepOK(request[p]) /\ WroteOK(request[p]) /\ DrawnOK(request[p], canvas)
           /\ KnownOK(request[p], life) /\ CopyOK(request[p], docCopy)
           /\ doc \in [Ids -> Rows] /\ docCopy \in [Ids -> Rows] /\ canvas \in [Drawings -> Drawn]
           /\ life \in [Ids -> {"none", "born", "known"}] /\ pro \in BOOLEAN /\ wasPro \in BOOLEAN
           /\ \A d \in DOMAIN request[p].docs : d \in Ids /\ request[p].docs[d] \in Rows
           /\ \A c \in DOMAIN request[p].canvases : c \in Drawings /\ request[p].canvases[c] \in Drawn
           /\ ~wasPro => SmallOK(request[p])
           /\ ~wasPro /\ "count" \notin slips => FewOK(request[p], canvas)
           /\ Fresh(slips) => ReadFresh(request[p], doc, canvas, Believed)
           /\ Untaken(slips) => TakeFresh(request[p], doc)
<1>1. request[p] \in Mutation
  BY DEF ContentInv, ContentTyped
<1>2. request[p].docs \in Part(Ids, Rows) /\ request[p].canvases \in Part(Drawings, Drawn)
  BY <1>1 DEF Mutation
<1> QED
  BY <1>1, <1>2, PartFacts DEF ContentInv, ContentTyped

\* What waits to be committed still does after a step of another.
LEMMA PendingKept ==
    ASSUME request \in [Procs -> Mutation], NEW p \in Procs, NEW r \in Mutation, W!Set(p, r),
           request[p].step # "commit" \/ request[p].op # "update"
    PROVE  /\ \A q \in Procs : request'[q] = IF q = p THEN r ELSE request[q]
           /\ Pending \subseteq Pending'
           /\ request' \in [Procs -> Mutation]
           /\ Pending \subseteq Ids \X (DocTasks \cup {Nil})
<1>1. \A q \in Procs : request'[q] = IF q = p THEN r ELSE request[q]
  BY DEF W!Set
<1>2. Pending \subseteq Pending'
  BY <1>1 DEF Pending
<1>3. Pending \subseteq Ids \X (DocTasks \cup {Nil})
  BY DEF Pending
<1> QED
  BY <1>1, <1>2, <1>3 DEF W!Set

LEMMA ReadGrows ==
    ASSUME NEW r, NEW D, NEW V, NEW K, NEW K1, K \subseteq K1, ReadFresh(r, D, V, K)
    PROVE  ReadFresh(r, D, V, K1)
BY DEF ReadFresh, TaskOf

\* A step of one mutation that commits nothing.
LEMMA MutationStep ==
    ASSUME ContentInv, NEW p \in Procs, NEW r \in Mutation, W!Set(p, r),
           UNCHANGED <<doc, canvas, pro, wasPro>>, slips \subseteq slips',
           Fresh(slips') =>
             \/ request[p].step # "commit" \/ request[p].op # "update"
             \/ /\ "failed" \in slips'
                /\ \A d \in Ids : life[d] = "known" =>
                     CopyFresh(docCopy'[d], d, doc, Pending', Written', slips'),
           docCopy' \in [Ids -> Rows], life' \in [Ids -> {"none", "born", "known"}],
           \A d \in Ids : life'[d] = life[d] \/ (life[d] = "none" /\ life'[d] = "born"),
           StepOK(r), WroteOK(r), DrawnOK(r, canvas), KnownOK(r, life'), CopyOK(r, docCopy'),
           W!DocsFree(p, DOMAIN r.docs), W!CanvasesFree(p, DOMAIN r.canvases),
           r.op = "create" =>
             \A q \in Procs \ {p} : request[q].op = "create" => request[q].doc # r.doc,
           \A d \in Ids \ {r.doc} : docCopy'[d] \in {docCopy[d], Nil},
           ~wasPro => SmallOK(r), ~wasPro /\ "count" \notin slips => FewOK(r, canvas),
           Fresh(slips') => /\ ReadFresh(r, doc, canvas, Believed)
                            /\ \A d \in Ids : life[d] = "known" =>
                                 \/ /\ docCopy'[d] = docCopy[d]
                                    /\ d \in DOMAIN r.docs => d \in DOMAIN request[p].docs
                                 \/ docCopy'[d] = Nil
                                 \/ CopyFresh(docCopy'[d], d, doc, Pending', Written', slips'),
           Untaken(slips') => TakeFresh(r, doc)
    PROVE  ContentInv'
<1>1. /\ \A q \in Procs : request'[q] = IF q = p THEN r ELSE request[q]
      /\ request' \in [Procs -> Mutation]
  BY DEF ContentInv, ContentTyped, W!Set
<1>2. ContentTyped'
  BY <1>1 DEF ContentInv, ContentTyped
<1>3. Locks'
  BY <1>1 DEF ContentInv, Locks, W!DocsFree, W!CanvasesFree, W!Others
<1>4. \A d \in Ids : doc'[d] # Nil => life'[d] = "known"
  BY DEF ContentInv
<1>5. ASSUME NEW q \in Procs
      PROVE  /\ StepOK(request'[q]) /\ WroteOK(request'[q]) /\ DrawnOK(request'[q], canvas')
             /\ KnownOK(request'[q], life') /\ CopyOK(request'[q], docCopy')
  <2>1. CASE q = p
    BY <1>1, <2>1
  <2>2. CASE q # p
    <3>1. request'[q] = request[q]
      BY <1>1, <2>2
    <3>2. KnownOK(request[q], life')
      <4>1. request[q].op = "create" => request[q].doc \in Ids
        BY RequestFacts DEF StepOK
      <4>2. request[q].doc \in Ids \cup {Nil} /\ \A d \in DOMAIN request[q].docs : d \in Ids
        BY RequestFacts DEF Mutation
      <4>3. KnownOK(request[q], life)
        BY RequestFacts
      <4> QED
        BY <4>1, <4>2, <4>3 DEF KnownOK
    <3>3. CopyOK(request[q], docCopy')
      <4>1. CASE request[q].op = "create"
        <5>1. request[q].doc \in Ids /\ life'[request[q].doc] = "born"
          BY <3>2, <4>1, RequestFacts DEF StepOK, KnownOK
        <5>2. request[q].doc # r.doc
          BY <2>2, <4>1, <5>1, NamesAssumption DEF KnownOK
        <5> QED
          BY <5>1, <5>2, RequestFacts DEF CopyOK
      <4> QED
        BY <4>1 DEF CopyOK
    <3> QED
      BY <3>1, <3>2, <3>3, RequestFacts
  <2> QED
    BY <2>1, <2>2
<1>6. ~wasPro' => ~pro' /\ Small(canvas') /\ \A q \in Procs : SmallOK(request'[q])
  BY <1>1 DEF ContentInv
<1>7. ~wasPro' /\ "count" \notin slips' =>
        /\ W!Cardinality(There(canvas')) <= MaxCanvases
        /\ \A q \in Procs : FewOK(request'[q], canvas')
  BY <1>1 DEF ContentInv
<1>8. ASSUME Fresh(slips')
      PROVE  /\ DrawnFresh(canvas', doc')
             /\ \A q \in Procs : ReadFresh(request'[q], doc', canvas', Believed')
             /\ \A d \in Ids : life'[d] = "known" => CopyFresh(docCopy'[d], d, doc', Pending', Written', slips')
  <2>1. Fresh(slips) /\ Believed \subseteq Believed'
    <3>1. CASE "failed" \in slips'
      <4>1. Pending \subseteq Ids \X (DocTasks \cup {Nil})
        BY DEF Pending
      <4> QED
        BY <1>8, <3>1, <4>1 DEF Fresh, Believed
    <3>2. CASE "failed" \notin slips'
      <4>1. Pending \subseteq Pending' /\ Fresh(slips)
        BY <1>8, <3>2, PendingKept DEF Fresh, ContentInv, ContentTyped
      <4> QED
        BY <3>2, <4>1 DEF Believed
    <3> QED
      BY <3>1, <3>2
  <2>2. DrawnFresh(canvas', doc')
    BY <2>1 DEF ContentInv
  <2>3. \A q \in Procs : ReadFresh(request'[q], doc', canvas', Believed')
    <3>1. \A q \in Procs : ReadFresh(request'[q], doc, canvas, Believed)
      BY <1>1, <1>8, <2>1 DEF ContentInv
    <3> QED
      BY <2>1, <3>1, ReadGrows
  <2>4. ASSUME NEW d \in Ids, life'[d] = "known"
        PROVE  CopyFresh(docCopy'[d], d, doc', Pending', Written', slips')
    <3>1. life[d] = "known" /\ CopyFresh(docCopy[d], d, doc, Pending, Written, slips)
      BY <2>1, <2>4 DEF ContentInv
    <3>2. CASE docCopy'[d] = Nil
      BY <3>2 DEF CopyFresh
    <3>3. CASE docCopy'[d] = docCopy[d] /\ (d \in DOMAIN r.docs => d \in DOMAIN request[p].docs)
      <4>1. d \in Written' => d \in Written
        BY <1>1, <3>3 DEF Written
      <4> QED
        <5>1. CASE request[p].step # "commit" \/ request[p].op # "update"
          <6>1. Pending \subseteq Pending'
            BY <5>1, PendingKept DEF ContentInv, ContentTyped
          <6> QED
            BY <2>1, <3>1, <3>3, <4>1, <6>1 DEF CopyFresh
        <5>2. CASE ~(request[p].step # "commit" \/ request[p].op # "update")
          BY <1>8, <2>4, <3>1, <5>2
        <5> QED
          BY <5>1, <5>2
    <3> QED
      BY <1>8, <3>1, <3>2, <3>3
  <2> QED
    BY <2>2, <2>3, <2>4
<1>9. Untaken(slips') => DistinctTasks(doc') /\ \A q \in Procs : TakeFresh(request'[q], doc')
  <2>1. Untaken(slips') => Untaken(slips)
    BY DEF Untaken
  <2> QED
    BY <1>1, <2>1 DEF ContentInv
<1> QED
  BY <1>2, <1>3, <1>4, <1>5, <1>6, <1>7, <1>8, <1>9 DEF ContentInv

\* A step that writes no document and no copy.
LEMMA MutationQuiet ==
    ASSUME ContentInv, NEW p \in Procs, NEW r \in Mutation, W!Set(p, r),
           UNCHANGED <<doc, canvas, pro, wasPro, life, docCopy>>, slips \subseteq slips',
           Fresh(slips') => request[p].step # "commit" \/ request[p].op # "update",
           StepOK(r), WroteOK(r), DrawnOK(r, canvas), KnownOK(r, life), CopyOK(r, docCopy),
           DOMAIN r.docs \subseteq DOMAIN request[p].docs, W!CanvasesFree(p, DOMAIN r.canvases),
           r.op = "create" => request[p].op = "create" /\ request[p].doc = r.doc,
           ~wasPro => SmallOK(r), ~wasPro /\ "count" \notin slips => FewOK(r, canvas),
           Fresh(slips') => ReadFresh(r, doc, canvas, Believed),
           Untaken(slips') => TakeFresh(r, doc)
    PROVE  ContentInv'
<1>1. W!DocsFree(p, DOMAIN r.docs)
  BY DEF ContentInv, Locks, W!DocsFree, W!Others
<1>2. r.op = "create" =>
        \A q \in Procs \ {p} : request[q].op = "create" => request[q].doc # r.doc
  BY DEF ContentInv, Locks
<1>3. docCopy' \in [Ids -> Rows] /\ life' \in [Ids -> {"none", "born", "known"}]
  BY RequestFacts
<1> QED
  BY <1>1, <1>2, <1>3, MutationStep

\* A mutation that ends without a commit.
LEMMA MutationEnds ==
    ASSUME ContentInv, NEW p \in Procs, W!Set(p, W!Idle),
           UNCHANGED <<doc, canvas, pro, wasPro, life, docCopy>>, slips \subseteq slips',
           Fresh(slips') => request[p].step # "commit" \/ request[p].op # "update"
    PROVE  ContentInv'
<1>1. W!CanvasesFree(p, DOMAIN W!Idle.canvases)
  BY IdleMutation DEF W!CanvasesFree
<1>2. W!Idle.op # "create" /\ DOMAIN W!Idle.docs \subseteq DOMAIN request[p].docs
  BY IdleMutation
<1> QED
  BY <1>1, <1>2, IdleMutation, MutationQuiet

\* A mutation begins.
LEMMA MutationBegins ==
    ASSUME ContentInv, NEW p \in Procs, NEW r \in Mutation, W!Set(p, r), request[p].step = "idle",
           UNCHANGED <<doc, canvas, pro, wasPro, docCopy, slips>>,
           life' \in [Ids -> {"none", "born", "known"}],
           \A d \in Ids : life'[d] = life[d] \/ (life[d] = "none" /\ life'[d] = "born"),
           DOMAIN r.docs = {}, DOMAIN r.canvases = {}, StepOK(r), KnownOK(r, life'),
           r.step \in {"flush", "find", "write", "count"}, r.op # "create" => r.obj = Nil,
           r.op = "draw" => r.step = "count", r.op = "paint" => r.step = "find",
           r.op = "create" => r.doc \in Ids /\ life[r.doc] = "none",
           r.op = "update" => r.step = "find"
    PROVE  ContentInv'
<1>1. WroteOK(r) /\ DrawnOK(r, canvas) /\ CopyOK(r, docCopy') /\ SmallOK(r) /\ FewOK(r, canvas)
  BY DEF WroteOK, DrawnOK, CopyOK, SmallOK, FewOK
<1>2. ReadFresh(r, doc, canvas, Believed) /\ TakeFresh(r, doc)
  BY DEF ReadFresh, TakeFresh, Takes
<1>3. W!DocsFree(p, DOMAIN r.docs) /\ W!CanvasesFree(p, DOMAIN r.canvases)
  BY DEF W!DocsFree, W!CanvasesFree
<1>4. r.op = "create" =>
        \A q \in Procs \ {p} : request[q].op = "create" => request[q].doc # r.doc
  BY RequestFacts DEF KnownOK
<1>5. docCopy' \in [Ids -> Rows] /\ slips \subseteq slips' /\ request[p].step # "commit"
  BY RequestFacts
<1>6. (\A d \in Ids \ {r.doc} : docCopy'[d] \in {docCopy[d], Nil})
      /\ \A d \in Ids : docCopy'[d] = docCopy[d] /\ (d \in DOMAIN r.docs => d \in DOMAIN request[p].docs)
  OBVIOUS
<1> QED
  BY <1>1, <1>2, <1>3, <1>4, <1>5, <1>6, MutationStep

-----------------------------------------------------------------------------
(* Documents: the steps *)

LEMMA StartMutation ==
    ASSUME ContentInv, NEW p \in Procs, W!Start(p)
    PROVE  ContentInv'
<1>1. request[p].step = "idle" /\ UNCHANGED <<doc, canvas, pro, wasPro, docCopy, slips>>
  BY DEF W!Start
<1>2. life \in [Ids -> {"none", "born", "known"}]
  BY RequestFacts
<1>3. ASSUME NEW d \in Ids, NEW t \in DocTasks \cup {Nil}, NEW f \in Folders \cup {Nil},
             life[d] = "none", life' = [life EXCEPT ![d] = "born"],
             W!Set(p, [W!Idle EXCEPT !.op = "create", !.step = "flush", !.doc = d,
                                     !.obj = [task |-> t, folder |-> f, content |-> <<>>]])
      PROVE  ContentInv'
  <2> DEFINE obj == [task |-> t, folder |-> f, content |-> <<>>]
             r == [W!Idle EXCEPT !.op = "create", !.step = "flush", !.doc = d, !.obj = obj]
  <2>1. obj \in W!Document
    BY ContentAssumption DEF W!Document
  <2> HIDE DEF obj
  <2>2. /\ r \in Mutation /\ r.op = "create" /\ r.step = "flush" /\ r.doc = d /\ r.obj = obj
        /\ DOMAIN r.docs = {} /\ DOMAIN r.canvases = {} /\ ~r.detached
    BY <2>1, IdleMutation DEF W!Idle, Mutation, Rows
  <2>3. W!Set(p, r)
    BY <1>3 DEF obj
  <2> HIDE DEF r
  <2>4. StepOK(r) /\ KnownOK(r, life')
    BY <1>2, <1>3, <2>1, <2>2, NamesAssumption DEF StepOK, KnownOK
  <2> QED
    BY <1>1, <1>2, <1>3, <2>2, <2>3, <2>4, MutationBegins
<1>4. ASSUME NEW d \in Ids, life[d] = "known", UNCHANGED life, NEW s \in Fields,
             W!Set(p, [W!Idle EXCEPT !.op = "update", !.step = "find", !.doc = d, !.set = s])
      PROVE  ContentInv'
  <2> DEFINE r == [W!Idle EXCEPT !.op = "update", !.step = "find", !.doc = d, !.set = s]
  <2>1. /\ r \in Mutation /\ r.op = "update" /\ r.step = "find" /\ r.doc = d /\ r.obj = Nil
        /\ r.set = s /\ DOMAIN r.docs = {} /\ DOMAIN r.canvases = {} /\ ~r.detached
    BY IdleMutation DEF W!Idle, Mutation
  <2> HIDE DEF r
  <2>2. StepOK(r) /\ KnownOK(r, life')
    BY <1>4, <2>1 DEF StepOK, KnownOK
  <2> QED
    BY <1>1, <1>2, <1>4, <2>1, <2>2, MutationBegins DEF r
<1>5. ASSUME NEW d \in Ids, life[d] = "known", UNCHANGED life,
             W!Set(p, [W!Idle EXCEPT !.op = "remove", !.step = "find", !.doc = d])
      PROVE  ContentInv'
  <2> DEFINE r == [W!Idle EXCEPT !.op = "remove", !.step = "find", !.doc = d]
  <2>1. /\ r \in Mutation /\ r.op = "remove" /\ r.step = "find" /\ r.doc = d /\ r.obj = Nil
        /\ DOMAIN r.docs = {} /\ DOMAIN r.canvases = {} /\ ~r.detached
    BY IdleMutation DEF W!Idle, Mutation
  <2> HIDE DEF r
  <2>2. StepOK(r) /\ KnownOK(r, life')
    BY <1>5, <2>1 DEF StepOK, KnownOK
  <2> QED
    BY <1>1, <1>2, <1>5, <2>1, <2>2, MutationBegins DEF r
<1>6. ASSUME NEW f \in Folders, UNCHANGED life,
             W!Set(p, [W!Idle EXCEPT !.op = "clear", !.step = "write", !.set = f])
      PROVE  ContentInv'
  <2> DEFINE r == [W!Idle EXCEPT !.op = "clear", !.step = "write", !.set = f]
  <2>1. /\ r \in Mutation /\ r.op = "clear" /\ r.step = "write" /\ r.doc = Nil /\ r.obj = Nil
        /\ DOMAIN r.docs = {} /\ DOMAIN r.canvases = {}
    BY IdleMutation DEF W!Idle, Mutation
  <2> HIDE DEF r
  <2>2. StepOK(r) /\ KnownOK(r, life')
    BY <1>6, <2>1 DEF StepOK, KnownOK
  <2> QED
    BY <1>1, <1>2, <1>6, <2>1, <2>2, MutationBegins DEF r
<1>7. ASSUME NEW d \in Ids \cup {Nil}, d # Nil => life[d] = "known", UNCHANGED life,
             W!Set(p, [W!Idle EXCEPT !.op = "draw", !.step = "count", !.doc = d])
      PROVE  ContentInv'
  <2> DEFINE r == [W!Idle EXCEPT !.op = "draw", !.step = "count", !.doc = d]
  <2>1. /\ r \in Mutation /\ r.op = "draw" /\ r.step = "count" /\ r.doc = d /\ r.obj = Nil
        /\ DOMAIN r.docs = {} /\ DOMAIN r.canvases = {} /\ ~r.detached
    BY IdleMutation DEF W!Idle, Mutation
  <2> HIDE DEF r
  <2>2. StepOK(r) /\ KnownOK(r, life')
    BY <1>7, <2>1 DEF StepOK, KnownOK
  <2> QED
    BY <1>1, <1>2, <1>7, <2>1, <2>2, MutationBegins DEF r
<1>8. ASSUME NEW c \in Drawings, NEW n \in 0..ProScene, UNCHANGED life,
             W!Set(p, [W!Idle EXCEPT !.op = "paint", !.step = "find", !.canvas = c, !.set = n])
      PROVE  ContentInv'
  <2> DEFINE r == [W!Idle EXCEPT !.op = "paint", !.step = "find", !.canvas = c, !.set = n]
  <2>1. /\ r \in Mutation /\ r.op = "paint" /\ r.step = "find" /\ r.doc = Nil /\ r.obj = Nil
        /\ r.canvas = c /\ r.set = n /\ DOMAIN r.docs = {} /\ DOMAIN r.canvases = {} /\ ~r.detached
    BY IdleMutation DEF W!Idle, Mutation
  <2> HIDE DEF r
  <2>2. StepOK(r) /\ KnownOK(r, life')
    BY <1>8, <2>1 DEF StepOK, KnownOK
  <2> QED
    BY <1>1, <1>2, <1>8, <2>1, <2>2, MutationBegins DEF r
<1>9. ASSUME NEW c \in Drawings, UNCHANGED life,
             W!Set(p, [W!Idle EXCEPT !.op = "erase", !.step = "write", !.canvas = c])
      PROVE  ContentInv'
  <2> DEFINE r == [W!Idle EXCEPT !.op = "erase", !.step = "write", !.canvas = c]
  <2>1. /\ r \in Mutation /\ r.op = "erase" /\ r.step = "write" /\ r.doc = Nil /\ r.obj = Nil
        /\ r.canvas = c /\ DOMAIN r.docs = {} /\ DOMAIN r.canvases = {}
    BY IdleMutation DEF W!Idle, Mutation
  <2> HIDE DEF r
  <2>2. StepOK(r) /\ KnownOK(r, life')
    BY <1>9, <2>1 DEF StepOK, KnownOK
  <2> QED
    BY <1>1, <1>2, <1>9, <2>1, <2>2, MutationBegins DEF r
<1> QED
  BY <1>3, <1>4, <1>5, <1>6, <1>7, <1>8, <1>9 DEF W!Start, Fields

\* CanvasService.create counts: nobody draws on Free past the limit.
LEMMA CountMutation ==
    ASSUME ContentInv, NEW p \in Procs, W!Count(p)
    PROVE  ContentInv'
<1> DEFINE s == IF request[p].doc = Nil THEN "insert" ELSE "find"
           r == [request[p] EXCEPT !.step = s]
<1>1. /\ request[p].op = "draw" /\ request[p].step = "count"
      /\ UNCHANGED <<doc, canvas, pro, wasPro, life, docCopy, slips>>
  BY DEF W!Count, W!At, W!stored
<1>2. CASE ~W!MayDraw
  <2>1. W!Set(p, W!Idle)
    BY <1>2 DEF W!Count
  <2> QED
    BY <1>1, <2>1, MutationEnds
<1>3. CASE W!MayDraw
  <2>1. W!Set(p, r)
    BY <1>3 DEF W!Count
  <2>2. DOMAIN request[p].docs = {} /\ DOMAIN request[p].canvases = {}
    BY <1>1, RequestFacts DEF WroteOK
  <2>3. request[p] \in Mutation /\ StepOK(request[p]) /\ s \in {"insert", "find"}
    BY RequestFacts
  <2>4. r \in Mutation /\ r.step = s /\ r.op = "draw" /\ r.doc = request[p].doc /\ r.obj = request[p].obj
        /\ r.docs = request[p].docs /\ r.canvases = request[p].canvases
        /\ r.detached = request[p].detached
    BY <1>1, <2>3 DEF Mutation
  <2>5. (s = "insert" => r.doc = Nil) /\ (s = "find" => r.doc # Nil)
    BY <2>4
  <2> HIDE DEF r, s
  <2>6. r.doc \in Ids \cup {Nil}
    BY <2>4 DEF Mutation
  <2>7. StepOK(r)
    BY <1>1, <2>3, <2>4, <2>5, <2>6 DEF StepOK
  <2>8. WroteOK(r) /\ DrawnOK(r, canvas) /\ CopyOK(r, docCopy) /\ SmallOK(r)
    BY <2>2, <2>3, <2>4 DEF WroteOK, DrawnOK, CopyOK, SmallOK
  <2>9. KnownOK(r, life)
    BY <1>1, <2>4, RequestFacts DEF KnownOK
  <2>10. ~wasPro /\ "count" \notin slips => FewOK(r, canvas)
    BY <1>3 DEF ContentInv, FewOK, W!MayDraw, There
  <2>11. Fresh(slips) => ReadFresh(r, doc, canvas, Believed)
    BY <1>1, <2>2, <2>3, <2>4, RequestFacts DEF ReadFresh
  <2>12. TakeFresh(r, doc)
    BY <2>4 DEF TakeFresh, Takes
  <2>13. W!CanvasesFree(p, DOMAIN r.canvases)
    BY <2>2, <2>4 DEF W!CanvasesFree
  <2> QED
    BY <1>1, <2>1, <2>4, <2>7, <2>8, <2>9, <2>10, <2>11, <2>12, <2>13, MutationQuiet
<1> QED
  BY <1>2, <1>3

\* get_by_id: what is found, in the copy or in the table, is there.
LEMMA FindMutation ==
    ASSUME ContentInv, NEW p \in Procs, W!Find(p)
    PROVE  ContentInv'
<1> DEFINE f == request[p]
<1>1. /\ f.step = "find" /\ f.op \in {"update", "remove", "draw"}
      /\ UNCHANGED <<doc, canvas, pro, wasPro, life, docCopy, slips>>
  <2>1. f \in Mutation /\ StepOK(f)
    BY RequestFacts
  <2> QED
    BY <2>1 DEF W!Find, W!stored, StepOK, Mutation
<1>2. /\ f \in Mutation /\ StepOK(f) /\ f.doc \in Ids /\ DOMAIN f.docs = {} /\ DOMAIN f.canvases = {}
      /\ ~f.detached /\ life[f.doc] = "known" /\ docCopy[f.doc] \in Rows /\ doc[f.doc] \in Rows
  <2>1. f \in Mutation /\ StepOK(f) /\ WroteOK(f) /\ KnownOK(f, life)
    BY RequestFacts
  <2>2. f.doc \in Ids
    BY <1>1, <2>1 DEF StepOK
  <2>3. DOMAIN f.docs = {} /\ DOMAIN f.canvases = {}
    BY <1>1, <2>1 DEF WroteOK
  <2>4. ~f.detached
    BY <1>1, <2>1 DEF StepOK
  <2>5. life[f.doc] = "known"
    BY <1>1, <2>1, <2>2, NamesAssumption DEF KnownOK
  <2> QED
    BY <2>1, <2>2, <2>3, <2>4, <2>5, RequestFacts
<1>3. CASE docCopy[f.doc] # Nil
  <2> DEFINE o == docCopy[f.doc]
             s == W!Use(f)
             r == [f EXCEPT !.obj = o, !.detached = TRUE, !.step = s]
  <2>1. W!Set(p, r)
    BY <1>3 DEF W!Find
  <2>2. o \in W!Document
    BY <1>2, <1>3 DEF Rows
  <2>3. /\ f.op = "update" => s = IF "task" \in DOMAIN f.set THEN "release" ELSE "merge"
        /\ f.op = "remove" => s = "write"
        /\ f.op = "draw" => s = "insert"
    BY DEF W!Use
  <2>4. s \in {"release", "merge", "write", "insert"}
    BY <1>1, <2>3
  <2>5. Fresh(slips) => CopyFresh(o, f.doc, doc, Pending, Written, slips)
    BY <1>2 DEF ContentInv
  <2> HIDE DEF s, o
  <2>6. r \in Mutation /\ r.op = f.op /\ r.step = s /\ r.doc = f.doc /\ r.obj = o /\ r.detached
        /\ r.set = f.set /\ r.docs = f.docs /\ r.canvases = f.canvases
    BY <1>2, <2>2, <2>4 DEF Mutation, Rows
  <2> HIDE DEF r
  <2>7. StepOK(r)
    BY <1>1, <1>2, <2>2, <2>3, <2>6, ContentAssumption, NamesAssumption DEF StepOK, Takes
  <2>8. WroteOK(r) /\ DrawnOK(r, canvas) /\ CopyOK(r, docCopy) /\ SmallOK(r)
    <3>1. r.step \notin {"commit"} /\ r.op # "paint"
      BY <1>1, <2>4, <2>6
    <3> QED
      BY <1>2, <2>6, <3>1 DEF WroteOK, DrawnOK, CopyOK, SmallOK
  <2>9. KnownOK(r, life)
    BY <1>2, <1>1, <2>6 DEF KnownOK
  <2>10. ~wasPro /\ "count" \notin slips => FewOK(r, canvas)
    BY <1>1, <2>6, RequestFacts DEF FewOK
  <2>11. Fresh(slips) => ReadFresh(r, doc, canvas, Believed)
    <3> SUFFICES ASSUME Fresh(slips) PROVE ReadFresh(r, doc, canvas, Believed)
      OBVIOUS
    <3>1. doc[r.doc] # Nil /\ TaskOf(r.doc, r.obj.task, doc, Believed)
      <4>1. o # Nil /\ f.doc \in Ids /\ o.task \in DocTasks \cup {Nil} /\ r.obj = o /\ r.doc = f.doc
        BY <1>2, <1>3, <2>2, <2>6 DEF o, W!Document
      <4> QED
        BY <2>5, <4>1 DEF CopyFresh, TaskOf, Believed
    <3>2. DOMAIN r.docs = {} /\ r.detached /\ r.step \notin {"fill", "flush", "commit"}
      BY <1>2, <2>4, <2>6
    <3> QED
      BY <3>1, <3>2 DEF ReadFresh
  <2>12. TakeFresh(r, doc)
    BY <2>3, <2>4, <2>6 DEF TakeFresh, Takes
  <2>13. W!CanvasesFree(p, DOMAIN r.canvases)
    BY <1>2, <2>6 DEF W!CanvasesFree
  <2> QED
    BY <1>1, <2>1, <2>6, <2>7, <2>8, <2>9, <2>10, <2>11, <2>12, <2>13, MutationQuiet
<1>4. CASE docCopy[f.doc] = Nil /\ doc[f.doc] # Nil
  <2> DEFINE o == doc[f.doc]
             r == [f EXCEPT !.obj = o, !.base = o, !.step = "fill"]
  <2>1. W!Set(p, r)
    BY <1>4 DEF W!Find
  <2>2. o \in W!Document
    BY <1>2, <1>4 DEF Rows
  <2> HIDE DEF o
  <2>3. r \in Mutation /\ r.op = f.op /\ r.step = "fill" /\ r.doc = f.doc /\ r.obj = o /\ ~r.detached
        /\ r.base = o /\ r.set = f.set /\ r.docs = f.docs /\ r.canvases = f.canvases
    BY <1>2, <2>2 DEF Mutation, Rows
  <2> HIDE DEF r
  <2>4. StepOK(r)
    BY <1>1, <1>2, <2>2, <2>3, ContentAssumption, NamesAssumption DEF StepOK, Takes
  <2>5. WroteOK(r) /\ DrawnOK(r, canvas) /\ CopyOK(r, docCopy) /\ SmallOK(r)
    BY <1>1, <1>2, <2>3 DEF WroteOK, DrawnOK, CopyOK, SmallOK
  <2>6. KnownOK(r, life)
    BY <1>2, <1>1, <2>3 DEF KnownOK
  <2>7. ~wasPro /\ "count" \notin slips => FewOK(r, canvas)
    BY <1>1, <2>3, RequestFacts DEF FewOK
  <2>8. ReadFresh(r, doc, canvas, Believed)
    <3>1. o # Nil /\ doc[r.doc] = o
      BY <1>4, <2>3 DEF o
    <3>2. TaskOf(r.doc, o.task, doc, Believed)
      BY <3>1 DEF TaskOf
    <3> QED
      BY <1>2, <2>3, <3>1, <3>2 DEF ReadFresh
  <2>9. TakeFresh(r, doc)
    BY <2>3 DEF TakeFresh, Takes
  <2>10. W!CanvasesFree(p, DOMAIN r.canvases)
    BY <1>2, <2>3 DEF W!CanvasesFree
  <2> QED
    BY <1>1, <2>1, <2>3, <2>4, <2>5, <2>6, <2>7, <2>8, <2>9, <2>10, MutationQuiet
<1>5. CASE docCopy[f.doc] = Nil /\ doc[f.doc] = Nil
  <2>1. W!Set(p, W!Idle)
    BY <1>5 DEF W!Find
  <2> QED
    BY <1>1, <2>1, MutationEnds
<1> QED
  BY <1>3, <1>4, <1>5

\* The fields set are merged into the object; its base is the row there is.
LEMMA MergeMutation ==
    ASSUME ContentInv, NEW p \in Procs, W!Merge(p)
    PROVE  ContentInv'
<1> DEFINE f == request[p]
           o == W!Over(f.set, f.obj)
           b == IF f.detached THEN doc[f.doc] ELSE f.base
           r == [f EXCEPT !.obj = o, !.step = "flush", !.base = b]
<1>1. /\ f.step = "merge" /\ f.op = "update" /\ W!Set(p, r)
      /\ UNCHANGED <<doc, canvas, pro, wasPro, life, docCopy, slips>>
  BY DEF W!Merge, W!At, W!stored
<1>2. /\ f \in Mutation /\ f.doc \in Ids /\ f.set \in Fields /\ f.obj \in W!Document
      /\ DOMAIN f.canvases = {} /\ WroteOK(f) /\ doc[f.doc] \in Rows
  <2>1. f \in Mutation /\ StepOK(f) /\ WroteOK(f)
    BY RequestFacts
  <2>2. f.doc \in Ids /\ f.set \in Fields /\ f.obj \in W!Document
    BY <1>1, <2>1 DEF StepOK
  <2>3. DOMAIN f.canvases = {}
    BY <1>1, <2>1 DEF WroteOK
  <2> QED
    BY <2>1, <2>2, <2>3, RequestFacts
<1>3. o \in W!Document /\ o.task = IF "task" \in DOMAIN f.set THEN f.set["task"] ELSE f.obj.task
  BY <1>2, OverDocument
<1>4. b \in Rows /\ (f.detached => b = doc[f.doc]) /\ (~f.detached => b = f.base)
  BY <1>2 DEF Mutation
<1> HIDE DEF o, b
<1>5. r \in Mutation /\ r.op = "update" /\ r.step = "flush" /\ r.doc = f.doc /\ r.obj = o /\ r.base = b
      /\ r.set = f.set /\ r.docs = f.docs /\ r.canvases = f.canvases /\ r.detached = f.detached
  BY <1>1, <1>2, <1>3, <1>4 DEF Mutation, Rows
<1> HIDE DEF r
<1>6. StepOK(r)
  BY <1>2, <1>3, <1>5, NamesAssumption DEF StepOK
<1>7. WroteOK(r)
  BY <1>1, <1>2, <1>5 DEF WroteOK, Takes
<1>8. DrawnOK(r, canvas) /\ CopyOK(r, docCopy) /\ SmallOK(r) /\ FewOK(r, canvas)
  BY <1>2, <1>5 DEF DrawnOK, CopyOK, SmallOK, FewOK
<1>9. KnownOK(r, life)
  BY <1>1, <1>5, RequestFacts DEF KnownOK
<1>10. Fresh(slips) => ReadFresh(r, doc, canvas, Believed)
  <2> SUFFICES ASSUME Fresh(slips) PROVE ReadFresh(r, doc, canvas, Believed)
    OBVIOUS
  <2>1. ReadFresh(f, doc, canvas, Believed)
    BY RequestFacts
  <2>2. f.obj # Nil
    BY <1>2, ContentAssumption
  <2>3. doc[f.doc] # Nil /\ (~f.detached => f.base # Nil /\ f.base.task = doc[f.doc].task)
        /\ TaskOf(f.doc, f.obj.task, doc, Believed)
    BY <1>1, <2>1, <2>2 DEF ReadFresh
  <2>4. b # Nil /\ b.task = doc[f.doc].task
    BY <1>4, <2>3
  <2>5. IF Takes(r) THEN r.obj.task = r.set["task"] ELSE TaskOf(r.doc, r.obj.task, doc, Believed)
    BY <1>3, <1>5, <2>3 DEF Takes
  <2>6. \A d \in DOMAIN r.docs : r.docs[d] = Nil =>
         \A c \in Drawings : canvas[c] # Nil /\ canvas[c].doc = d => c \in DOMAIN r.canvases
    BY <1>5, <2>1 DEF ReadFresh
  <2> QED
    BY <1>5, <2>3, <2>4, <2>5, <2>6 DEF ReadFresh
<1>11. Untaken(slips) => TakeFresh(r, doc)
  BY <1>1, <1>5, RequestFacts DEF TakeFresh, Takes
<1>12. W!CanvasesFree(p, DOMAIN r.canvases)
  BY <1>2, <1>5 DEF W!CanvasesFree
<1> QED
  BY <1>1, <1>5, <1>6, <1>7, <1>8, <1>9, <1>10, <1>11, <1>12, MutationQuiet

\* A canvas gets an id that nobody has.
LEMMA DrawMutation ==
    ASSUME ContentInv, NEW p \in Procs, W!Draw(p)
    PROVE  ContentInv'
<1> DEFINE f == request[p]
           c == CHOOSE c \in W!Unused(p) : TRUE
           v == [doc |-> f.doc, scene |-> 0]
           m == [x \in {c} |-> v]
           r == [f EXCEPT !.canvases = m, !.step = "commit"]
<1>1. /\ f.step = "insert" /\ f.op = "draw" /\ W!Set(p, r) /\ c \in W!Unused(p)
      /\ UNCHANGED <<doc, canvas, pro, wasPro, life, docCopy, slips>>
  BY DEF W!Draw, W!At, W!stored
<1>2. c \in Drawings /\ canvas[c] = Nil /\ W!CanvasesFree(p, {c})
  BY <1>1 DEF W!Unused
<1> HIDE DEF c
<1>3. f \in Mutation /\ StepOK(f) /\ WroteOK(f) /\ f.doc \in Ids \cup {Nil}
  BY RequestFacts DEF Mutation
<1>4. DOMAIN f.docs = {}
  BY <1>1, <1>3 DEF WroteOK
<1>5. v \in W!Canvas /\ v # Nil /\ v.scene = 0
  BY <1>3, ContentAssumption DEF W!Canvas
<1>6. m \in Part(Drawings, Drawn) /\ DOMAIN m = {c} /\ m[c] = v
  <2>1. m \in [{c} -> Drawn] /\ {c} \in SUBSET Drawings
    BY <1>2, <1>5 DEF Drawn
  <2> QED
    BY <2>1 DEF Part
<1>7. v = [doc |-> f.doc, scene |-> 0]
  OBVIOUS
<1> HIDE DEF m, v
<1>8. r \in Mutation /\ r.op = "draw" /\ r.step = "commit" /\ r.doc = f.doc /\ r.obj = f.obj
      /\ r.docs = f.docs /\ r.canvases = m
  BY <1>1, <1>3, <1>6 DEF Mutation
<1> HIDE DEF r
<1>9. StepOK(r)
  BY <1>1, <1>3, <1>8, NamesAssumption DEF StepOK
<1>10. WroteOK(r)
  BY <1>2, <1>4, <1>6, <1>7, <1>8 DEF WroteOK
<1>11. DrawnOK(r, canvas) /\ CopyOK(r, docCopy) /\ SmallOK(r)
  BY <1>2, <1>5, <1>6, <1>8, ContentAssumption DEF DrawnOK, CopyOK, SmallOK
<1>12. KnownOK(r, life)
  BY <1>1, <1>8, RequestFacts DEF KnownOK
<1>13. ~wasPro /\ "count" \notin slips => FewOK(r, canvas)
  BY <1>1, <1>8, RequestFacts DEF FewOK
<1>14. Fresh(slips) => ReadFresh(r, doc, canvas, Believed)
  BY <1>1, <1>4, <1>8, RequestFacts DEF ReadFresh
<1>15. TakeFresh(r, doc)
  BY <1>8 DEF TakeFresh, Takes
<1>16. W!CanvasesFree(p, DOMAIN r.canvases)
  BY <1>2, <1>6, <1>8
<1> QED
  BY <1>1, <1>8, <1>9, <1>10, <1>11, <1>12, <1>13, <1>14, <1>15, <1>16, MutationQuiet

\* A scene is let through only if it keeps Free's limit.
LEMMA PaintMutation ==
    ASSUME ContentInv, NEW p \in Procs, W!Paint(p)
    PROVE  ContentInv'
<1> DEFINE f == request[p]
           r == [f EXCEPT !.step = "write"]
           free == IF pro THEN ProScene ELSE FreeScene
           refused == canvas[f.canvas] = Nil \/ (f.set > free /\ f.set > canvas[f.canvas].scene)
<1>1. /\ f.step = "find" /\ f.op = "paint" /\ W!Set(p, IF refused THEN W!Idle ELSE r)
      /\ UNCHANGED <<doc, canvas, pro, wasPro, life, docCopy, slips>>
  BY DEF W!Paint, W!At, W!stored
<1>2. CASE refused
  <2>1. W!Set(p, W!Idle)
    BY <1>1, <1>2
  <2> QED
    BY <1>1, <2>1, MutationEnds
<1>3. CASE ~refused
  <2>1. W!Set(p, r)
    BY <1>1, <1>3
  <2>2. f \in Mutation /\ StepOK(f) /\ WroteOK(f) /\ f.canvas \in Drawings /\ f.set \in 0..ProScene
        /\ f.obj = Nil
    BY <1>1, RequestFacts DEF StepOK
  <2>3. DOMAIN f.docs = {} /\ DOMAIN f.canvases = {}
    BY <1>1, <2>2 DEF WroteOK
  <2>4. r \in Mutation /\ r.op = "paint" /\ r.step = "write" /\ r.doc = f.doc /\ r.obj = f.obj
        /\ r.canvas = f.canvas /\ r.set = f.set /\ r.docs = f.docs /\ r.canvases = f.canvases
    BY <1>1, <2>2 DEF Mutation
  <2>5. ~wasPro => f.set <= FreeScene
    <3> SUFFICES ASSUME ~wasPro PROVE f.set <= FreeScene
      OBVIOUS
    <3>1. ~pro /\ canvas[f.canvas] # Nil /\ canvas[f.canvas].scene <= FreeScene
      BY <1>3, <2>2 DEF ContentInv, Small
    <3>2. canvas[f.canvas] \in W!Canvas
      BY <3>1, <2>2, RequestFacts DEF Drawn
    <3>3. PICK n \in 0..ProScene : n = f.set
      BY <2>2
    <3>4. PICK k \in 0..ProScene : k = canvas[f.canvas].scene
      BY <3>2 DEF W!Canvas
    <3>5. ~(n > FreeScene /\ n > k) /\ k <= FreeScene
      BY <1>3, <3>1, <3>3, <3>4
    <3>6. n <= FreeScene
      BY <3>5, ContentAssumption
    <3> QED
      BY <3>3, <3>6
  <2> HIDE DEF r
  <2>6. StepOK(r)
    BY <1>1, <2>2, <2>4, NamesAssumption DEF StepOK
  <2>7. WroteOK(r) /\ DrawnOK(r, canvas) /\ CopyOK(r, docCopy) /\ FewOK(r, canvas)
    BY <2>3, <2>4 DEF WroteOK, DrawnOK, CopyOK, FewOK
  <2>8. ~wasPro => SmallOK(r)
    BY <2>3, <2>4, <2>5 DEF SmallOK
  <2>9. KnownOK(r, life)
    BY <1>1, <2>4, RequestFacts DEF KnownOK
  <2>10. ReadFresh(r, doc, canvas, Believed) /\ TakeFresh(r, doc)
    BY <2>2, <2>3, <2>4 DEF ReadFresh, TakeFresh, Takes
  <2>11. W!CanvasesFree(p, DOMAIN r.canvases)
    BY <2>3, <2>4 DEF W!CanvasesFree
  <2> QED
    BY <1>1, <2>1, <2>4, <2>6, <2>7, <2>8, <2>9, <2>10, <2>11, MutationQuiet
<1> QED
  BY <1>2, <1>3

\* The row of a canvas, locked and unchanged but for its scene.
LEMMA WriteMutation ==
    ASSUME ContentInv, NEW p \in Procs, W!Write(p)
    PROVE  ContentInv'
<1> DEFINE f == request[p]
           v == IF f.op = "erase" THEN Nil ELSE [canvas[f.canvas] EXCEPT !.scene = f.set]
           m == [x \in {f.canvas} |->
                    IF f.op = "erase" THEN Nil ELSE [canvas[x] EXCEPT !.scene = f.set]]
           r == [f EXCEPT !.step = "commit", !.canvases = m]
<1>1. /\ f.step = "write" /\ f.op \in {"paint", "erase"}
      /\ W!Set(p, IF canvas[f.canvas] = Nil THEN W!Idle ELSE r) /\ W!CanvasesFree(p, {f.canvas})
      /\ UNCHANGED <<doc, canvas, pro, wasPro, life, docCopy, slips>>
  BY DEF W!Write, W!At, W!stored
<1>2. CASE canvas[f.canvas] = Nil
  <2>1. W!Set(p, W!Idle)
    BY <1>1, <1>2
  <2> QED
    BY <1>1, <2>1, MutationEnds
<1>3. CASE canvas[f.canvas] # Nil
  <2>1. W!Set(p, r)
    BY <1>1, <1>3
  <2>2. f \in Mutation /\ StepOK(f) /\ WroteOK(f) /\ f.canvas \in Drawings /\ f.doc = Nil /\ f.obj = Nil
        /\ (f.op = "paint" => f.set \in 0..ProScene)
    BY <1>1, RequestFacts DEF StepOK
  <2>3. DOMAIN f.docs = {}
    BY <1>1, <2>2 DEF WroteOK
  <2>4. canvas[f.canvas] \in W!Canvas
    BY <1>3, <2>2, RequestFacts DEF Drawn
  <2>5. /\ f.op = "erase" => v = Nil
        /\ f.op = "paint" => v \in W!Canvas /\ v.scene = f.set /\ v.doc = canvas[f.canvas].doc
    BY <2>2, <2>4 DEF W!Canvas
  <2>6. m \in Part(Drawings, Drawn) /\ DOMAIN m = {f.canvas} /\ m[f.canvas] = v
    <3>1. m \in [{f.canvas} -> Drawn] /\ {f.canvas} \in SUBSET Drawings
      BY <1>1, <2>2, <2>5 DEF Drawn
    <3> QED
      BY <3>1 DEF Part
  <2> HIDE DEF m, v
  <2>7. r \in Mutation /\ r.op = f.op /\ r.step = "commit" /\ r.doc = f.doc /\ r.obj = f.obj
        /\ r.canvas = f.canvas /\ r.set = f.set /\ r.docs = f.docs /\ r.canvases = m
    BY <1>1, <2>2, <2>6 DEF Mutation
  <2> HIDE DEF r
  <2>8. StepOK(r)
    BY <1>1, <2>2, <2>7, NamesAssumption DEF StepOK
  <2>9. WroteOK(r)
    BY <1>1, <2>3, <2>5, <2>6, <2>7 DEF WroteOK
  <2>10. DrawnOK(r, canvas) /\ CopyOK(r, docCopy) /\ FewOK(r, canvas)
    BY <1>1, <1>3, <2>5, <2>6, <2>7 DEF DrawnOK, CopyOK, FewOK
  <2>11. ~wasPro => SmallOK(r)
    BY <1>1, <2>5, <2>6, <2>7, RequestFacts DEF SmallOK
  <2>12. KnownOK(r, life)
    BY <1>1, <2>7, RequestFacts DEF KnownOK
  <2>13. ReadFresh(r, doc, canvas, Believed) /\ TakeFresh(r, doc)
    BY <1>1, <2>2, <2>3, <2>7 DEF ReadFresh, TakeFresh, Takes
  <2>14. W!CanvasesFree(p, DOMAIN r.canvases)
    BY <1>1, <2>6, <2>7
  <2> QED
    BY <1>1, <2>1, <2>7, <2>8, <2>9, <2>10, <2>11, <2>12, <2>13, <2>14, MutationQuiet
<1> QED
  BY <1>2, <1>3

\* An update that fails after its flush leaves its copy; whatever task it has, its
\* document is there.
LEMMA FailedUpdate ==
    ASSUME ContentInv, NEW p \in Procs, W!Fail(p), Fresh(slips), W!At(p, "update", "commit"),
           NEW d \in Ids, life[d] = "known"
    PROVE  CopyFresh(docCopy'[d], d, doc, Pending', Written', slips')
<1>1. /\ W!Set(p, W!Idle) /\ docCopy' = docCopy /\ slips' = slips \cup {"failed"}
  BY DEF W!Fail, W!stored
<1>2. \A q \in Procs : request'[q] = IF q = p THEN W!Idle ELSE request[q]
  BY <1>1 DEF ContentInv, ContentTyped, W!Set
<1>3. CopyFresh(docCopy[d], d, doc, Pending, Written, slips)
  BY DEF ContentInv
<1>4. CASE d \in Written'
  <2>1. PICK q \in Procs : d \in DOMAIN request'[q].docs
    BY <1>4 DEF Written
  <2>2. q # p /\ d \in DOMAIN request[q].docs
    BY <1>2, <2>1, IdleMutation
  <2>3. d \in Written
    BY <2>2 DEF Written
  <2>4. <<d, docCopy[d].task>> \in Pending => <<d, docCopy[d].task>> \in Pending'
    <3> SUFFICES ASSUME <<d, docCopy[d].task>> \in Pending
                 PROVE  <<d, docCopy[d].task>> \in Pending'
      OBVIOUS
    <3>1. PICK x \in Procs : /\ request[x].op = "update" /\ request[x].step = "commit"
                             /\ request[x].doc = d /\ request[x].docs[d].task = docCopy[d].task
      BY DEF Pending
    <3>2. d \in DOMAIN request[x].docs
      BY <3>1, RequestFacts DEF WroteOK
    <3>3. x # p
      BY <2>2, <3>2 DEF ContentInv, Locks
    <3>4. request'[x] = request[x]
      BY <1>2, <3>3
    <3>5. docCopy[d].task \in DocTasks \cup {Nil}
      BY DEF Pending
    <3> QED
      BY <3>1, <3>4, <3>5 DEF Pending
  <2> QED
    BY <1>1, <1>3, <2>3, <2>4 DEF CopyFresh
<1>5. CASE d \notin Written'
  BY <1>1, <1>3, <1>5 DEF CopyFresh
<1> QED
  BY <1>4, <1>5

LEMMA FailMutation ==
    ASSUME ContentInv, NEW p \in Procs, W!Fail(p)
    PROVE  ContentInv'
<1>1. /\ W!Set(p, W!Idle) /\ UNCHANGED <<doc, canvas, pro, wasPro, life, docCopy>>
      /\ slips' = IF W!At(p, "update", "commit") THEN slips \cup {"failed"} ELSE slips
  BY DEF W!Fail, W!stored
<1>2. CASE W!At(p, "update", "commit")
  <2>1. Fresh(slips') => Fresh(slips) /\ "failed" \in slips'
    BY <1>1, <1>2 DEF Fresh
  <2>2. Fresh(slips') => \A d \in Ids : life[d] = "known" =>
          CopyFresh(docCopy'[d], d, doc, Pending', Written', slips')
    BY <1>2, <2>1, FailedUpdate
  <2>3. slips \subseteq slips' /\ docCopy' \in [Ids -> Rows]
        /\ life' \in [Ids -> {"none", "born", "known"}]
        /\ \A d \in Ids : life'[d] = life[d] /\ docCopy'[d] = docCopy[d]
    BY <1>1, RequestFacts
  <2>4. W!DocsFree(p, DOMAIN W!Idle.docs) /\ W!CanvasesFree(p, DOMAIN W!Idle.canvases)
    BY IdleMutation DEF W!DocsFree, W!CanvasesFree
  <2>5. W!Idle.op # "create" /\ (\A d \in Ids : d \notin DOMAIN W!Idle.docs)
    BY IdleMutation
  <2> QED
    BY <1>1, <2>1, <2>2, <2>3, <2>4, <2>5, IdleMutation, MutationStep
<1>3. CASE ~W!At(p, "update", "commit")
  <2>1. slips' = slips /\ (Fresh(slips') => request[p].step # "commit" \/ request[p].op # "update")
    BY <1>1, <1>3 DEF W!At
  <2> QED
    BY <1>1, <2>1, MutationEnds
<1> QED
  BY <1>2, <1>3

\* The state of the documents and of who works with them.
papers == <<doc, canvas, life, pro, wasPro, docCopy, request>>

\* The automation and the plan leave them alone.
LEMMA RobotMutation ==
    ASSUME ContentInv, UNCHANGED papers, slips' \in {slips, slips \cup {"scan"}}
    PROVE  ContentInv'
<1>1. UNCHANGED <<doc, canvas, life, pro, wasPro, docCopy, request>>
  BY DEF papers
<1>2. Fresh(slips') <=> Fresh(slips)
  BY DEF Fresh
<1>3. Untaken(slips') <=> Untaken(slips)
  BY DEF Untaken
<1>4. ("count" \in slips' <=> "count" \in slips) /\ ("failed" \in slips' <=> "failed" \in slips)
  OBVIOUS
<1>5. Pending' = Pending /\ Written' = Written /\ (ContentTyped' <=> ContentTyped) /\ (Locks' <=> Locks)
  BY <1>1 DEF Pending, Written, ContentTyped, Locks
<1>6. Believed' = Believed
  BY <1>4, <1>5 DEF Believed
<1>7. ASSUME NEW d \in Ids, CopyFresh(docCopy[d], d, doc, Pending, Written, slips)
      PROVE  CopyFresh(docCopy[d], d, doc, Pending, Written, slips')
  BY <1>4, <1>7 DEF CopyFresh
<1> QED
  BY <1>1, <1>2, <1>3, <1>4, <1>5, <1>6, <1>7 DEF ContentInv

LEMMA PlanMutation ==
    ASSUME ContentInv, W!PlanChanges
    PROVE  ContentInv'
<1>1. UNCHANGED <<doc, canvas, life, docCopy, request, slips>> /\ pro' \in BOOLEAN /\ wasPro'
  BY RequestFacts DEF W!PlanChanges
<1>2. Pending' = Pending /\ Written' = Written /\ Believed' = Believed /\ (Locks' <=> Locks)
      /\ ContentTyped'
  BY <1>1 DEF Pending, Believed, Written, ContentTyped, Locks, ContentInv
<1> QED
  BY <1>1, <1>2 DEF ContentInv

\* A new document: nobody else has its id, and its copy is what it will be.
LEMMA CreateDocument ==
    ASSUME ContentInv, NEW p \in Procs, W!Create(p)
    PROVE  ContentInv'
<1> DEFINE f == request[p]
           m == [d \in {f.doc} |-> f.obj]
           r == [f EXCEPT !.docs = m, !.step = "commit"]
<1>1. /\ f.step = "flush" /\ f.op = "create" /\ W!Set(p, r)
      /\ UNCHANGED <<doc, canvas, pro, wasPro, life>>
      /\ docCopy' = [docCopy EXCEPT ![f.doc] = f.obj]
      /\ slips' = IF f.obj.task = Nil THEN slips ELSE slips \cup {"take"}
  BY DEF W!Create, W!At, W!stored
<1>2. f \in Mutation /\ StepOK(f) /\ WroteOK(f) /\ f.doc \in Ids /\ f.obj \in W!Document /\ f.obj # Nil
  BY <1>1, RequestFacts, ContentAssumption DEF StepOK
<1>3. DOMAIN f.canvases = {} /\ life[f.doc] = "born"
  BY <1>1, <1>2, RequestFacts DEF WroteOK, KnownOK
<1>4. m \in Part(Ids, Rows) /\ DOMAIN m = {f.doc} /\ m[f.doc] = f.obj
  <2>1. m \in [{f.doc} -> Rows] /\ {f.doc} \in SUBSET Ids
    BY <1>2 DEF Rows
  <2> QED
    BY <2>1 DEF Part
<1> HIDE DEF m
<1>5. r \in Mutation /\ r.op = "create" /\ r.step = "commit" /\ r.doc = f.doc /\ r.obj = f.obj
      /\ r.docs = m /\ r.canvases = f.canvases
  BY <1>1, <1>2, <1>4 DEF Mutation
<1> HIDE DEF r
<1>6. docCopy' \in [Ids -> Rows] /\ docCopy'[f.doc] = f.obj
      /\ \A d \in Ids \ {f.doc} : docCopy'[d] = docCopy[d]
  BY <1>1, <1>2, RequestFacts DEF Rows
<1>7. StepOK(r)
  BY <1>2, <1>5, NamesAssumption DEF StepOK
<1>8. WroteOK(r) /\ DrawnOK(r, canvas) /\ CopyOK(r, docCopy') /\ SmallOK(r) /\ FewOK(r, canvas)
  BY <1>3, <1>4, <1>5, <1>6 DEF WroteOK, DrawnOK, CopyOK, SmallOK, FewOK
<1>9. KnownOK(r, life')
  BY <1>1, <1>3, <1>5 DEF KnownOK
<1>10. ASSUME NEW q \in Procs \ {p} PROVE DOMAIN request[q].docs \cap {f.doc} = {}
  <2>1. WroteOK(request[q]) /\ KnownOK(request[q], life)
    BY RequestFacts
  <2>2. CASE request[q].op = "create"
    <3>1. request[q].doc # f.doc
      BY <1>1, <2>2 DEF ContentInv, Locks
    <3>2. DOMAIN request[q].docs # {} => DOMAIN request[q].docs = {request[q].doc}
      BY <2>1, <2>2 DEF WroteOK, Takes
    <3> QED
      BY <3>1, <3>2
  <2>3. CASE request[q].op # "create"
    BY <1>3, <2>1, <2>3 DEF KnownOK
  <2> QED
    BY <2>2, <2>3
<1>11. W!DocsFree(p, DOMAIN r.docs) /\ W!CanvasesFree(p, DOMAIN r.canvases)
  BY <1>3, <1>4, <1>5, <1>10 DEF W!DocsFree, W!CanvasesFree, W!Others
<1>12. \A q \in Procs \ {p} : request[q].op = "create" => request[q].doc # r.doc
  BY <1>1, <1>5 DEF ContentInv, Locks
<1>13. ReadFresh(r, doc, canvas, Believed)
  BY <1>2, <1>4, <1>5 DEF ReadFresh
<1>14. \A d \in Ids : life[d] = "known" => docCopy'[d] = docCopy[d] /\ d \notin DOMAIN r.docs
  BY <1>3, <1>4, <1>5, <1>6
<1>15. Untaken(slips') => TakeFresh(r, doc)
  BY <1>1, <1>5 DEF TakeFresh, Takes, Untaken
<1>16. slips \subseteq slips' /\ life' \in [Ids -> {"none", "born", "known"}]
       /\ (Fresh(slips') => f.step # "commit" \/ f.op # "update")
  BY <1>1, RequestFacts
<1>17. \A d \in Ids \ {r.doc} : docCopy'[d] \in {docCopy[d], Nil}
  BY <1>5, <1>6
<1> QED
  BY <1>1, <1>5, <1>6, <1>7, <1>8, <1>9, <1>11, <1>12, <1>13, <1>14, <1>15, <1>16, <1>17,
     MutationStep

\* The copy is of the committed row, unless another has written it: a slip.
LEMMA FillMutation ==
    ASSUME ContentInv, NEW p \in Procs, W!Fill(p)
    PROVE  ContentInv'
<1> DEFINE f == request[p]
           s == W!Use(f)
           r == [f EXCEPT !.step = s]
<1>1. /\ f.step = "fill" /\ W!Set(p, r)
      /\ UNCHANGED <<doc, canvas, pro, wasPro, life>>
      /\ docCopy' = [docCopy EXCEPT ![f.doc] = f.obj]
      /\ slips' = IF W!DocsFree(p, {f.doc}) THEN slips ELSE slips \cup {"stale"}
  BY DEF W!Fill, W!stored
<1>2. f \in Mutation /\ StepOK(f) /\ WroteOK(f) /\ f.obj \in W!Document /\ f.obj # Nil
      /\ f.base = f.obj /\ ~f.detached
  BY <1>1, RequestFacts, ContentAssumption DEF StepOK
<1>3. f.op \in {"update", "remove", "draw"} /\ f.doc \in Ids
      /\ (f.op = "update" => f.set \in Fields)
  BY <1>1, <1>2 DEF StepOK, Mutation
<1>4. DOMAIN f.docs = {} /\ DOMAIN f.canvases = {}
  BY <1>1, <1>2 DEF WroteOK
<1>5. life[f.doc] = "known"
  BY <1>3, NamesAssumption, RequestFacts DEF KnownOK
<1>6. /\ f.op = "update" => s = IF "task" \in DOMAIN f.set THEN "release" ELSE "merge"
      /\ f.op = "remove" => s = "write"
      /\ f.op = "draw" => s = "insert"
  BY DEF W!Use
<1>7. s \in {"release", "merge", "write", "insert"}
  BY <1>3, <1>6
<1> HIDE DEF s
<1>8. r \in Mutation /\ r.op = f.op /\ r.step = s /\ r.doc = f.doc /\ r.obj = f.obj /\ r.base = f.obj
      /\ r.set = f.set /\ r.docs = f.docs /\ r.canvases = f.canvases /\ ~r.detached
  BY <1>2, <1>7 DEF Mutation
<1> HIDE DEF r
<1>9. docCopy' \in [Ids -> Rows] /\ docCopy'[f.doc] = f.obj
      /\ \A d \in Ids \ {f.doc} : docCopy'[d] = docCopy[d]
  BY <1>1, <1>2, <1>3, RequestFacts DEF Rows
<1>10. StepOK(r)
  BY <1>2, <1>3, <1>6, <1>8, NamesAssumption DEF StepOK, Takes
<1>11. WroteOK(r) /\ DrawnOK(r, canvas) /\ CopyOK(r, docCopy') /\ SmallOK(r)
  BY <1>3, <1>4, <1>7, <1>8 DEF WroteOK, DrawnOK, CopyOK, SmallOK
<1>12. ~wasPro /\ "count" \notin slips => FewOK(r, canvas)
  BY <1>1, <1>8, RequestFacts DEF FewOK
<1>13. KnownOK(r, life')
  BY <1>1, <1>3, <1>4, <1>5, <1>8 DEF KnownOK
<1>14. W!DocsFree(p, DOMAIN r.docs) /\ W!CanvasesFree(p, DOMAIN r.canvases)
  BY <1>4, <1>8 DEF W!DocsFree, W!CanvasesFree
<1>15. ASSUME Fresh(slips')
       PROVE  /\ ReadFresh(r, doc, canvas, Believed)
              /\ CopyFresh(docCopy'[f.doc], f.doc, doc, Pending', Written', slips')
  <2>1. Fresh(slips) /\ W!DocsFree(p, {f.doc})
    BY <1>1, <1>15 DEF Fresh
  <2>2. doc[f.doc] # Nil /\ f.obj.task = doc[f.doc].task
    BY <1>1, <1>2, <1>3, <2>1, RequestFacts DEF ReadFresh
  <2>3. TaskOf(r.doc, r.obj.task, doc, Believed)
    BY <1>8, <2>2 DEF TaskOf
  <2>4. ReadFresh(r, doc, canvas, Believed)
    <3>1. doc[r.doc] # Nil /\ r.base # Nil /\ r.base.task = doc[r.doc].task
      BY <1>2, <1>8, <2>2
    <3>2. DOMAIN r.docs = {} /\ r.step \notin {"fill", "flush", "commit"}
      BY <1>4, <1>7, <1>8
    <3> QED
      BY <2>3, <3>1, <3>2 DEF ReadFresh
  <2>5. f.doc \notin Written'
    <3>1. \A q \in Procs : request'[q] = IF q = p THEN r ELSE request[q]
      BY <1>1, <1>8 DEF ContentInv, ContentTyped, W!Set
    <3>2. \A q \in Procs : f.doc \notin DOMAIN request'[q].docs
      BY <1>4, <1>8, <2>1, <3>1 DEF W!DocsFree, W!Others
    <3> QED
      BY <3>2 DEF Written
  <2> QED
    BY <1>9, <2>2, <2>4, <2>5 DEF CopyFresh
<1>16. Fresh(slips') => \A d \in Ids : life[d] = "known" =>
           \/ docCopy'[d] = docCopy[d] /\ d \notin DOMAIN r.docs
           \/ CopyFresh(docCopy'[d], d, doc, Pending', Written', slips')
  BY <1>4, <1>8, <1>9, <1>15
<1>17. TakeFresh(r, doc)
  BY <1>6, <1>3, <1>7, <1>8 DEF TakeFresh, Takes
<1>18. slips \subseteq slips' /\ life' \in [Ids -> {"none", "born", "known"}]
       /\ (Fresh(slips') => f.step # "commit" \/ f.op # "update") /\ r.op # "create"
  BY <1>1, <1>3, <1>8, RequestFacts
<1>19. \A d \in Ids \ {r.doc} : docCopy'[d] \in {docCopy[d], Nil}
  BY <1>8, <1>9
<1> QED
  BY <1>1, <1>8, <1>9, <1>10, <1>11, <1>12, <1>13, <1>14, <1>15, <1>16, <1>17, <1>18, <1>19,
     MutationStep

\* release_taskId_for_other_workspaces writes every other row with the task.
LEMMA ReleaseMutation ==
    ASSUME ContentInv, NEW p \in Procs, W!Release(p)
    PROVE  ContentInv'
<1> DEFINE f == request[p]
           D == W!Released(p)
           m == [d \in D |-> [doc[d] EXCEPT !.task = Nil]]
           r == [f EXCEPT !.docs = m, !.step = "merge"]
<1>1. /\ f.step = "release" /\ f.op = "update" /\ W!Set(p, r) /\ W!DocsFree(p, D)
      /\ UNCHANGED <<doc, canvas, pro, wasPro, life, slips>>
      /\ docCopy' = [d \in Ids |-> Nil]
  BY DEF W!Release, W!At, W!stored, W!Gone
<1>2. f \in Mutation /\ StepOK(f) /\ WroteOK(f) /\ f.doc \in Ids /\ f.obj \in W!Document /\ Takes(f)
      /\ f.set \in Fields
  BY <1>1, RequestFacts DEF StepOK
<1>3. DOMAIN f.canvases = {}
  BY <1>1, <1>2 DEF WroteOK
<1>4. /\ D \subseteq Ids \ {f.doc} /\ \A d \in D : doc[d] # Nil
      /\ \A d \in Ids \ {f.doc} : doc[d] # Nil /\ doc[d].task = f.set["task"] => d \in D
  BY DEF W!Released
<1> HIDE DEF D
<1>5. ASSUME NEW d \in D PROVE m[d] \in W!Document /\ m[d] # Nil /\ m[d].task = Nil
  <2>1. doc[d] \in W!Document
    BY <1>4, RequestFacts DEF Rows
  <2> QED
    BY <2>1, ContentAssumption DEF W!Document
<1>6. m \in Part(Ids, Rows) /\ DOMAIN m = D
  <2>1. DOMAIN m = D /\ m = [d \in DOMAIN m |-> m[d]]
    OBVIOUS
  <2>2. \A d \in D : m[d] \in Rows
    BY <1>5 DEF Rows
  <2> HIDE DEF m
  <2> QED
    BY <1>4, <2>1, <2>2, PartFacts
<1> HIDE DEF m
<1>7. r \in Mutation /\ r.op = "update" /\ r.step = "merge" /\ r.doc = f.doc /\ r.obj = f.obj
      /\ r.set = f.set /\ r.base = f.base /\ r.detached = f.detached
      /\ r.docs = m /\ r.canvases = f.canvases
  BY <1>1, <1>2, <1>6 DEF Mutation
<1> HIDE DEF r
<1>8. docCopy' \in [Ids -> Rows] /\ \A d \in Ids : docCopy'[d] = Nil
  BY <1>1 DEF Rows
<1>9. StepOK(r)
  BY <1>2, <1>7, NamesAssumption DEF StepOK
<1>10. WroteOK(r)
  BY <1>2, <1>3, <1>4, <1>5, <1>6, <1>7 DEF WroteOK, Takes
<1>11. DrawnOK(r, canvas) /\ CopyOK(r, docCopy') /\ SmallOK(r) /\ FewOK(r, canvas)
  BY <1>3, <1>7 DEF DrawnOK, CopyOK, SmallOK, FewOK
<1>12. KnownOK(r, life')
  <2>1. \A d \in D : life[d] = "known"
    BY <1>4 DEF ContentInv
  <2> QED
    BY <1>1, <1>6, <1>7, <2>1, RequestFacts DEF KnownOK
<1>13. W!DocsFree(p, DOMAIN r.docs) /\ W!CanvasesFree(p, DOMAIN r.canvases)
  BY <1>1, <1>3, <1>6, <1>7 DEF W!CanvasesFree
<1>14. Fresh(slips) => ReadFresh(r, doc, canvas, Believed)
  <2> SUFFICES ASSUME Fresh(slips) PROVE ReadFresh(r, doc, canvas, Believed)
    OBVIOUS
  <2>1. ReadFresh(f, doc, canvas, Believed)
    BY RequestFacts
  <2>2. doc[r.doc] # Nil /\ (~r.detached => r.base # Nil /\ r.base.task = doc[r.doc].task)
        /\ TaskOf(r.doc, r.obj.task, doc, Believed)
    BY <1>1, <1>2, <1>7, <2>1, ContentAssumption DEF ReadFresh
  <2>3. \A d \in DOMAIN r.docs : r.docs[d] # Nil
    BY <1>5, <1>6, <1>7
  <2> QED
    BY <1>7, <2>2, <2>3 DEF ReadFresh
<1>15. TakeFresh(r, doc)
  BY <1>4, <1>6, <1>7 DEF TakeFresh
<1>16. slips \subseteq slips' /\ life' \in [Ids -> {"none", "born", "known"}] /\ f.step # "commit"
       /\ r.op # "create"
  BY <1>1, <1>7, RequestFacts
<1> QED
  BY <1>1, <1>7, <1>8, <1>9, <1>10, <1>11, <1>12, <1>13, <1>14, <1>15, <1>16, MutationStep

\* Rows that are removed.
LEMMA GoneParts ==
    ASSUME NEW X, NEW V, Nil \in V, NEW D \in SUBSET X
    PROVE  W!Gone(D) \in Part(X, V) /\ DOMAIN W!Gone(D) = D /\ \A x \in D : W!Gone(D)[x] = Nil
BY DEF W!Gone, Part

\* A document is removed with every canvas that is in it, and so is a folder's.
LEMMA RemoveDocument ==
    ASSUME ContentInv, NEW p \in Procs, W!Remove(p)
    PROVE  ContentInv'
<1> DEFINE f == request[p]
           V == W!CanvasesOf({f.doc})
           m == W!Gone({f.doc})
           k == W!Gone(V)
           r == [f EXCEPT !.docs = m, !.canvases = k, !.step = "commit"]
<1>1. /\ f.step = "write" /\ f.op = "remove" /\ W!DocsFree(p, {f.doc}) /\ W!CanvasesFree(p, V)
      /\ UNCHANGED <<doc, canvas, pro, wasPro, life, slips>>
      /\ IF doc[f.doc] = Nil THEN W!Set(p, W!Idle) /\ UNCHANGED docCopy
         ELSE W!Set(p, r) /\ docCopy' = [docCopy EXCEPT ![f.doc] = Nil]
  BY DEF W!Remove, W!At, W!stored, W!DropCopy
<1>2. CASE doc[f.doc] = Nil
  BY <1>1, <1>2, MutationEnds
<1>3. CASE doc[f.doc] # Nil
  <2>1. W!Set(p, r) /\ docCopy' = [docCopy EXCEPT ![f.doc] = Nil]
    BY <1>1, <1>3
  <2>2. f \in Mutation /\ StepOK(f) /\ WroteOK(f) /\ f.doc \in Ids
    BY <1>1, RequestFacts DEF StepOK
  <2>3. life[f.doc] = "known"
    BY <1>3, <2>2 DEF ContentInv
  <2>4. V \in SUBSET Drawings /\ \A c \in Drawings : canvas[c] # Nil /\ canvas[c].doc = f.doc => c \in V
    BY DEF W!CanvasesOf
  <2> HIDE DEF V
  <2>5. m \in Part(Ids, Rows) /\ DOMAIN m = {f.doc} /\ m[f.doc] = Nil
    BY <2>2, GoneParts DEF Rows
  <2>6. k \in Part(Drawings, Drawn) /\ DOMAIN k = V /\ \A c \in V : k[c] = Nil
    BY <2>4, GoneParts DEF Drawn
  <2> HIDE DEF m, k
  <2>7. r \in Mutation /\ r.op = "remove" /\ r.step = "commit" /\ r.doc = f.doc /\ r.obj = f.obj
        /\ r.docs = m /\ r.canvases = k
    BY <1>1, <2>2, <2>5, <2>6 DEF Mutation
  <2> HIDE DEF r
  <2>8. docCopy' \in [Ids -> Rows] /\ docCopy'[f.doc] = Nil
        /\ \A d \in Ids \ {f.doc} : docCopy'[d] = docCopy[d]
    BY <2>1, <2>2, RequestFacts DEF Rows
  <2>9. StepOK(r)
    BY <2>2, <2>7, NamesAssumption DEF StepOK
  <2>10. WroteOK(r)
    BY <2>5, <2>6, <2>7 DEF WroteOK, Takes
  <2>11. DrawnOK(r, canvas) /\ CopyOK(r, docCopy') /\ SmallOK(r) /\ FewOK(r, canvas)
    BY <2>6, <2>7 DEF DrawnOK, CopyOK, SmallOK, FewOK
  <2>12. KnownOK(r, life')
    BY <1>1, <2>3, <2>5, <2>7 DEF KnownOK
  <2>13. W!DocsFree(p, DOMAIN r.docs) /\ W!CanvasesFree(p, DOMAIN r.canvases)
    BY <1>1, <2>5, <2>6, <2>7
  <2>14. ReadFresh(r, doc, canvas, Believed)
    BY <1>3, <2>4, <2>5, <2>6, <2>7 DEF ReadFresh
  <2>15. TakeFresh(r, doc)
    BY <2>7 DEF TakeFresh, Takes
  <2>16. slips \subseteq slips' /\ life' \in [Ids -> {"none", "born", "known"}] /\ f.step # "commit"
         /\ r.op # "create"
    BY <1>1, <2>7, RequestFacts
  <2>17. (\A d \in Ids \ {r.doc} : docCopy'[d] \in {docCopy[d], Nil})
         /\ \A d \in Ids : docCopy'[d] = Nil \/ (docCopy'[d] = docCopy[d] /\ d \notin DOMAIN r.docs)
    BY <2>5, <2>7, <2>8
  <2> QED
    BY <1>1, <2>1, <2>7, <2>8, <2>9, <2>10, <2>11, <2>12, <2>13, <2>14, <2>15, <2>16, <2>17,
       MutationStep
<1> QED
  BY <1>2, <1>3

LEMMA ClearFolder ==
    ASSUME ContentInv, NEW p \in Procs, W!Clear(p)
    PROVE  ContentInv'
<1> DEFINE f == request[p]
           D == {d \in Ids : doc[d] # Nil /\ doc[d].folder = f.set}
           V == W!CanvasesOf(D)
           m == W!Gone(D)
           k == W!Gone(V)
           r == [f EXCEPT !.docs = m, !.canvases = k, !.step = "commit"]
<1>1. /\ f.step = "write" /\ f.op = "clear" /\ W!DocsFree(p, D) /\ W!CanvasesFree(p, V)
      /\ UNCHANGED <<doc, canvas, pro, wasPro, life, slips>>
      /\ W!Set(p, r) /\ docCopy' = [d \in Ids |-> Nil]
  BY DEF W!Clear, W!At, W!stored, W!Gone
<1>2. f \in Mutation /\ StepOK(f) /\ WroteOK(f) /\ f.doc = Nil /\ f.obj = Nil
  BY <1>1, RequestFacts DEF StepOK
<1>3. D \in SUBSET Ids /\ \A d \in D : life[d] = "known"
  BY DEF ContentInv
<1>4. V \in SUBSET Drawings
      /\ \A d \in D, c \in Drawings : canvas[c] # Nil /\ canvas[c].doc = d => c \in V
  BY DEF W!CanvasesOf
<1> HIDE DEF V, D
<1>5. m \in Part(Ids, Rows) /\ DOMAIN m = D /\ \A d \in D : m[d] = Nil
  BY <1>3, GoneParts DEF Rows
<1>6. k \in Part(Drawings, Drawn) /\ DOMAIN k = V /\ \A c \in V : k[c] = Nil
  BY <1>4, GoneParts DEF Drawn
<1> HIDE DEF m, k
<1>7. r \in Mutation /\ r.op = "clear" /\ r.step = "commit" /\ r.doc = Nil /\ r.obj = Nil
      /\ r.docs = m /\ r.canvases = k
  BY <1>1, <1>2, <1>5, <1>6 DEF Mutation
<1> HIDE DEF r
<1>8. docCopy' \in [Ids -> Rows] /\ \A d \in Ids : docCopy'[d] = Nil
  BY <1>1 DEF Rows
<1>9. StepOK(r)
  BY <1>2, <1>7, NamesAssumption DEF StepOK
<1>10. WroteOK(r)
  BY <1>5, <1>6, <1>7 DEF WroteOK, Takes
<1>11. DrawnOK(r, canvas) /\ CopyOK(r, docCopy') /\ SmallOK(r) /\ FewOK(r, canvas)
  BY <1>6, <1>7 DEF DrawnOK, CopyOK, SmallOK, FewOK
<1>12. KnownOK(r, life')
  BY <1>1, <1>3, <1>5, <1>7 DEF KnownOK
<1>13. W!DocsFree(p, DOMAIN r.docs) /\ W!CanvasesFree(p, DOMAIN r.canvases)
  BY <1>1, <1>5, <1>6, <1>7
<1>14. ReadFresh(r, doc, canvas, Believed)
  BY <1>4, <1>5, <1>6, <1>7 DEF ReadFresh
<1>15. TakeFresh(r, doc)
  BY <1>7 DEF TakeFresh, Takes
<1>16. slips \subseteq slips' /\ life' \in [Ids -> {"none", "born", "known"}] /\ f.step # "commit"
       /\ r.op # "create"
  BY <1>1, <1>7, RequestFacts
<1> QED
  BY <1>1, <1>7, <1>8, <1>9, <1>10, <1>11, <1>12, <1>13, <1>14, <1>15, <1>16, MutationStep

\* What the UPDATE of a document writes.
RowOf(r, D) == IF r.base = Nil \/ D = Nil THEN r.obj
               ELSE [x \in DOMAIN r.obj |-> IF r.obj[x] # r.base[x] THEN r.obj[x] ELSE D[x]]

LEMMA RowIsDocument ==
    ASSUME NEW r \in Mutation, NEW D \in Rows, r.obj \in W!Document
    PROVE  /\ RowOf(r, D) \in W!Document /\ RowOf(r, D) # Nil
           /\ D # Nil /\ r.base # Nil /\ r.base.task = D.task => RowOf(r, D).task = r.obj.task
<1> DEFINE row == RowOf(r, D)
<1>1. CASE r.base = Nil \/ D = Nil
  BY <1>1, ContentAssumption DEF RowOf
<1>2. CASE r.base # Nil /\ D # Nil
  <2>1. r.base \in W!Document /\ D \in W!Document
    BY <1>2 DEF Rows, Mutation
  <2>2. DOMAIN r.obj = {"task", "folder", "content"}
    BY DEF W!Document
  <2>3. row = [x \in {"task", "folder", "content"} |->
                  IF r.obj[x] # r.base[x] THEN r.obj[x] ELSE D[x]]
    BY <1>2, <2>2 DEF RowOf
  <2>4. row \in W!Document
    BY <2>1, <2>3 DEF W!Document
  <2>5. row.task = IF r.obj.task # r.base.task THEN r.obj.task ELSE D.task
    BY <2>3
  <2> QED
    BY <2>4, <2>5, ContentAssumption
<1> QED
  BY <1>1, <1>2

\* The row of an update has the task of what was read, or the one it takes.
LEMMA FlushDocument ==
    ASSUME ContentInv, NEW p \in Procs, W!Flush(p)
    PROVE  ContentInv'
<1> DEFINE f == request[p]
           row == RowOf(f, doc[f.doc])
           k == [d \in {f.doc} |-> row]
           m == W!Over(f.docs, k)
           r == [f EXCEPT !.docs = m, !.step = "commit"]
<1>1. /\ f.step = "flush" /\ f.op = "update" /\ W!DocsFree(p, {f.doc})
      /\ UNCHANGED <<doc, canvas, pro, wasPro, life, slips>>
      /\ IF doc[f.doc] = Nil /\ f.base # Nil THEN W!Set(p, W!Idle) /\ UNCHANGED docCopy
         ELSE W!Set(p, r) /\ docCopy' = [docCopy EXCEPT ![f.doc] = row]
  BY DEF W!Flush, W!At, W!stored, RowOf
<1>2. CASE doc[f.doc] = Nil /\ f.base # Nil
  BY <1>1, <1>2, MutationEnds
<1>3. CASE ~(doc[f.doc] = Nil /\ f.base # Nil)
  <2>1. W!Set(p, r) /\ docCopy' = [docCopy EXCEPT ![f.doc] = row]
    BY <1>1, <1>3
  <2>2. f \in Mutation /\ StepOK(f) /\ WroteOK(f) /\ f.doc \in Ids /\ f.obj \in W!Document /\ f.obj # Nil
        /\ f.set \in Fields /\ f.base \in Rows /\ doc[f.doc] \in Rows /\ life[f.doc] = "known"
    <3>1. f \in Mutation /\ StepOK(f) /\ WroteOK(f) /\ f.doc \in Ids /\ f.obj \in W!Document
          /\ f.set \in Fields
      BY <1>1, RequestFacts DEF StepOK
    <3>2. life[f.doc] = "known"
      BY <1>1, <3>1, NamesAssumption, RequestFacts DEF KnownOK
    <3> QED
      BY <3>1, <3>2, ContentAssumption, RequestFacts DEF Mutation
  <2>3. row \in W!Document /\ row # Nil
        /\ (doc[f.doc] # Nil /\ f.base # Nil /\ f.base.task = doc[f.doc].task => row.task = f.obj.task)
    BY <2>2, RowIsDocument
  <2>4. DOMAIN f.canvases = {} /\ f.doc \notin DOMAIN f.docs
        /\ \A d \in DOMAIN f.docs : f.docs[d] # Nil /\ Takes(f) /\ f.docs[d].task = Nil
    BY <1>1, <2>2 DEF WroteOK
  <2> HIDE DEF row
  <2>5. k \in Part(Ids, Rows) /\ f.docs \in Part(Ids, Rows) /\ DOMAIN k = {f.doc} /\ k[f.doc] = row
    <3>1. k \in [{f.doc} -> Rows] /\ {f.doc} \in SUBSET Ids
      BY <2>2, <2>3 DEF Rows
    <3> QED
      BY <2>2, <3>1 DEF Part, Mutation
  <2> HIDE DEF k
  <2>6. m \in Part(Ids, Rows) /\ DOMAIN m = DOMAIN f.docs \cup {f.doc} /\ m[f.doc] = row
        /\ \A d \in DOMAIN f.docs : m[d] = f.docs[d]
    <3>1. /\ m \in Part(Ids, Rows) /\ DOMAIN m = DOMAIN f.docs \cup DOMAIN k
          /\ \A d \in DOMAIN m : m[d] = IF d \in DOMAIN f.docs THEN f.docs[d] ELSE k[d]
      <4>1. ASSUME NEW a \in Part(Ids, Rows), NEW b \in Part(Ids, Rows)
            PROVE  /\ W!Over(a, b) \in Part(Ids, Rows) /\ DOMAIN W!Over(a, b) = DOMAIN a \cup DOMAIN b
                   /\ \A d \in DOMAIN W!Over(a, b) :
                        W!Over(a, b)[d] = IF d \in DOMAIN a THEN a[d] ELSE b[d]
        BY OverParts
      <4> QED
        BY <2>5, <4>1
    <3> HIDE DEF m
    <3> QED
      BY <2>4, <2>5, <3>1
  <2> HIDE DEF m
  <2>7. r \in Mutation /\ r.op = "update" /\ r.step = "commit" /\ r.doc = f.doc /\ r.obj = f.obj
        /\ r.set = f.set /\ r.docs = m /\ r.canvases = f.canvases
    BY <1>1, <2>2, <2>6 DEF Mutation
  <2> HIDE DEF r
  <2>8. docCopy' \in [Ids -> Rows] /\ docCopy'[f.doc] = row
        /\ \A d \in Ids \ {f.doc} : docCopy'[d] = docCopy[d]
    BY <2>1, <2>2, <2>3, RequestFacts DEF Rows
  <2>9. StepOK(r)
    BY <2>2, <2>7, NamesAssumption DEF StepOK
  <2>10. WroteOK(r)
    BY <2>3, <2>4, <2>6, <2>7 DEF WroteOK, Takes
  <2>11. DrawnOK(r, canvas) /\ CopyOK(r, docCopy') /\ SmallOK(r) /\ FewOK(r, canvas)
    BY <2>4, <2>7 DEF DrawnOK, CopyOK, SmallOK, FewOK
  <2>12. KnownOK(r, life')
    BY <1>1, <2>2, <2>6, <2>7, RequestFacts DEF KnownOK
  <2>13. W!DocsFree(p, DOMAIN r.docs) /\ W!CanvasesFree(p, DOMAIN r.canvases)
    <3>1. W!DocsFree(p, DOMAIN f.docs)
      BY DEF ContentInv, Locks, W!DocsFree, W!Others
    <3> QED
      BY <1>1, <2>4, <2>6, <2>7, <3>1 DEF W!DocsFree, W!CanvasesFree
  <2>14. ASSUME Fresh(slips)
         PROVE  /\ ReadFresh(r, doc, canvas, Believed)
                /\ CopyFresh(docCopy'[f.doc], f.doc, doc, Pending', Written', slips')
                /\ "failed" \notin slips =>
                     r.docs[r.doc].task = IF Takes(r) THEN r.set["task"] ELSE doc[r.doc].task
    <3>1. doc[f.doc] # Nil /\ f.base # Nil /\ f.base.task = doc[f.doc].task
          /\ IF Takes(f) THEN f.obj.task = f.set["task"] ELSE TaskOf(f.doc, f.obj.task, doc, Believed)
      BY <1>1, <2>2, <2>14, RequestFacts DEF ReadFresh
    <3>2. row.task = f.obj.task
      BY <2>3, <3>1
    <3>3. <<f.doc, f.obj.task>> \notin Pending
      <4> SUFFICES ASSUME <<f.doc, f.obj.task>> \in Pending PROVE FALSE
        OBVIOUS
      <4>1. PICK q \in Procs : request[q].op = "update" /\ request[q].step = "commit"
                               /\ request[q].doc = f.doc
        BY DEF Pending
      <4>2. q # p /\ f.doc \in DOMAIN request[q].docs
        BY <1>1, <4>1, RequestFacts DEF WroteOK
      <4> QED
        BY <1>1, <4>2 DEF W!DocsFree, W!Others
    <3>4. "failed" \notin slips => row.task = IF Takes(f) THEN f.set["task"] ELSE doc[f.doc].task
      BY <3>1, <3>2, <3>3 DEF TaskOf, Believed
    <3>5. \A d \in DOMAIN r.docs : r.docs[d] # Nil
      BY <2>3, <2>4, <2>6, <2>7
    <3>6. ReadFresh(r, doc, canvas, Believed)
      <4>1. doc[r.doc] # Nil
        BY <2>7, <3>1
      <4> QED
        BY <2>7, <3>5, <4>1 DEF ReadFresh
    <3>7. <<f.doc, row.task>> \in Pending'
      <4>1. request'[p] = r
        BY <2>1, <2>7 DEF ContentInv, ContentTyped, W!Set
      <4>2. row.task \in DocTasks \cup {Nil}
        BY <2>3 DEF W!Document
      <4> QED
        BY <2>2, <2>6, <2>7, <4>1, <4>2 DEF Pending
    <3>8. "failed" \notin slips =>
            r.docs[r.doc].task = IF Takes(r) THEN r.set["task"] ELSE doc[r.doc].task
      BY <1>1, <2>6, <2>7, <3>4 DEF Takes
    <3> QED
      BY <2>8, <3>1, <3>6, <3>7, <3>8 DEF CopyFresh
  <2>15. Fresh(slips) => \A d \in Ids : life[d] = "known" =>
            \/ docCopy'[d] = docCopy[d] /\ (d \in DOMAIN r.docs => d \in DOMAIN f.docs)
            \/ CopyFresh(docCopy'[d], d, doc, Pending', Written', slips')
    BY <2>6, <2>7, <2>8, <2>14
  <2>16. Untaken(slips) => TakeFresh(r, doc)
    <3> SUFFICES ASSUME Untaken(slips) PROVE TakeFresh(r, doc)
      OBVIOUS
    <3>1. Fresh(slips) /\ "failed" \notin slips
      BY DEF Untaken, Fresh
    <3>2. r.docs[r.doc].task = IF Takes(r) THEN r.set["task"] ELSE doc[r.doc].task
      BY <2>14, <3>1
    <3>3. TakeFresh(f, doc)
      BY RequestFacts
    <3> QED
      BY <1>1, <2>6, <2>7, <3>2, <3>3 DEF TakeFresh, Takes
  <2>17. slips \subseteq slips' /\ life' \in [Ids -> {"none", "born", "known"}] /\ f.step # "commit"
         /\ r.op # "create"
    BY <1>1, <2>7, RequestFacts
  <2>18. \A d \in Ids \ {r.doc} : docCopy'[d] \in {docCopy[d], Nil}
    BY <2>7, <2>8
  <2>19. ~wasPro /\ "count" \notin slips => FewOK(r, canvas)
    BY <2>11
  <2> QED
    BY <1>1, <2>1, <2>7, <2>8, <2>9, <2>10, <2>11, <2>12, <2>13, <2>14, <2>15, <2>16, <2>17, <2>18,
       MutationStep
<1> QED
  BY <1>2, <1>3

\* What a commit does to the rows, and what it finds that it overlapped with.
LEMMA CommitFacts ==
    ASSUME ContentInv, NEW p \in Procs, W!Commit(p)
    PROVE  /\ request[p].step = "commit" /\ UNCHANGED <<pro, wasPro, docCopy>> /\ slips \subseteq slips'
           /\ \A q \in Procs : request'[q] = IF q = p THEN W!Idle ELSE request[q]
           /\ request' \in [Procs -> Mutation]
           /\ doc' \in [Ids -> Rows] /\ canvas' \in [Drawings -> Drawn]
           /\ \A d \in Ids : doc'[d] = IF d \in DOMAIN request[p].docs THEN request[p].docs[d] ELSE doc[d]
           /\ \A c \in Drawings : canvas'[c] = IF c \in DOMAIN request[p].canvases
                                               THEN request[p].canvases[c] ELSE canvas[c]
           /\ life' \in [Ids -> {"none", "born", "known"}]
           /\ \A d \in Ids : life'[d] = IF request[p].op = "create" /\ d = request[p].doc THEN "known"
                                        ELSE life[d]
           /\ \A q \in Procs \ {p} :
                /\ DOMAIN request[q].docs \cap DOMAIN request[p].docs = {}
                /\ DOMAIN request[q].canvases \cap DOMAIN request[p].canvases = {}
                /\ Fresh(slips') =>
                     /\ request[q].obj # Nil => request[q].doc \notin DOMAIN request[p].docs
                     /\ request[p].op = "draw" => request[p].doc \notin DOMAIN request[q].docs
                /\ Untaken(slips') =>
                     ~ /\ request[p].op = "update" /\ request[q].op = "update"
                       /\ request[p].set = request[q].set /\ "task" \in DOMAIN request[p].set
                       /\ request[q].step # "release"
                /\ "count" \notin slips' => ~ /\ request[p].op = "draw" /\ request[q].op = "draw"
                                              /\ request[q].step # "count"
<1> DEFINE r == request[p]
<1>1. /\ r.step = "commit" /\ UNCHANGED <<pro, wasPro, docCopy>> /\ slips' = slips \cup W!Overlap(p)
      /\ doc' = W!Over(r.docs, doc) /\ canvas' = W!Over(r.canvases, canvas) /\ W!Set(p, W!Idle)
      /\ life' = IF r.op = "create" THEN [life EXCEPT ![r.doc] = "known"] ELSE life
  BY DEF W!Commit
<1>2. r \in Mutation /\ r.docs \in Part(Ids, Rows) /\ r.canvases \in Part(Drawings, Drawn)
  BY RequestFacts DEF Mutation
<1>3. doc' \in [Ids -> Rows] /\ \A d \in Ids : doc'[d] = IF d \in DOMAIN r.docs THEN r.docs[d] ELSE doc[d]
  <2>1. ASSUME NEW a \in Part(Ids, Rows), NEW b \in [Ids -> Rows]
        PROVE  /\ W!Over(a, b) \in [Ids -> Rows]
               /\ \A d \in Ids : W!Over(a, b)[d] = IF d \in DOMAIN a THEN a[d] ELSE b[d]
    BY OverAll
  <2> QED
    BY <1>1, <1>2, <2>1, RequestFacts
<1>4. canvas' \in [Drawings -> Drawn]
      /\ \A c \in Drawings : canvas'[c] = IF c \in DOMAIN r.canvases THEN r.canvases[c] ELSE canvas[c]
  <2>1. ASSUME NEW a \in Part(Drawings, Drawn), NEW b \in [Drawings -> Drawn]
        PROVE  /\ W!Over(a, b) \in [Drawings -> Drawn]
               /\ \A c \in Drawings : W!Over(a, b)[c] = IF c \in DOMAIN a THEN a[c] ELSE b[c]
    BY OverAll
  <2> QED
    BY <1>1, <1>2, <2>1, RequestFacts
<1>5. request' \in [Procs -> Mutation]
      /\ \A q \in Procs : request'[q] = IF q = p THEN W!Idle ELSE request[q]
  BY <1>1, IdleMutation DEF ContentInv, ContentTyped, W!Set
<1>6. life' \in [Ids -> {"none", "born", "known"}]
      /\ \A d \in Ids : life'[d] = IF r.op = "create" /\ d = r.doc THEN "known" ELSE life[d]
  BY <1>1, RequestFacts
<1>7. ASSUME NEW q \in Procs \ {p}
      PROVE  /\ "stale" \notin W!Overlap(p) =>
                  /\ ~(request[q].doc \in DOMAIN r.docs /\ request[q].obj # Nil)
                  /\ ~(r.op = "draw" /\ r.doc \in DOMAIN request[q].docs)
             /\ "take" \notin W!Overlap(p) =>
                  ~ /\ r.op = "update" /\ request[q].op = "update" /\ r.set = request[q].set
                    /\ "task" \in DOMAIN r.set /\ request[q].step # "release"
             /\ "count" \notin W!Overlap(p) =>
                  ~ /\ r.op = "draw" /\ request[q].op = "draw" /\ request[q].step # "count"
  BY DEF W!Overlap, W!Others
<1>8. ASSUME NEW q \in Procs \ {p}
      PROVE  /\ DOMAIN request[q].docs \cap DOMAIN request[p].docs = {}
             /\ DOMAIN request[q].canvases \cap DOMAIN request[p].canvases = {}
  BY DEF ContentInv, Locks
<1>9. /\ Fresh(slips') => "stale" \notin W!Overlap(p)
      /\ Untaken(slips') => "take" \notin W!Overlap(p)
      /\ "count" \notin slips' => "count" \notin W!Overlap(p)
  BY <1>1 DEF Fresh, Untaken
<1> QED
  BY <1>1, <1>3, <1>4, <1>5, <1>6, <1>7, <1>8, <1>9

\* The frame of a commit: types, locks, and what the others have written.
LEMMA CommitFrame ==
    ASSUME ContentInv, NEW p \in Procs, W!Commit(p)
    PROVE  /\ ContentTyped' /\ Locks'
           /\ \A d \in Ids : doc'[d] # Nil => life'[d] = "known"
           /\ \A q \in Procs : /\ StepOK(request'[q]) /\ WroteOK(request'[q])
                               /\ DrawnOK(request'[q], canvas') /\ KnownOK(request'[q], life')
                               /\ CopyOK(request'[q], docCopy')
           /\ ~wasPro' => ~pro' /\ Small(canvas') /\ \A q \in Procs : SmallOK(request'[q])
<1> DEFINE r == request[p]
<1>1. ContentTyped'
  BY CommitFacts, RequestFacts DEF ContentTyped
<1>2. Locks'
  BY CommitFacts, IdleMutation DEF ContentInv, Locks
<1>3. ASSUME NEW d \in Ids, doc'[d] # Nil PROVE life'[d] = "known"
  <2>1. CASE d \in DOMAIN r.docs
    <3>1. r.op \in {"create", "update", "remove", "clear"} /\ (r.op = "create" => d = r.doc)
      <4>1. r.step = "commit" /\ WroteOK(r)
        BY CommitFacts, RequestFacts
      <4> QED
        BY <2>1, <4>1 DEF WroteOK, Takes
    <3>2. r.op # "create" => life[d] = "known"
      BY <2>1, RequestFacts DEF KnownOK
    <3> QED
      BY <3>1, <3>2, CommitFacts
  <2>2. CASE d \notin DOMAIN r.docs
    BY <1>3, <2>2, CommitFacts DEF ContentInv
  <2> QED
    BY <2>1, <2>2
<1>4. ASSUME NEW q \in Procs
      PROVE  /\ StepOK(request'[q]) /\ WroteOK(request'[q])
             /\ DrawnOK(request'[q], canvas') /\ KnownOK(request'[q], life')
             /\ CopyOK(request'[q], docCopy')
  <2>1. CASE q = p
    <3>1. request'[q] = W!Idle
      BY <2>1, CommitFacts
    <3> QED
      BY <3>1, IdleMutation
  <2>2. CASE q # p
    <3> DEFINE s == request[q]
    <3>1. request'[q] = s /\ docCopy' = docCopy
      BY <2>2, CommitFacts
    <3>2. DrawnOK(s, canvas')
      <4>1. \A c \in DOMAIN s.canvases : canvas'[c] = canvas[c]
        BY <2>2, CommitFacts, RequestFacts
      <4>2. DrawnOK(s, canvas)
        BY RequestFacts
      <4> QED
        BY <4>1, <4>2 DEF DrawnOK
    <3>3. KnownOK(s, life')
      <4>1. KnownOK(s, life) /\ s.doc \in Ids \cup {Nil} /\ (s.op = "create" => s.doc \in Ids)
            /\ \A d \in DOMAIN s.docs : d \in Ids
        BY RequestFacts DEF StepOK, Mutation
      <4>2. \A d \in Ids : life[d] = "known" => life'[d] = "known"
        BY CommitFacts
      <4>3. s.op = "create" /\ r.op = "create" => s.doc # r.doc
        BY <2>2 DEF ContentInv, Locks
      <4>4. s.op = "create" => life'[s.doc] = "born"
        BY <4>1, <4>3, CommitFacts DEF KnownOK
      <4> QED
        BY <4>1, <4>2, <4>4 DEF KnownOK
    <3> QED
      BY <3>1, <3>2, <3>3, RequestFacts
  <2> QED
    BY <2>1, <2>2
<1>5. ASSUME ~wasPro' PROVE ~pro' /\ Small(canvas') /\ \A q \in Procs : SmallOK(request'[q])
  <2>1. ~pro' /\ Small(canvas) /\ ~wasPro
    BY <1>5, CommitFacts DEF ContentInv
  <2>2. SmallOK(r)
    BY <2>1, RequestFacts
  <2>3. Small(canvas')
    BY <2>1, <2>2, CommitFacts DEF Small, SmallOK
  <2>4. \A q \in Procs : SmallOK(request'[q])
    BY <2>1, CommitFacts, IdleMutation, RequestFacts
  <2> QED
    BY <2>1, <2>3, <2>4
<1> QED
  BY <1>1, <1>2, <1>3, <1>4, <1>5

\* The module's cardinality is the library's.
LEMMA DrawingsCardinality == \A X : W!Cardinality(X) = Cardinality(X)
BY Zenon DEF W!Cardinality, Cardinality

\* A commit keeps to Free's canvases, but for two requests that both counted.
LEMMA CommitLimits ==
    ASSUME ContentInv, NEW p \in Procs, W!Commit(p), ~wasPro', "count" \notin slips'
    PROVE  /\ W!Cardinality(There(canvas')) <= MaxCanvases
           /\ \A q \in Procs : FewOK(request'[q], canvas')
<1> DEFINE r == request[p]
<1>1. ~wasPro /\ "count" \notin slips
  BY CommitFacts
<1>2. /\ IsFiniteSet(There(canvas)) /\ Cardinality(There(canvas)) \in Nat
      /\ Cardinality(There(canvas)) <= MaxCanvases /\ There(canvas) \subseteq Drawings
  <2>1. There(canvas) \subseteq Drawings
    BY DEF There
  <2>2. IsFiniteSet(There(canvas))
    BY <2>1, FS_Subset, ContentAssumption
  <2>3. Cardinality(There(canvas)) \in Nat
    BY <2>2, FS_CardinalityType
  <2> QED
    BY <1>1, <2>1, <2>2, <2>3, DrawingsCardinality DEF ContentInv
<1>3. \A q \in Procs : FewOK(request[q], canvas)
  BY <1>1, RequestFacts
<1>4. CASE r.op = "draw"
  <2>1. PICK c \in Drawings : DOMAIN r.canvases = {c} /\ r.canvases[c] = [doc |-> r.doc, scene |-> 0]
    BY <1>4, CommitFacts, RequestFacts DEF WroteOK
  <2>2. r.canvases[c] # Nil
    <3>1. r.canvases[c] \in W!Canvas
      BY <2>1, RequestFacts, ContentAssumption DEF W!Canvas, Mutation
    <3> QED
      BY <3>1, ContentAssumption
  <2>3. canvas[c] = Nil
    BY <1>4, <2>1, <2>2, RequestFacts DEF DrawnOK
  <2>4. There(canvas') = There(canvas) \cup {c} /\ c \notin There(canvas)
    BY <2>1, <2>2, <2>3, CommitFacts DEF There
  <2>5. Cardinality(There(canvas')) = Cardinality(There(canvas)) + 1
    BY <1>2, <2>4, FS_AddElement
  <2>6. Cardinality(There(canvas)) < MaxCanvases
    BY <1>3, <1>4, CommitFacts, DrawingsCardinality DEF FewOK
  <2>7. PICK n \in Nat : n = Cardinality(There(canvas))
    BY <1>2
  <2>8. n + 1 <= MaxCanvases
    BY <2>6, <2>7, ContentAssumption
  <2>9. W!Cardinality(There(canvas')) <= MaxCanvases
    BY <2>5, <2>7, <2>8, DrawingsCardinality
  <2>10. ASSUME NEW q \in Procs PROVE FewOK(request'[q], canvas')
    <3>1. CASE q = p
      BY <3>1, CommitFacts, IdleMutation
    <3>2. CASE q # p
      BY <1>4, <3>2, CommitFacts DEF FewOK
    <3> QED
      BY <3>1, <3>2
  <2> QED
    BY <2>9, <2>10
<1>5. CASE r.op # "draw"
  <2>1. There(canvas') \subseteq There(canvas)
    <3>1. \A c \in DOMAIN r.canvases : r.canvases[c] # Nil => canvas[c] # Nil
      BY <1>5, RequestFacts DEF DrawnOK
    <3> QED
      BY <3>1, CommitFacts DEF There
  <2>2. Cardinality(There(canvas')) \in Nat /\ Cardinality(There(canvas')) <= Cardinality(There(canvas))
    BY <1>2, <2>1, FS_Subset, FS_CardinalityType
  <2>3. PICK n \in Nat : n = Cardinality(There(canvas))
    BY <1>2
  <2>4. PICK k \in Nat : k = Cardinality(There(canvas'))
    BY <2>2
  <2>5. k <= n /\ n <= MaxCanvases
    BY <1>2, <2>2, <2>3, <2>4
  <2>6. k <= MaxCanvases
    BY <2>5, ContentAssumption
  <2>7. ASSUME NEW q \in Procs PROVE FewOK(request'[q], canvas')
    <3>1. CASE q = p
      BY <3>1, CommitFacts, IdleMutation
    <3>2. CASE q # p
      <4>1. request'[q] = request[q]
        BY <3>2, CommitFacts
      <4>2. n < MaxCanvases => k < MaxCanvases
        BY <2>5, ContentAssumption
      <4> QED
        BY <1>3, <2>3, <2>4, <4>1, <4>2, DrawingsCardinality DEF FewOK
    <3> QED
      BY <3>1, <3>2
  <2> QED
    BY <2>4, <2>6, <2>7, DrawingsCardinality
<1> QED
  BY <1>4, <1>5

\* Where a task comes from that a document has after a commit.
LEMMA CommitTasks ==
    ASSUME ContentInv, NEW p \in Procs, W!Commit(p), Untaken(slips'), NEW d \in Ids,
           doc'[d] # Nil, doc'[d].task # Nil
    PROVE  \/ doc[d] # Nil /\ doc'[d].task = doc[d].task /\ (Takes(request[p]) => d \notin DOMAIN request[p].docs)
           \/ /\ Takes(request[p]) /\ d = request[p].doc /\ doc'[d].task = request[p].set["task"]
<1> DEFINE r == request[p]
<1>1. Untaken(slips) /\ Fresh(slips)
  BY CommitFacts DEF Untaken, Fresh
<1>2. r.step = "commit" /\ StepOK(r) /\ WroteOK(r) /\ TakeFresh(r, doc) /\ ReadFresh(r, doc, canvas, Believed)
  BY <1>1, CommitFacts, RequestFacts
<1>3. CASE d \notin DOMAIN r.docs
  BY <1>3, CommitFacts
<1>4. CASE d \in DOMAIN r.docs
  <2>1. doc'[d] = r.docs[d]
    BY <1>4, CommitFacts
  <2>2. r.op \in {"create", "update"}
    BY <1>2, <1>4, <2>1 DEF WroteOK, Takes
  <2>3. r.op # "create"
    BY <1>2, <1>4, <2>1 DEF WroteOK, TakeFresh
  <2>4. d = r.doc
    BY <1>2, <1>4, <2>1, <2>2, <2>3 DEF WroteOK
  <2>5. r.obj # Nil
    BY <1>2, <2>2, <2>3, ContentAssumption DEF StepOK
  <2> QED
    BY <1>2, <2>1, <2>2, <2>3, <2>4, <2>5 DEF ReadFresh, TakeFresh, Takes
<1> QED
  BY <1>3, <1>4

\* A task that is taken was released by every other document.
LEMMA CommitTakes ==
    ASSUME ContentInv, NEW p \in Procs, W!Commit(p), Untaken(slips')
    PROVE  DistinctTasks(doc') /\ \A q \in Procs : TakeFresh(request'[q], doc')
<1> DEFINE r == request[p]
<1>1. Untaken(slips) /\ r.step = "commit"
  BY CommitFacts DEF Untaken
<1>2. DistinctTasks(doc) /\ TakeFresh(r, doc) /\ WroteOK(r) /\ StepOK(r)
  BY <1>1, RequestFacts DEF ContentInv
<1>3. ASSUME NEW d \in Ids, NEW e \in Ids, d # e, doc'[d] # Nil, doc'[e] # Nil,
             doc'[d].task = doc'[e].task, doc'[d].task # Nil
      PROVE  FALSE
  <2>1. \/ doc[d] # Nil /\ doc'[d].task = doc[d].task /\ (Takes(r) => d \notin DOMAIN r.docs)
        \/ /\ Takes(r) /\ d = r.doc /\ doc'[d].task = r.set["task"]
    BY <1>3, CommitTasks
  <2>2. \/ doc[e] # Nil /\ doc'[e].task = doc[e].task /\ (Takes(r) => e \notin DOMAIN r.docs)
        \/ /\ Takes(r) /\ e = r.doc /\ doc'[e].task = r.set["task"]
    BY <1>3, CommitTasks
  <2>3. ASSUME NEW x \in Ids \ {r.doc}, Takes(r), doc[x] # Nil, doc[x].task = r.set["task"],
               r.set["task"] # Nil, x \notin DOMAIN r.docs
        PROVE  FALSE
    BY <1>1, <1>2, <2>3 DEF TakeFresh
  <2> QED
    BY <1>2, <1>3, <2>1, <2>2, <2>3 DEF DistinctTasks
<1>4. ASSUME NEW q \in Procs PROVE TakeFresh(request'[q], doc')
  <2>1. CASE q = p
    BY <2>1, CommitFacts, IdleMutation
  <2>2. CASE q # p
    <3> DEFINE s == request[q]
    <3>1. request'[q] = s /\ TakeFresh(s, doc) /\ StepOK(s)
      BY <1>1, <2>2, CommitFacts, RequestFacts
    <3>2. ASSUME Takes(s), s.step \in {"merge", "flush", "commit"}, s.set["task"] # Nil,
                 NEW e \in Ids \ {s.doc}, doc'[e] # Nil, doc'[e].task = s.set["task"]
          PROVE  e \in DOMAIN s.docs
      <4>1. CASE doc[e] # Nil /\ doc'[e].task = doc[e].task
        BY <3>1, <3>2, <4>1 DEF TakeFresh
      <4>2. CASE Takes(r) /\ doc'[e].task = r.set["task"]
        <5>1. r.set \in Fields /\ s.set \in Fields /\ r.op = "update" /\ s.op = "update"
              /\ "task" \in DOMAIN r.set /\ "task" \in DOMAIN s.set
          BY <1>2, <3>1, <3>2, <4>2 DEF StepOK, Takes
        <5>2. r.set \in [{"task"} -> DocTasks] /\ s.set \in [{"task"} -> DocTasks]
          BY <5>1 DEF Fields
        <5>3. r.set = s.set
          <6>1. ASSUME NEW a \in [{"task"} -> DocTasks], NEW b \in [{"task"} -> DocTasks],
                       a["task"] = b["task"]
                PROVE  a = b
            BY <6>1
          <6>2. r.set["task"] = s.set["task"]
            BY <3>2, <4>2
          <6> QED
            BY <5>2, <6>1, <6>2
        <5> QED
          BY <2>2, <3>2, <5>1, <5>3, CommitFacts
      <4> QED
        BY <3>2, <4>1, <4>2, CommitTasks
    <3>3. s.op = "update" /\ s.step = "commit" => doc'[s.doc] = doc[s.doc]
      <4> SUFFICES ASSUME s.op = "update", s.step = "commit" PROVE doc'[s.doc] = doc[s.doc]
        OBVIOUS
      <4>1. s.doc \in Ids /\ s.doc \in DOMAIN s.docs
        BY <3>1, RequestFacts DEF StepOK, WroteOK
      <4> QED
        BY <2>2, <4>1, CommitFacts
    <3> QED
      BY <3>1, <3>2, <3>3 DEF TakeFresh
  <2> QED
    BY <2>1, <2>2
<1> QED
  BY <1>3, <1>4 DEF DistinctTasks

\* What waits to be committed by another still does.
LEMMA CommitPending ==
    ASSUME ContentInv, NEW p \in Procs, W!Commit(p)
    PROVE  /\ \A d \in Ids \ DOMAIN request[p].docs, t \in DocTasks \cup {Nil} :
                <<d, t>> \in Pending => <<d, t>> \in Pending'
           /\ \A d \in DOMAIN request[p].docs : d \notin Written'
           /\ Written' \subseteq Written
<1> DEFINE r == request[p]
<1>1. ASSUME NEW d \in Ids \ DOMAIN r.docs, NEW t \in DocTasks \cup {Nil}, <<d, t>> \in Pending
      PROVE  <<d, t>> \in Pending'
  <2>1. PICK q \in Procs : /\ request[q].op = "update" /\ request[q].step = "commit"
                           /\ request[q].doc = d /\ request[q].docs[d].task = t
    BY <1>1 DEF Pending
  <2>2. d \in DOMAIN request[q].docs
    BY <2>1, RequestFacts DEF WroteOK
  <2>3. q # p
    BY <2>2
  <2>4. request'[q] = request[q]
    BY <2>3, CommitFacts
  <2> QED
    BY <2>1, <2>4 DEF Pending
<1>2. ASSUME NEW d \in DOMAIN r.docs PROVE d \notin Written'
  <2>1. \A q \in Procs : d \notin DOMAIN request'[q].docs
    BY CommitFacts, IdleMutation
  <2> QED
    BY <2>1 DEF Written
<1>3. Written' \subseteq Written
  <2>1. \A q \in Procs : DOMAIN request'[q].docs \subseteq DOMAIN request[q].docs
    BY CommitFacts, IdleMutation
  <2> QED
    BY <2>1 DEF Written
<1> QED
  BY <1>1, <1>2, <1>3

\* No canvas outlives its document.
LEMMA CommitDrawn ==
    ASSUME ContentInv, NEW p \in Procs, W!Commit(p), Fresh(slips')
    PROVE  DrawnFresh(canvas', doc')
<1> DEFINE r == request[p]
<1>1. Fresh(slips) /\ r.step = "commit"
  BY CommitFacts DEF Fresh
<1>2. DrawnFresh(canvas, doc) /\ ReadFresh(r, doc, canvas, Believed) /\ StepOK(r) /\ WroteOK(r)
      /\ DrawnOK(r, canvas)
  BY <1>1, RequestFacts DEF ContentInv
<1>3. ASSUME NEW c \in Drawings, canvas'[c] # Nil, canvas'[c].doc # Nil
      PROVE  doc'[canvas'[c].doc] # Nil
  <2> DEFINE d == canvas'[c].doc
  <2>1. d \in Ids
    <3>1. canvas'[c] \in W!Canvas
      BY <1>3, CommitFacts DEF Drawn
    <3> QED
      BY <1>3, <3>1 DEF W!Canvas
  <2>2. CASE c \in DOMAIN r.canvases
    <3>1. canvas'[c] = r.canvases[c]
      BY <2>2, CommitFacts
    <3>2. CASE r.op = "draw"
      <4>1. d = r.doc
        BY <1>1, <1>2, <2>2, <3>1, <3>2 DEF WroteOK
      <4>2. r.obj # Nil
        BY <1>1, <1>2, <1>3, <3>2, <4>1 DEF StepOK
      <4>3. doc[d] # Nil
        BY <1>2, <3>2, <4>1, <4>2 DEF ReadFresh
      <4>4. DOMAIN r.docs = {}
        BY <1>2, <3>2 DEF WroteOK, Takes
      <4> QED
        BY <2>1, <4>3, <4>4, CommitFacts
    <3>3. CASE r.op # "draw"
      <4>1. r.op = "paint" /\ canvas[c] # Nil /\ d = canvas[c].doc
        BY <1>2, <1>3, <2>2, <3>1, <3>3 DEF DrawnOK
      <4>2. doc[d] # Nil
        BY <1>2, <1>3, <4>1 DEF DrawnFresh
      <4>3. DOMAIN r.docs = {}
        BY <1>2, <4>1 DEF WroteOK, Takes
      <4> QED
        BY <2>1, <4>2, <4>3, CommitFacts
    <3> QED
      BY <3>2, <3>3
  <2>3. CASE c \notin DOMAIN r.canvases
    <3>1. canvas[c] # Nil /\ d = canvas[c].doc /\ doc[d] # Nil
      BY <1>2, <1>3, <2>3, CommitFacts DEF DrawnFresh
    <3>2. d \in DOMAIN r.docs => r.docs[d] # Nil
      BY <1>2, <2>3, <3>1 DEF ReadFresh
    <3> QED
      BY <2>1, <3>1, <3>2, CommitFacts
  <2> QED
    BY <2>2, <2>3
<1> QED
  BY <1>3 DEF DrawnFresh

\* What the others have read is still so.
LEMMA CommitReads ==
    ASSUME ContentInv, NEW p \in Procs, W!Commit(p), Fresh(slips'), NEW q \in Procs
    PROVE  ReadFresh(request'[q], doc', canvas', Believed')
<1> DEFINE r == request[p]
           s == request[q]
<1>1. CASE q = p
  BY <1>1, CommitFacts, IdleMutation
<1>2. CASE q # p
  <2>1. Fresh(slips) /\ r.step = "commit" /\ request'[q] = s
    BY <1>2, CommitFacts DEF Fresh
  <2>2. ReadFresh(s, doc, canvas, Believed) /\ StepOK(s) /\ s.doc \in Ids \cup {Nil} /\ s.obj \in Rows
    BY <2>1, RequestFacts DEF Mutation
  <2>3. s.obj # Nil => s.doc \in Ids /\ s.doc \notin DOMAIN r.docs /\ doc'[s.doc] = doc[s.doc]
    <3>1. s.obj # Nil => s.doc \in Ids
      BY <2>2 DEF StepOK
    <3> QED
      BY <1>2, <3>1, CommitFacts
  <2>4. s.obj # Nil /\ s.op # "create" => doc'[s.doc] # Nil
    BY <2>2, <2>3 DEF ReadFresh
  <2>5. ASSUME NEW d \in DOMAIN s.docs, s.docs[d] = Nil, NEW c \in Drawings, canvas'[c] # Nil,
               canvas'[c].doc = d
        PROVE  c \in DOMAIN s.canvases
    <3>1. d \in Ids /\ d # Nil /\ WroteOK(r) /\ DrawnOK(r, canvas)
      BY NamesAssumption, RequestFacts
    <3>2. CASE c \in DOMAIN r.canvases
      <4>1. canvas'[c] = r.canvases[c]
        BY <3>2, CommitFacts
      <4>2. r.op # "draw"
        <5> SUFFICES ASSUME r.op = "draw" PROVE FALSE
          OBVIOUS
        <5>1. r.doc = d
          BY <2>1, <2>5, <3>1, <3>2, <4>1 DEF WroteOK
        <5> QED
          BY <1>2, <5>1, CommitFacts
      <4>3. canvas[c] # Nil /\ canvas[c].doc = d
        BY <2>5, <3>1, <3>2, <4>1, <4>2 DEF DrawnOK
      <4> QED
        BY <2>2, <2>5, <4>3 DEF ReadFresh
    <3>3. CASE c \notin DOMAIN r.canvases
      BY <2>2, <2>5, <3>3, CommitFacts DEF ReadFresh
    <3> QED
      BY <3>2, <3>3
  <2>6. s.step = "fill" => s.obj.task = doc'[s.doc].task
    BY <2>2, <2>3, ContentAssumption DEF ReadFresh, StepOK
  <2>7. CASE s.op # "update"
    BY <2>1, <2>4, <2>5, <2>6, <2>7 DEF ReadFresh
  <2>8. CASE s.op = "update" /\ s.step = "find"
    BY <2>1, <2>4, <2>5, <2>6, <2>8 DEF ReadFresh
  <2>9. CASE s.op = "update" /\ s.step # "find"
    <3>1. s.obj \in W!Document /\ s.obj # Nil
      BY <2>2, <2>9, ContentAssumption DEF StepOK
    <3>2. s.obj.task \in DocTasks \cup {Nil}
      BY <3>1 DEF W!Document
    <3>3. TaskOf(s.doc, s.obj.task, doc, Believed) => TaskOf(s.doc, s.obj.task, doc', Believed')
      <4>1. s.doc \in Ids \ DOMAIN r.docs
        BY <2>3, <3>1
      <4>2. <<s.doc, s.obj.task>> \in Believed => <<s.doc, s.obj.task>> \in Believed'
        <5>1. "failed" \in slips => "failed" \in slips'
          BY CommitFacts
        <5>2. <<s.doc, s.obj.task>> \in Pending => <<s.doc, s.obj.task>> \in Pending'
          BY <3>2, <4>1, CommitPending
        <5> QED
          BY <3>2, <4>1, <5>1, <5>2 DEF Believed
      <4> QED
        BY <2>3, <3>1, <4>2 DEF TaskOf
    <3>4. doc'[s.doc] = doc[s.doc]
      BY <2>3, <3>1
    <3>5. s.step \in {"fill", "release", "merge", "flush"} =>
             /\ ~s.detached \/ s.step = "flush" => s.base # Nil /\ s.base.task = doc'[s.doc].task
             /\ IF Takes(s) /\ s.step = "flush" THEN s.obj.task = s.set["task"]
                ELSE TaskOf(s.doc, s.obj.task, doc', Believed')
      BY <2>2, <2>9, <3>3, <3>4 DEF ReadFresh
    <3> QED
      BY <2>1, <2>4, <2>5, <2>6, <3>5 DEF ReadFresh
  <2> QED
    BY <2>7, <2>8, <2>9
<1> QED
  BY <1>1, <1>2

\* A copy is what is committed, or what is about to be.
LEMMA CommitCopies ==
    ASSUME ContentInv, NEW p \in Procs, W!Commit(p), Fresh(slips'), NEW d \in Ids, life'[d] = "known"
    PROVE  CopyFresh(docCopy'[d], d, doc', Pending', Written', slips')
<1> DEFINE r == request[p]
           c == docCopy[d]
<1>1. Fresh(slips) /\ r.step = "commit" /\ docCopy'[d] = c
  BY CommitFacts DEF Fresh
<1>2. StepOK(r) /\ WroteOK(r) /\ CopyOK(r, docCopy) /\ KnownOK(r, life) /\ c \in Rows
  BY RequestFacts
<1>3. c # Nil => c.task \in DocTasks \cup {Nil}
  BY <1>2 DEF Rows, W!Document
<1>4. SUFFICES ASSUME c # Nil PROVE CopyFresh(c, d, doc', Pending', Written', slips')
  BY <1>1 DEF CopyFresh
<1>5. life[d] = "known" => CopyFresh(c, d, doc, Pending, Written, slips)
  BY <1>1 DEF ContentInv
<1>6. CASE d \notin DOMAIN r.docs
  <2>1. life[d] = "known"
    <3>1. r.op = "create" => r.doc \in DOMAIN r.docs
      BY <1>1, <1>2 DEF WroteOK
    <3> QED
      BY <1>6, <3>1, CommitFacts
  <2>2. doc'[d] = doc[d]
    BY <1>6, CommitFacts
  <2>3. <<d, c.task>> \in Pending => <<d, c.task>> \in Pending'
    BY <1>3, <1>4, <1>6, CommitPending
  <2>4. (d \notin Written => d \notin Written') /\ ("failed" \in slips => "failed" \in slips')
    BY CommitPending, CommitFacts
  <2> QED
    BY <1>4, <1>5, <2>1, <2>2, <2>3, <2>4 DEF CopyFresh
<1>7. CASE d \in DOMAIN r.docs /\ r.op = "create"
  <2>1. d = r.doc /\ r.docs[d] = r.obj /\ r.obj # Nil
    BY <1>1, <1>2, <1>7, ContentAssumption DEF WroteOK, StepOK
  <2>2. c = r.obj
    BY <1>1, <1>2, <1>4, <1>7, <2>1 DEF CopyOK
  <2>3. doc'[d] = r.obj /\ d \notin Written'
    BY <1>7, <2>1, CommitFacts, CommitPending
  <2> QED
    BY <2>1, <2>2, <2>3 DEF CopyFresh
<1>8. CASE d \in DOMAIN r.docs /\ r.op # "create"
  <2>1. CopyFresh(c, d, doc, Pending, Written, slips) /\ d \in Written
    BY <1>2, <1>5, <1>8 DEF KnownOK, Written
  <2>2. <<d, c.task>> \in Pending
    BY <1>4, <2>1 DEF CopyFresh
  <2>3. PICK q \in Procs : /\ request[q].op = "update" /\ request[q].step = "commit"
                           /\ request[q].doc = d /\ request[q].docs[d].task = c.task
    BY <2>2 DEF Pending
  <2>4. d \in DOMAIN request[q].docs /\ request[q].docs[d] # Nil
    BY <2>3, RequestFacts DEF WroteOK
  <2>5. q = p
    BY <1>8, <2>4, CommitFacts
  <2>6. doc'[d] = r.docs[d] /\ d \notin Written'
    BY <1>8, CommitFacts, CommitPending
  <2> QED
    BY <2>3, <2>4, <2>5, <2>6 DEF CopyFresh
<1> QED
  BY <1>6, <1>7, <1>8

\* A commit keeps the invariant.
LEMMA CommitMutation ==
    ASSUME ContentInv, NEW p \in Procs, W!Commit(p)
    PROVE  ContentInv'
<1>1. Fresh(slips') =>
        /\ DrawnFresh(canvas', doc')
        /\ \A q \in Procs : ReadFresh(request'[q], doc', canvas', Believed')
        /\ \A d \in Ids : life'[d] = "known" => CopyFresh(docCopy'[d], d, doc', Pending', Written', slips')
  BY CommitDrawn, CommitReads, CommitCopies
<1>2. ~wasPro' /\ "count" \notin slips' =>
        W!Cardinality(There(canvas')) <= MaxCanvases /\ \A q \in Procs : FewOK(request'[q], canvas')
  BY CommitLimits
<1>3. Untaken(slips') => DistinctTasks(doc') /\ \A q \in Procs : TakeFresh(request'[q], doc')
  BY CommitTakes
<1> QED
  BY <1>1, <1>2, <1>3, CommitFrame DEF ContentInv

-----------------------------------------------------------------------------
(* The automation: a TODO becomes one task *)

Lines == [Todos -> Nat]
Automated == [doc : Ids, rest : Lines, new : Lines]
AutoTyped ==
    /\ auto \in [Procs -> Automated \cup {Nil}]
    /\ made \in [Ids \X Todos -> Nat] /\ most \in [Ids \X Todos -> Nat]
    /\ logged \subseteq Ids \X Todos
\* A line is looked up as often as it was in the document, and is made into tasks
\* if no automation has been before.
SavedOK(a, M) == \A t \in Todos : a.rest[t] + a.new[t] <= M[<<a.doc, t>>]
UnloggedOK(a, L) == \A t \in Todos : a.new[t] > 0 => <<a.doc, t>> \notin L
AutoInv ==
    /\ AutoTyped
    /\ \A p \in Procs : auto[p] # Nil => SavedOK(auto[p], most)
    /\ "scan" \notin slips =>
        /\ \A x \in Ids \X Todos : made[x] <= most[x] /\ (x \notin logged => made[x] = 0)
        /\ \A p \in Procs : auto[p] # Nil => UnloggedOK(auto[p], logged)

\* The automation rests.
LEMMA AutoRests ==
    ASSUME AutoInv, UNCHANGED <<logged, made, auto, most>>, slips \subseteq slips'
    PROVE  AutoInv'
<1>1. "scan" \notin slips' => "scan" \notin slips
  OBVIOUS
<1>2. AutoTyped'
  BY DEF AutoInv, AutoTyped
<1> QED
  BY <1>1, <1>2 DEF AutoInv

\* How often a line is among the blocks is a number.
LEMMA DetectedLines ==
    ASSUME NEW row \in W!Document
    PROVE  W!Detected(row.content) \in Lines
<1>1. IsFiniteSet(DOMAIN row.content)
  BY ContentAssumption DEF W!Document
<1>2. ASSUME NEW t \in Todos
      PROVE  W!Cardinality({i \in DOMAIN row.content : row.content[i] = t}) \in Nat
  <2>1. IsFiniteSet({i \in DOMAIN row.content : row.content[i] = t})
    BY <1>1, FS_Subset
  <2> QED
    BY <2>1, FS_CardinalityType, DrawingsCardinality
<1> QED
  BY <1>2 DEF W!Detected, Lines

\* An update of the content begins one.
LEMMA AutomationBegins ==
    ASSUME AutoInv, NEW p \in Procs, NEW d \in Ids, NEW lines \in Lines,
           W!Automation(p, d, lines), UNCHANGED <<logged, made, slips>>
    PROVE  AutoInv'
<1> DEFINE a == [doc |-> d, rest |-> lines, new |-> [t \in Todos |-> 0]]
<1>1. auto' = [auto EXCEPT ![p] = a]
      /\ most' = [x \in Ids \X Todos |->
                    IF x[1] = d /\ lines[x[2]] > most[x] THEN lines[x[2]] ELSE most[x]]
  BY DEF W!Automation
<1>2. a \in Automated /\ a.doc = d /\ a.rest = lines /\ \A t \in Todos : a.new[t] = 0
  BY DEF Automated, Lines
<1> HIDE DEF a
<1>3. \A q \in Procs : auto'[q] = IF q = p THEN a ELSE auto[q]
  BY <1>1 DEF AutoInv, AutoTyped
<1>4. ASSUME NEW x \in Ids \X Todos
      PROVE  most'[x] \in Nat /\ most[x] <= most'[x] /\ (x[1] = d => lines[x[2]] <= most'[x])
  <2>1. PICK n \in Nat : n = most[x]
    BY DEF AutoInv, AutoTyped
  <2>2. PICK k \in Nat : k = lines[x[2]]
    BY DEF Lines
  <2>3. most'[x] = IF x[1] = d /\ k > n THEN k ELSE n
    BY <1>1, <2>1, <2>2
  <2> QED
    BY <2>1, <2>2, <2>3
<1>5. AutoTyped'
  <2>1. most' = [x \in Ids \X Todos |-> most'[x]]
    BY <1>1
  <2> QED
    BY <1>1, <1>2, <1>4, <2>1 DEF AutoInv, AutoTyped
<1>6. ASSUME NEW q \in Procs, auto'[q] # Nil PROVE SavedOK(auto'[q], most')
  <2>1. CASE q = p
    <3>1. ASSUME NEW t \in Todos PROVE a.rest[t] + a.new[t] <= most'[<<d, t>>]
      <4>1. PICK k \in Nat : k = lines[t]
        BY DEF Lines
      <4>2. PICK n \in Nat : n = most'[<<d, t>>] /\ k <= n
        BY <1>4, <4>1
      <4> QED
        BY <1>2, <4>1, <4>2
    <3> QED
      BY <1>2, <1>3, <2>1, <3>1 DEF SavedOK
  <2>2. CASE q # p
    <3>1. auto'[q] = auto[q] /\ auto[q] \in Automated /\ SavedOK(auto[q], most)
      BY <1>3, <1>6, <2>2 DEF AutoInv, AutoTyped
    <3>2. ASSUME NEW t \in Todos PROVE auto[q].rest[t] + auto[q].new[t] <= most'[<<auto[q].doc, t>>]
      <4>1. auto[q].doc \in Ids /\ auto[q].rest[t] \in Nat /\ auto[q].new[t] \in Nat
        BY <3>1 DEF Automated, Lines
      <4>2. PICK k \in Nat : k = auto[q].rest[t] + auto[q].new[t]
        BY <4>1
      <4>3. PICK n \in Nat : n = most[<<auto[q].doc, t>>]
        BY <4>1 DEF AutoInv, AutoTyped
      <4>4. PICK m \in Nat : m = most'[<<auto[q].doc, t>>]
        BY <1>4, <4>1
      <4>5. k <= n /\ n <= m
        BY <1>4, <3>1, <4>1, <4>2, <4>3, <4>4 DEF SavedOK
      <4> QED
        BY <4>2, <4>4, <4>5
    <3> QED
      BY <3>1, <3>2 DEF SavedOK
  <2> QED
    BY <2>1, <2>2
<1>7. ASSUME "scan" \notin slips'
      PROVE  /\ \A x \in Ids \X Todos : made'[x] <= most'[x] /\ (x \notin logged' => made'[x] = 0)
             /\ \A q \in Procs : auto'[q] # Nil => UnloggedOK(auto'[q], logged')
  <2>1. ASSUME NEW x \in Ids \X Todos PROVE made[x] <= most'[x] /\ (x \notin logged => made[x] = 0)
    <3>1. made[x] <= most[x] /\ (x \notin logged => made[x] = 0)
      BY <1>7 DEF AutoInv
    <3>2. PICK k \in Nat : k = made[x]
      BY DEF AutoInv, AutoTyped
    <3>3. PICK n \in Nat : n = most[x]
      BY DEF AutoInv, AutoTyped
    <3>4. PICK m \in Nat : m = most'[x] /\ n <= m
      BY <1>4, <3>3
    <3> QED
      BY <3>1, <3>2, <3>3, <3>4
  <2>2. ASSUME NEW q \in Procs, auto'[q] # Nil PROVE UnloggedOK(auto'[q], logged)
    <3>1. CASE q = p
      BY <1>2, <1>3, <3>1 DEF UnloggedOK
    <3>2. CASE q # p
      BY <1>3, <1>7, <2>2, <3>2 DEF AutoInv
    <3> QED
      BY <3>1, <3>2
  <2> QED
    BY <2>1, <2>2
<1> QED
  BY <1>5, <1>6, <1>7 DEF AutoInv

LEMMA FlushBegins ==
    ASSUME ContentInv, AutoInv, NEW p \in Procs, W!Flush(p)
    PROVE  AutoInv'
<1> DEFINE f == request[p]
           row == RowOf(f, doc[f.doc])
<1>1. /\ f.step = "flush" /\ f.op = "update" /\ UNCHANGED <<logged, made, slips>>
      /\ \/ UNCHANGED <<auto, most>>
         \/ W!Automation(p, f.doc, W!Detected(row.content))
  BY DEF W!Flush, W!At, RowOf
<1>2. f \in Mutation /\ f.doc \in Ids /\ f.obj \in W!Document /\ doc[f.doc] \in Rows
  BY <1>1, RequestFacts DEF StepOK
<1>3. W!Detected(row.content) \in Lines
  BY <1>2, RowIsDocument, DetectedLines
<1> QED
  BY <1>1, <1>2, <1>3, AutoRests, AutomationBegins

\* A line is looked up.
LEMMA ScanLines ==
    ASSUME AutoInv, NEW p \in Procs, W!Scan(p)
    PROVE  AutoInv'
<1> DEFINE a == auto[p]
<1>1. a # Nil /\ a \in Automated /\ a.doc \in Ids /\ a.rest \in Lines /\ a.new \in Lines
  BY DEF W!Scan, AutoInv, AutoTyped, Automated
<1>2. PICK t \in Todos :
        /\ a.rest[t] > 0
        /\ auto' = [auto EXCEPT ![p].rest[t] = @ - 1,
                                ![p].new[t] = IF W!Processed(a.doc, t) THEN @ ELSE @ + 1]
  BY DEF W!Scan
<1> DEFINE n == IF W!Processed(a.doc, t) THEN a.new[t] ELSE a.new[t] + 1
           rest == [a.rest EXCEPT ![t] = @ - 1]
           new == [a.new EXCEPT ![t] = n]
           b == [a EXCEPT !.rest = rest, !.new = new]
<1>3. UNCHANGED <<logged, made, most, slips>>
  BY DEF W!Scan
<1>4. \A q \in Procs : auto'[q] = IF q = p THEN b ELSE auto[q]
  BY <1>1, <1>2 DEF AutoInv, AutoTyped, Automated
<1>5. rest \in Lines /\ new \in Lines /\ rest[t] + new[t] <= a.rest[t] + a.new[t]
  <2>1. PICK k \in Nat : k = a.rest[t] /\ k > 0
    BY <1>1, <1>2 DEF Lines
  <2>2. PICK m \in Nat : m = a.new[t]
    BY <1>1 DEF Lines
  <2>3. n \in Nat /\ n <= m + 1
    BY <2>2
  <2>4. rest[t] = k - 1 /\ new[t] = n
    BY <1>1, <2>1 DEF Lines
  <2>5. k - 1 \in Nat /\ k - 1 + n <= k + m
    BY <2>1, <2>2, <2>3
  <2> QED
    BY <1>1, <2>1, <2>2, <2>3, <2>4, <2>5 DEF Lines
<1>6. /\ \A u \in Todos \ {t} : rest[u] = a.rest[u] /\ new[u] = a.new[u]
      /\ new[t] = n
  BY <1>1 DEF Lines
<1>7. b \in Automated /\ b.doc = a.doc /\ b.rest = rest /\ b.new = new
  BY <1>1, <1>5 DEF Automated
<1>8. AutoTyped'
  <2>1. auto' = [q \in Procs |-> auto'[q]]
    BY <1>2 DEF AutoInv, AutoTyped
  <2>2. \A q \in Procs : auto'[q] \in Automated \cup {Nil}
    BY <1>4, <1>7 DEF AutoInv, AutoTyped
  <2> QED
    BY <1>3, <2>1, <2>2 DEF AutoInv, AutoTyped
<1> HIDE DEF b, rest, new
<1>9. SavedOK(a, most) /\ SavedOK(b, most)
  <2>1. SavedOK(a, most)
    BY <1>1 DEF AutoInv
  <2>2. ASSUME NEW u \in Todos PROVE rest[u] + new[u] <= most[<<a.doc, u>>]
    <3>1. PICK k \in Nat : k = most[<<a.doc, u>>]
      BY <1>1 DEF AutoInv, AutoTyped
    <3>2. PICK m \in Nat : m = a.rest[u] + a.new[u]
      BY <1>1 DEF Lines
    <3>3. PICK j \in Nat : j = rest[u] + new[u]
      BY <1>5 DEF Lines
    <3>4. j <= m
      BY <1>5, <1>6, <3>2, <3>3
    <3>5. m <= k
      BY <2>1, <3>1, <3>2 DEF SavedOK
    <3> QED
      BY <3>1, <3>3, <3>4, <3>5
  <2> QED
    BY <1>7, <2>1, <2>2 DEF SavedOK
<1>10. "scan" \notin slips => UnloggedOK(b, logged)
  <2> SUFFICES ASSUME "scan" \notin slips PROVE UnloggedOK(b, logged)
    OBVIOUS
  <2>1. UnloggedOK(a, logged)
    BY <1>1 DEF AutoInv
  <2>2. \A u \in Todos \ {t} : new[u] > 0 => <<a.doc, u>> \notin logged
    BY <1>6, <2>1 DEF UnloggedOK
  <2>3. new[t] > 0 => <<a.doc, t>> \notin logged
    BY <1>6, <2>1 DEF UnloggedOK, W!Processed
  <2> QED
    BY <1>7, <2>2, <2>3 DEF UnloggedOK
<1> QED
  BY <1>3, <1>4, <1>8, <1>9, <1>10 DEF AutoInv

\* The tasks and their log are committed.
LEMMA AutomateLines ==
    ASSUME AutoInv, NEW p \in Procs, W!Automate(p)
    PROVE  AutoInv'
<1> DEFINE a == auto[p]
           N == W!Found(a)
<1>1. a # Nil /\ a \in Automated /\ a.doc \in Ids /\ a.rest \in Lines /\ a.new \in Lines
  BY DEF W!Automate, AutoInv, AutoTyped, Automated
<1>2. auto' = [auto EXCEPT ![p] = Nil] /\ most' = most /\ slips \subseteq slips'
      /\ \A t \in Todos : a.rest[t] = 0
  BY DEF W!Automate
<1>3. \A q \in Procs : auto'[q] = IF q = p THEN Nil ELSE auto[q]
  BY <1>2 DEF AutoInv, AutoTyped
<1>4. auto' \in [Procs -> Automated \cup {Nil}]
  BY <1>2 DEF AutoInv, AutoTyped
<1>5. CASE UNCHANGED <<made, logged, slips>>
  <2>1. AutoTyped'
    BY <1>2, <1>4, <1>5 DEF AutoInv, AutoTyped
  <2> QED
    BY <1>2, <1>3, <1>5, <2>1 DEF AutoInv
<1>6. CASE /\ made' = [x \in Ids \X Todos |->
                         made[x] + IF x[1] = a.doc THEN a.new[x[2]] ELSE 0]
           /\ logged' = logged \cup {a.doc} \X N
           /\ slips' = IF N # {} /\ \E q \in W!Others(p) : auto[q] # Nil /\ auto[q].doc = a.doc
                       THEN slips \cup {"scan"} ELSE slips
  <2>1. N = {t \in Todos : a.new[t] > 0}
    BY DEF W!Found
  <2> HIDE DEF N
  <2>2. ASSUME NEW x \in Ids \X Todos
        PROVE  /\ made'[x] \in Nat
               /\ x \notin logged' => x \notin logged /\ made'[x] = made[x]
               /\ x[1] # a.doc => made'[x] = made[x]
               /\ x[1] = a.doc => made'[x] = made[x] + a.new[x[2]]
    <3>1. PICK n \in Nat : n = made[x]
      BY DEF AutoInv, AutoTyped
    <3>2. PICK k \in Nat : k = a.new[x[2]]
      BY <1>1 DEF Lines
    <3>3. made'[x] = n + IF x[1] = a.doc THEN k ELSE 0
      BY <1>6, <3>1, <3>2
    <3>4. x \notin logged' => x \notin logged /\ (x[1] = a.doc => k = 0)
      <4>1. SUFFICES ASSUME x \notin logged', x[1] = a.doc PROVE k = 0
        BY <1>6
      <4>2. x[2] \notin N
        BY <1>6, <4>1
      <4> QED
        BY <2>1, <3>2, <4>2
    <3> QED
      BY <3>1, <3>2, <3>3, <3>4
  <2>3. AutoTyped'
    <3>1. made' = [x \in Ids \X Todos |-> made'[x]]
      BY <1>6
    <3>2. logged' \subseteq Ids \X Todos
      BY <1>1, <1>6, <2>1 DEF AutoInv, AutoTyped
    <3> QED
      BY <1>2, <1>4, <2>2, <3>1, <3>2 DEF AutoInv, AutoTyped
  <2>4. \A q \in Procs : auto'[q] # Nil => SavedOK(auto'[q], most')
    BY <1>2, <1>3 DEF AutoInv
  <2>5. ASSUME "scan" \notin slips', NEW x \in Ids \X Todos
        PROVE  made'[x] <= most'[x] /\ (x \notin logged' => made'[x] = 0)
    <3>1. made[x] <= most[x] /\ (x \notin logged => made[x] = 0) /\ UnloggedOK(a, logged) /\ SavedOK(a, most)
      BY <1>1, <1>2, <2>5 DEF AutoInv
    <3>2. CASE x[1] # a.doc
      BY <1>2, <2>2, <3>1, <3>2
    <3>3. CASE x[1] = a.doc
      <4>1. PICK n \in Nat : n = made[x]
        BY DEF AutoInv, AutoTyped
      <4>2. PICK k \in Nat : k = a.new[x[2]]
        BY <1>1 DEF Lines
      <4>3. PICK m \in Nat : m = most[x]
        BY DEF AutoInv, AutoTyped
      <4>4. made'[x] = n + k /\ n <= m
        BY <2>2, <3>1, <3>3, <4>1, <4>2, <4>3
      <4>5. k <= m
        <5>1. x = <<a.doc, x[2]>> /\ a.rest[x[2]] = 0
          BY <1>2, <3>3
        <5>2. a.rest[x[2]] + a.new[x[2]] <= most[<<a.doc, x[2]>>]
          BY <3>1 DEF SavedOK
        <5>3. 0 + k <= m
          BY <4>2, <4>3, <5>1, <5>2
        <5> QED
          BY <4>2, <4>3, <5>3
      <4>6. k > 0 => n = 0
        <5>1. x = <<a.doc, x[2]>>
          BY <3>3
        <5>2. k > 0 => x \notin logged
          BY <3>1, <4>2, <5>1 DEF UnloggedOK
        <5> QED
          BY <3>1, <4>1, <5>2
      <4>7. n + k <= m
        BY <4>1, <4>2, <4>3, <4>4, <4>5, <4>6
      <4> QED
        BY <1>2, <2>2, <3>1, <4>3, <4>4, <4>7
    <3> QED
      BY <3>2, <3>3
  <2>6. ASSUME "scan" \notin slips', NEW q \in Procs, auto'[q] # Nil
        PROVE  UnloggedOK(auto'[q], logged')
    <3>1. q # p /\ auto'[q] = auto[q] /\ auto[q] # Nil
      BY <1>3, <2>6
    <3>2. UnloggedOK(auto[q], logged)
      BY <1>2, <2>6, <3>1 DEF AutoInv
    <3>3. N = {} \/ auto[q].doc # a.doc
      BY <1>6, <2>6, <3>1 DEF W!Others
    <3> QED
      BY <1>6, <3>1, <3>2, <3>3 DEF UnloggedOK
  <2> QED
    BY <2>3, <2>4, <2>5, <2>6 DEF AutoInv
<1> QED
  BY <1>5, <1>6 DEF W!Automate

-----------------------------------------------------------------------------
(* Documents: theorems *)

\* The initial state has both invariants.
LEMMA ContentInit ==
    ASSUME W!Init
    PROVE  ContentInv /\ AutoInv
<1>1. /\ \A p \in Procs : request[p] = W!Idle
      /\ \A d \in Ids : doc[d] = Nil /\ docCopy[d] = Nil
      /\ \A c \in Drawings : canvas[c] = Nil
  BY DEF W!Init
<1>2. ContentTyped
  BY IdleMutation DEF W!Init, ContentTyped, Rows, Drawn
<1>3. Locks
  BY <1>1, IdleMutation DEF Locks
<1>4. W!Cardinality(There(canvas)) <= MaxCanvases
  <2>1. There(canvas) = {}
    BY <1>1 DEF There
  <2> QED
    BY <2>1, FS_EmptySet, DrawingsCardinality, ContentAssumption
<1>5. ContentInv
  BY <1>1, <1>2, <1>3, <1>4, IdleMutation
  DEF W!Init, ContentInv, Small, DrawnFresh, CopyFresh, DistinctTasks
<1>6. AutoInv
  BY DEF W!Init, AutoInv, AutoTyped, Automated
<1> QED
  BY <1>5, <1>6

\* And every step keeps them.
LEMMA ContentStep ==
    ASSUME ContentInv, AutoInv, [W!Next]_W!vars
    PROVE  ContentInv' /\ AutoInv'
<1>1. CASE UNCHANGED W!vars
  <2>1. UNCHANGED papers /\ slips' = slips /\ UNCHANGED <<logged, made, auto, most>>
    BY <1>1 DEF W!vars, papers
  <2> QED
    BY <2>1, RobotMutation, AutoRests
<1>2. CASE W!PlanChanges
  <2>1. slips' = slips /\ UNCHANGED <<logged, made, auto, most>>
    BY <1>2 DEF W!PlanChanges, W!robot
  <2> QED
    BY <1>2, <2>1, PlanMutation, AutoRests
<1>3. ASSUME NEW p \in Procs,
             \/ W!Start(p) \/ W!Create(p) \/ W!Find(p) \/ W!Fill(p) \/ W!Release(p) \/ W!Merge(p)
             \/ W!Remove(p) \/ W!Clear(p) \/ W!Count(p) \/ W!Draw(p) \/ W!Paint(p) \/ W!Write(p)
             \/ W!Commit(p) \/ W!Fail(p)
      PROVE  ContentInv' /\ AutoInv'
  <2>1. ContentInv'
    BY <1>3, StartMutation, CreateDocument, FindMutation, FillMutation, ReleaseMutation,
       MergeMutation,
       RemoveDocument, ClearFolder, CountMutation, DrawMutation, PaintMutation, WriteMutation,
       CommitMutation, FailMutation
  <2>2. slips \subseteq slips' /\ UNCHANGED <<logged, made, auto, most>>
    BY <1>3 DEF W!Start, W!Create, W!Find, W!Fill, W!Release, W!Merge, W!Remove, W!Clear, W!Count,
       W!Draw, W!Paint, W!Write, W!Commit, W!Fail, W!robot
  <2> QED
    BY <2>1, <2>2, AutoRests
<1>4. ASSUME NEW p \in Procs, W!Flush(p) PROVE ContentInv' /\ AutoInv'
  BY <1>4, FlushDocument, FlushBegins
<1>5. ASSUME NEW p \in Procs, W!Scan(p) \/ W!Automate(p) PROVE ContentInv' /\ AutoInv'
  <2>1. UNCHANGED papers /\ slips' \in {slips, slips \cup {"scan"}}
    BY <1>5 DEF W!Scan, W!Automate, W!stored, papers
  <2> QED
    BY <1>5, <2>1, RobotMutation, ScanLines, AutomateLines
<1> QED
  BY <1>1, <1>2, <1>3, <1>4, <1>5 DEF W!Next

\* What the invariant says of the committed rows.
LEMMA DocumentsFollow ==
    ASSUME ContentInv
    PROVE  W!DocumentsHold
<1>1. W!WithinLimits
  BY DEF ContentInv, Small, There, W!WithinLimits
<1>2. W!CanvasesHaveDocuments
  BY DEF ContentInv, Fresh, DrawnFresh, W!CanvasesHaveDocuments
<1>3. W!OneDocument
  BY DEF ContentInv, Untaken, DistinctTasks, W!OneDocument,
     W!TaskHasOneDocument
<1> QED
  BY <1>1, <1>2, <1>3 DEF W!DocumentsHold

\* The inductive invariant of documents, canvases and the automation.  A row is
\* locked by who has written it, and only the request that creates a document has its
\* id (WorkspacesRepository); what a request found is still there, a copy in Redis is
\* the committed row or what waits to be committed, a task that an update takes was
\* released elsewhere, and who removes a document has all its canvases, as long as
\* none works with what another has changed; a drawing was counted (CanvasService).
\* An automation has left to look up, or to make, no more lines than one saved
\* document had, and none that is in AutomationLog.
THEOREM ContentInvariance == ServicesSpec => [](scene = "content" => ContentInv /\ AutoInv)
<1> DEFINE Inv == scene = "content" => ContentInv /\ AutoInv
<1>1. ServicesInit => Inv
  BY ContentInit DEF ServicesInit
<1>2. Inv /\ [ServicesNext]_all => Inv'
  <2> SUFFICES ASSUME Inv, [ServicesNext]_all, scene' = "content" PROVE ContentInv' /\ AutoInv'
    OBVIOUS
  <2>1. scene = "content"
    BY DEF ServicesNext, all
  <2>2. W!Next \/ UNCHANGED W!vars
    BY <2>1 DEF ServicesNext, all, wVars, W!vars
  <2> QED
    BY <2>1, <2>2, ContentStep
<1> QED
  BY <1>1, <1>2, PTL DEF ServicesSpec

\* Free's canvases stay within its limits, no canvas outlives its document and a task
\* has one document, for any number of requests (create, update with its release and
\* merge, remove, a folder's removal, drawing, painting, erasing), failures, plans and
\* cached copies, but for the overlaps and failures that nothing in the code
\* prevents.
THEOREM DocumentsStayLinked == ServicesSpec => []DocumentsHold
<1>1. (scene = "content" => ContentInv /\ AutoInv) => DocumentsHold
  BY DocumentsFollow DEF DocumentsHold
<1> QED
  BY <1>1, ContentInvariance, PTL

\* A TODO of a document becomes no more tasks than the times it was in one saved
\* document (run_todo_automation, AutomationLog), for any number of updates and
\* automations, as long as two of one document do not run at once.
THEOREM TodosBecomeOneTask == ServicesSpec => []OneTaskPerTodo
<1>1. (scene = "content" => ContentInv /\ AutoInv) => OneTaskPerTodo
  BY DEF AutoInv, OneTaskPerTodo, W!OneTaskPerTodo
<1> QED
  BY <1>1, ContentInvariance, PTL
=============================================================================
