----------------------------- MODULE Allowance -----------------------------
(***************************************************************************)
(* What the metering of AI uses promises: an allowance of messages for a   *)
(* month and of uses for a day, both full again when the next one starts.  *)
(* A request takes one use at one moment, while there is one left; then it *)
(* keeps it, spends what its reply cost, or gives it back, once.  Module   *)
(* UsageMeter implements it.                                               *)
(***************************************************************************)
EXTENDS Integers

CONSTANTS Requests, FreeLimit, ProLimit, Costs, LastDay, MonthOf

VARIABLES day,
          messages,  \* taken this month
          uses,      \* taken today
          spent,     \* what this month's replies cost
          hand       \* what each request has taken

counts == <<messages, uses, spent>>
promised == <<day, counts, hand>>

Init ==
    /\ day = 0 /\ messages = 0 /\ uses = 0 /\ spent = 0
    /\ hand = [r \in Requests |-> "none"]

Hands(r, what) == hand' = [hand EXCEPT ![r] = what]

TakeMessage(r) ==
    /\ hand[r] = "none" /\ messages < FreeLimit
    /\ messages' = messages + 1 /\ Hands(r, "message")
    /\ UNCHANGED <<day, uses, spent>>

TakeUse(r) ==
    /\ hand[r] = "none" /\ uses < ProLimit
    /\ uses' = uses + 1 /\ Hands(r, "use")
    /\ UNCHANGED <<day, messages, spent>>

GiveBack(r) ==
    /\ hand[r] # "none" /\ Hands(r, "none")
    /\ messages' = messages - IF hand[r] = "message" THEN 1 ELSE 0
    /\ uses' = uses - IF hand[r] = "use" THEN 1 ELSE 0
    /\ UNCHANGED <<day, spent>>

Keep(r) ==
    /\ hand[r] # "none" /\ Hands(r, "none")
    /\ UNCHANGED <<day, counts>>

Spend(r) ==
    /\ hand[r] # "none" /\ Hands(r, "none")
    /\ \E c \in Costs : spent' = spent + c
    /\ UNCHANGED <<day, messages, uses>>

\* Midnight, with nothing in hand.
NextDay ==
    /\ day < LastDay /\ day' = day + 1
    /\ \A r \in Requests : hand[r] = "none"
    /\ uses' = 0
    /\ IF MonthOf[day'] = MonthOf[day] THEN UNCHANGED <<messages, spent>>
       ELSE messages' = 0 /\ spent' = 0
    /\ UNCHANGED hand

Next ==
    \/ \E r \in Requests : TakeMessage(r) \/ TakeUse(r) \/ GiveBack(r) \/ Keep(r) \/ Spend(r)
    \/ NextDay

Spec == Init /\ [][Next]_promised
=============================================================================
