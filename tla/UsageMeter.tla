----------------------------- MODULE UsageMeter -----------------------------
(***************************************************************************)
(* AI uses counted on the user's row:                                      *)
(* app/modules/billing/services/usage_service.py, as the chat, the planner *)
(* and the pattern analysis call it.  A request takes a use before it does *)
(* anything, gives it back if it fails, and adds what the reply cost when  *)
(* the stream is over.  Each count is one UPDATE; its month and day keys   *)
(* are computed just before, and the statement may wait for the row.       *)
(*                                                                         *)
(* Time is counted in days; MonthOf gives the month of each, so that the   *)
(* keys "2025-01" and "2025-01-31" are the numbers of a month and a day.   *)
(***************************************************************************)
EXTENDS Integers, FiniteSets

CONSTANTS Requests,       \* AI requests of one user that can run at once
          FreeLimit,      \* FREE_AI_MESSAGE_LIMIT, a month
          ProLimit,       \* PRO_DAILY_AI_LIMIT, a day
          CostCap,        \* PRO_MONTHLY_AI_COST_CAP_USD
          Costs,          \* what a reply may cost, in millionths
          LastDay,        \* bound: the last day of the instance
          MonthOf,        \* the month of each day
          MaxCost,        \* bound: cost ever added up in a month
          QuietMidnight   \* TRUE: no request is under way when the day changes

ASSUME RequestsAssumption == IsFiniteSet(Requests)
ASSUME LimitsAssumption == FreeLimit \in Nat \ {0} /\ ProLimit \in Nat \ {0}
ASSUME TimeAssumption ==
    /\ LastDay \in Nat /\ MonthOf \in [0..LastDay -> Nat]
    /\ \A d, e \in 0..LastDay : d <= e => MonthOf[d] <= MonthOf[e]
ASSUME CostAssumption == Costs \subseteq Nat \ {0} /\ MaxCost \in Nat /\ CostCap \in Nat
ASSUME QuietAssumption == QuietMidnight \in BOOLEAN

VARIABLES day,        \* today, UTC
          pro,        \* the plan on the user's row
          month,      \* the row's aiPeriod, aiMessagesUsed, aiCostMicros
          daily,      \* the row's aiDailyDate, aiDailyUsed
          use,        \* the request each handler serves
          takenIn,    \* history: free messages of each month, not given back
          takenOn,    \* history: Pro uses of each day, not given back
          spentIn     \* history: what the replies recorded in a month cost

rowVars == <<month, daily>>
history == <<takenIn, takenOn, spentIn>>
vars == <<day, pro, rowVars, use, history>>

Days == 0..LastDay
Months == {MonthOf[d] : d \in Days}
Never == -1

Places == {"idle", "admitted", "taking", "working", "returning", "spending"}
Use == [pc : Places, pro : BOOLEAN, economy : BOOLEAN,
        stamp : Days \cup {Never},  \* the day the statement under way was made for
        taken : Days \cup {Never},  \* the day the use was counted for
        cost : Costs \cup {0}]
Idle == [pc |-> "idle", pro |-> FALSE, economy |-> FALSE,
         stamp |-> Never, taken |-> Never, cost |-> 0]

TypeOK ==
    /\ day \in Days /\ pro \in BOOLEAN
    /\ month \in [period : Months \cup {Never}, used : 0..FreeLimit, cost : Nat]
    /\ daily \in [day : Days \cup {Never}, used : 0..ProLimit]
    /\ use \in [Requests -> Use]
    /\ takenIn \in [Months -> Int] /\ takenOn \in [Days -> Int]
    /\ spentIn \in [Months -> Nat]

Init ==
    /\ day = 0 /\ pro \in BOOLEAN
    /\ month = [period |-> Never, used |-> 0, cost |-> 0]
    /\ daily = [day |-> Never, used |-> 0]
    /\ use = [r \in Requests |-> Idle]
    /\ takenIn = [m \in Months |-> 0]
    /\ takenOn = [d \in Days |-> 0]
    /\ spentIn = [m \in Months |-> 0]

-----------------------------------------------------------------------------
(* Reading the counts back: a count of another month or day is zero. *)

MessagesUsedThisMonth == IF month.period = MonthOf[day] THEN month.used ELSE 0
CostThisMonth == IF month.period = MonthOf[day] THEN month.cost ELSE 0
DailyUsesToday == IF daily.day = day THEN daily.used ELSE 0

At(r, place) == use[r].pc = place
Goto(r, place) == use' = [use EXCEPT ![r].pc = place]
Leave(r) == use' = [use EXCEPT ![r] = Idle]

-----------------------------------------------------------------------------
(* take_ai_use *)

\* The user is loaded: the plan the use will be counted on, and the model.
Admit(r) ==
    /\ At(r, "idle")
    /\ use' = [use EXCEPT ![r] = [Idle EXCEPT !.pc = "admitted", !.pro = pro,
                                     !.economy = pro /\ CostThisMonth >= CostCap]]
    /\ UNCHANGED <<day, pro, rowVars, history>>

\* The key of today, and the statement is on its way.
Stamp(r) ==
    /\ At(r, "admitted")
    /\ use' = [use EXCEPT ![r].pc = "taking", ![r].stamp = day]
    /\ UNCHANGED <<day, pro, rowVars, history>>

\* Slip: a count from another month is carried on.
CarriedMessages(m) == month.used

\* Slip: so is a cost.
CarriedCost(m) == month.cost

\* A count for another month starts over in the same statement.
MessagesIn(m) == IF month.period = m THEN month.used ELSE 0
CostIn(m) == IF month.period = m THEN month.cost ELSE 0
UsesOn(d) == IF daily.day = d THEN daily.used ELSE 0

\* Slip: the limit is one message more.
RoomForOneMore(m) == MessagesIn(m) <= FreeLimit

RoomInMonth(m) == MessagesIn(m) < FreeLimit

\* Slip: today's count is never compared.
AlwaysRoom(d) == TRUE

RoomOnDay(d) == UsesOn(d) < ProLimit

Counted(r) == use' = [use EXCEPT ![r].pc = "working", ![r].taken = use[r].stamp]

\* consume_ai_message: one more of this month, or 402.
ConsumeMessage(r) ==
    LET m == MonthOf[use[r].stamp]
    IN /\ At(r, "taking") /\ ~use[r].pro
       /\ \/ /\ RoomInMonth(m)
             /\ month' = [period |-> m, used |-> MessagesIn(m) + 1, cost |-> CostIn(m)]
             /\ takenIn' = [takenIn EXCEPT ![m] = @ + 1]
             /\ Counted(r)
          \/ ~RoomInMonth(m) /\ Leave(r) /\ UNCHANGED <<month, takenIn>>
       /\ UNCHANGED <<day, pro, daily, takenOn, spentIn>>

\* consume_daily_ai_use: one more of today, or 429.
ConsumeDaily(r) ==
    LET d == use[r].stamp
    IN /\ At(r, "taking") /\ use[r].pro
       /\ \/ /\ RoomOnDay(d)
             /\ daily' = [day |-> d, used |-> UsesOn(d) + 1]
             /\ takenOn' = [takenOn EXCEPT ![d] = @ + 1]
             /\ Counted(r)
          \/ ~RoomOnDay(d) /\ Leave(r) /\ UNCHANGED <<daily, takenOn>>
       /\ UNCHANGED <<day, pro, month, takenIn, spentIn>>

-----------------------------------------------------------------------------
(* The request succeeds, fails or dies *)

\* The stream is over and told what it cost (usage_service ignores zero).
Reply(r) ==
    /\ At(r, "working")
    /\ \/ \E c \in Costs :
            use' = [use EXCEPT ![r].pc = "spending", ![r].cost = c, ![r].stamp = day]
       \/ Leave(r)
    /\ UNCHANGED <<day, pro, rowVars, history>>

\* Rejected after it was counted: give_back_ai_use, with today's key.
Reject(r) ==
    /\ At(r, "working")
    /\ use' = [use EXCEPT ![r].pc = "returning", ![r].stamp = day]
    /\ UNCHANGED <<day, pro, rowVars, history>>

\* refund_ai_message, only on a count of the month it runs in.
RefundMessage(r) ==
    /\ At(r, "returning") /\ ~use[r].pro
    /\ month' = IF month.period = MonthOf[use[r].stamp] /\ month.used > 0
                THEN [month EXCEPT !.used = @ - 1] ELSE month
    /\ takenIn' = [takenIn EXCEPT ![MonthOf[use[r].taken]] = @ - 1]
    /\ Leave(r)
    /\ UNCHANGED <<day, pro, daily, takenOn, spentIn>>

\* refund_daily_ai_use
RefundDaily(r) ==
    /\ At(r, "returning") /\ use[r].pro
    /\ daily' = IF daily.day = use[r].stamp /\ daily.used > 0
                THEN [daily EXCEPT !.used = @ - 1] ELSE daily
    /\ takenOn' = [takenOn EXCEPT ![use[r].taken] = @ - 1]
    /\ Leave(r)
    /\ UNCHANGED <<day, pro, month, takenIn, spentIn>>

\* add_ai_cost: in a new month the messages start over too.
AddCost(r) ==
    LET m == MonthOf[use[r].stamp]
    IN /\ At(r, "spending") /\ spentIn[m] + use[r].cost <= MaxCost
       /\ month' = [period |-> m, used |-> MessagesIn(m), cost |-> CostIn(m) + use[r].cost]
       /\ spentIn' = [spentIn EXCEPT ![m] = @ + use[r].cost]
       /\ Leave(r)
       /\ UNCHANGED <<day, pro, daily, takenIn, takenOn>>

\* The request dies (a crash, a cancelled handler, an exception outside the
\* guarded call): what was counted stays counted.
Die(r) ==
    /\ ~At(r, "idle")
    /\ Leave(r)
    /\ UNCHANGED <<day, pro, rowVars, history>>

\* A subscription starts or ends (see Billing).
PlanChanges == pro' = ~pro /\ UNCHANGED <<day, rowVars, use, history>>

NextDay ==
    /\ day < LastDay
    /\ QuietMidnight => \A r \in Requests : At(r, "idle")
    /\ day' = day + 1
    /\ UNCHANGED <<pro, rowVars, use, history>>

Handle(r) ==
    \/ Admit(r) \/ Stamp(r) \/ ConsumeMessage(r) \/ ConsumeDaily(r) \/ Reply(r)
    \/ Reject(r) \/ RefundMessage(r) \/ RefundDaily(r) \/ AddCost(r) \/ Die(r)
Next == (\E r \in Requests : Handle(r)) \/ PlanChanges \/ NextDay

Spec == Init /\ [][Next]_vars

-----------------------------------------------------------------------------
(* Properties *)

\* No month has more free messages than the plan allows (plans.py: "this many
\* messages a calendar month"), however many tabs send at once.
MonthlyLimit == \A m \in Months : takenIn[m] <= FreeLimit

\* Nor has a day more Pro uses than fair use allows.
DailyLimit == \A d \in Days : takenOn[d] <= ProLimit
Limits == MonthlyLimit /\ DailyLimit

\* The counts a user reads are what was really taken: a rejected request costs
\* nothing, and no other request gains by it, whatever the plan was meanwhile.
MeterIsExact ==
    /\ MessagesUsedThisMonth = takenIn[MonthOf[day]]
    /\ DailyUsesToday = takenOn[day]
    /\ CostThisMonth = spentIn[MonthOf[day]]

\* What a user reads changes as an allowance does (module Allowance): a use is taken
\* at one moment and only if one is left, given back at most once and by who took
\* it, and the counts are zero as soon as their month or day is over, although the
\* row's own are not until the next statement.
A == INSTANCE Allowance WITH
        messages <- MessagesUsedThisMonth, uses <- DailyUsesToday, spent <- CostThisMonth,
        hand <- [r \in Requests |->
                   IF use[r].pc \notin {"working", "returning", "spending"} THEN "none"
                   ELSE IF use[r].pro THEN "use" ELSE "message"]
MeterIsAllowance == A!Spec
=============================================================================
