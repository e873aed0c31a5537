---------------------------- MODULE UsageProofs ----------------------------
(***************************************************************************)
(* The row of an account never counts more uses than its plan allows, and  *)
(* when no request is under way at midnight the limits hold and the counts *)
(* are exact: for any number of requests, any limits and any calendar.     *)
(***************************************************************************)
EXTENDS UsageMeter, FiniteSetTheorems, TLAPS

\* Only a statement under way has a key, a use in hand was counted on a day, and a
\* reply that is recorded cost something.
Stamped(u) ==
    /\ u.pc = "idle" => u.stamp = Never /\ u.taken = Never
    /\ u.pc \in {"taking", "returning", "spending"} => u.stamp \in Days
    /\ u.pc \in {"working", "returning"} => u.taken \in Days
    /\ u.pc = "spending" => u.cost \in Costs
TypeInv == TypeOK /\ \A r \in Requests : Stamped(use[r])

\* The requests that may still give a use back, by the plan it was counted on.
Holding(u) == {r \in Requests : u[r].pc \in {"working", "returning"}}
FreeHolders(u) == {r \in Holding(u) : ~u[r].pro}
ProHolders(u) == {r \in Holding(u) : u[r].pro}

\* With nothing under way at midnight, what is under way is of today.
OfToday == \A r \in Requests : use[r].stamp \in {Never, day} /\ use[r].taken \in {Never, day}
\* Every use that may be given back is one of those counted.
Covered ==
    /\ Cardinality(FreeHolders(use)) <= takenIn[MonthOf[day]]
    /\ Cardinality(ProHolders(use)) <= takenOn[day]
\* Nothing was counted in a month or on a day to come.
Untouched ==
    /\ \A m \in Months : m > MonthOf[day] =>
          takenIn[m] = 0 /\ spentIn[m] = 0 /\ month.period # m
    /\ \A d \in Days : d > day => takenOn[d] = 0 /\ daily.day # d
QuietInv == OfToday /\ Covered /\ Untouched /\ Limits /\ MeterIsExact
IInv == TypeInv /\ (QuietMidnight => QuietInv)

-----------------------------------------------------------------------------
(* Lemmas *)

\* Months are numbers and every day has one.
LEMMA Calendar ==
  /\ Days \subseteq Nat /\ Months \subseteq Nat
  /\ \A d \in Days : MonthOf[d] \in Months
  /\ \A d, e \in Days : d <= e => MonthOf[d] <= MonthOf[e]
BY TimeAssumption DEF Days, Months

LEMMA CostsAreNumbers == \A c \in Costs \cup {0} : c \in Nat
BY CostAssumption

\* Sets of requests are finite, and counted by a natural number.
LEMMA FewRequests ==
  ASSUME NEW S \in SUBSET Requests
  PROVE  IsFiniteSet(S) /\ Cardinality(S) \in Nat
BY RequestsAssumption, FS_Subset, FS_CardinalityType

\* Fewer of them are not more.
LEMMA NoMore ==
  ASSUME NEW S \in SUBSET Requests, NEW T \in SUBSET S
  PROVE  Cardinality(T) <= Cardinality(S)
BY FewRequests, FS_Subset

\* One that joins adds at most one.
LEMMA OneMore ==
  ASSUME NEW S \in SUBSET Requests, NEW r \in Requests, NEW T \in SUBSET (S \cup {r})
  PROVE  Cardinality(T) <= Cardinality(S) + 1
<1>1. IsFiniteSet(S) /\ Cardinality(S) \in Nat
  BY FewRequests
<1>2. Cardinality(S \cup {r}) <= Cardinality(S) + 1
  <2>1. CASE r \in S
    BY <1>1, <2>1, S \cup {r} = S
  <2>2. CASE r \notin S
    <3>1. Cardinality(S \cup {r}) = Cardinality(S) + 1
      BY <1>1, <2>2, FS_AddElement, Zenon
    <3> QED
      BY <1>1, <3>1
  <2> QED
    BY <2>1, <2>2
<1>3. Cardinality(T) <= Cardinality(S \cup {r})
  BY NoMore
<1>4. Cardinality(S \cup {r}) \in Nat /\ Cardinality(T) \in Nat
  BY FewRequests
<1> QED
  BY <1>1, <1>2, <1>3, <1>4

\* One that leaves takes one off.
LEMMA OneLess ==
  ASSUME NEW S \in SUBSET Requests, NEW r \in S, NEW T \in SUBSET (S \ {r})
  PROVE  Cardinality(T) <= Cardinality(S) - 1
<1>1. IsFiniteSet(S) /\ Cardinality(S) \in Nat
  BY FewRequests
<1>2. Cardinality(S \ {r}) = Cardinality(S) - 1
  BY <1>1, FS_RemoveElement
<1>3. Cardinality(T) <= Cardinality(S \ {r})
  BY NoMore
<1> QED
  BY <1>2, <1>3

-----------------------------------------------------------------------------
(* Types *)

LEMMA InitTypeInv == Init => TypeInv
BY Calendar, TimeAssumption, LimitsAssumption
DEF Init, TypeInv, TypeOK, Stamped, Idle, Use, Places, Never, Days

\* A handler that moves on to a well-typed state leaves all of them typed.
LEMMA UseStep ==
  ASSUME TypeInv, NEW r \in Requests, NEW v \in Use, Stamped(v),
         use' = [use EXCEPT ![r] = v]
  PROVE  use' \in [Requests -> Use] /\ \A s \in Requests : Stamped(use'[s])
BY DEF TypeInv, TypeOK

LEMMA LeaveTypes ==
  ASSUME TypeInv, NEW r \in Requests, Leave(r)
  PROVE  use' \in [Requests -> Use] /\ \A s \in Requests : Stamped(use'[s])
<1>1. Idle \in Use /\ Stamped(Idle)
  BY DEF Idle, Use, Places, Never, Stamped
<1> QED
  BY <1>1, UseStep DEF Leave

\* The use taken is of the day of the key.
LEMMA CountedTypes ==
  ASSUME TypeInv, NEW r \in Requests, At(r, "taking"), Counted(r)
  PROVE  use' \in [Requests -> Use] /\ \A s \in Requests : Stamped(use'[s])
<1> DEFINE v == [use[r] EXCEPT !.pc = "working", !.taken = use[r].stamp]
<1>1. use[r] \in Use /\ use[r].stamp \in Days
  BY DEF TypeInv, TypeOK, Stamped, At
<1>2. v \in Use /\ Stamped(v)
  BY <1>1 DEF Use, Places, Stamped
<1>3. use' = [use EXCEPT ![r] = v]
  BY DEF Counted, TypeInv, TypeOK
<1> QED
  BY <1>2, <1>3, UseStep

\* Every step of a request keeps the types.
LEMMA HandleTypes ==
  ASSUME TypeInv, NEW r \in Requests, Handle(r)
  PROVE  TypeInv'
<1> DEFINE m == MonthOf[use[r].stamp]
<1>0. use[r] \in Use /\ Stamped(use[r])
  BY DEF TypeInv, TypeOK
<1>1. CASE Admit(r)
  <2> DEFINE v == [Idle EXCEPT !.pc = "admitted", !.pro = pro,
                               !.economy = pro /\ CostThisMonth >= CostCap]
  <2>1. (pro /\ CostThisMonth >= CostCap) \in BOOLEAN /\ pro \in BOOLEAN
    BY DEF TypeInv, TypeOK
  <2>2. v \in Use /\ Stamped(v)
    BY <2>1 DEF Idle, Use, Places, Never, Stamped
  <2>3. use' = [use EXCEPT ![r] = v]
    BY <1>1 DEF Admit
  <2>4. use' \in [Requests -> Use] /\ \A s \in Requests : Stamped(use'[s])
    <3> HIDE DEF v
    <3> QED
      BY <2>2, <2>3, UseStep
  <2> QED
    BY <1>1, <2>4 DEF Admit, TypeInv, TypeOK, rowVars, history
<1>2. CASE Stamp(r)
  <2> DEFINE v == [use[r] EXCEPT !.pc = "taking", !.stamp = day]
  <2>1. v \in Use /\ Stamped(v)
    BY <1>0 DEF Use, Places, Stamped, TypeInv, TypeOK
  <2>2. use' = [use EXCEPT ![r] = v]
    BY <1>2 DEF Stamp, TypeInv, TypeOK
  <2> QED
    BY <1>2, <2>1, <2>2, UseStep DEF Stamp, TypeInv, TypeOK, rowVars, history
<1>3. CASE ConsumeMessage(r)
  <2>1. use' \in [Requests -> Use] /\ \A s \in Requests : Stamped(use'[s])
    BY <1>3, LeaveTypes, CountedTypes DEF ConsumeMessage
  <2>2. m \in Months
    BY <1>0, <1>3, Calendar DEF ConsumeMessage, At, Stamped
  <2>3. month' \in [period : Months \cup {Never}, used : 0..FreeLimit, cost : Nat]
    BY <1>3, <2>2, LimitsAssumption
    DEF ConsumeMessage, RoomInMonth, MessagesIn, CostIn, TypeInv, TypeOK
  <2>4. takenIn' \in [Months -> Int]
    BY <1>3, <2>2 DEF ConsumeMessage, TypeInv, TypeOK
  <2> QED
    BY <1>3, <2>1, <2>3, <2>4 DEF ConsumeMessage, TypeInv, TypeOK
<1>4. CASE ConsumeDaily(r)
  <2>1. use' \in [Requests -> Use] /\ \A s \in Requests : Stamped(use'[s])
    BY <1>4, LeaveTypes, CountedTypes DEF ConsumeDaily
  <2>2. use[r].stamp \in Days
    BY <1>0, <1>4 DEF ConsumeDaily, At, Stamped
  <2>3. daily' \in [day : Days \cup {Never}, used : 0..ProLimit]
    BY <1>4, <2>2, LimitsAssumption DEF ConsumeDaily, RoomOnDay, UsesOn, TypeInv, TypeOK
  <2>4. takenOn' \in [Days -> Int]
    BY <1>4, <2>2 DEF ConsumeDaily, TypeInv, TypeOK
  <2> QED
    BY <1>4, <2>1, <2>3, <2>4 DEF ConsumeDaily, TypeInv, TypeOK
<1>5. CASE Reply(r)
  <2>1. use' \in [Requests -> Use] /\ \A s \in Requests : Stamped(use'[s])
    <3>1. CASE Leave(r)
      BY <3>1, LeaveTypes
    <3>2. ASSUME NEW c \in Costs,
                 use' = [use EXCEPT ![r].pc = "spending", ![r].cost = c, ![r].stamp = day]
          PROVE  use' \in [Requests -> Use] /\ \A s \in Requests : Stamped(use'[s])
      <4> DEFINE v == [use[r] EXCEPT !.pc = "spending", !.cost = c, !.stamp = day]
      <4>1. v \in Use /\ Stamped(v)
        BY <1>0 DEF Use, Places, Stamped, TypeInv, TypeOK
      <4>2. use' = [use EXCEPT ![r] = v]
        BY <3>2 DEF TypeInv, TypeOK
      <4> QED
        BY <4>1, <4>2, UseStep
    <3> QED
      BY <1>5, <3>1, <3>2 DEF Reply
  <2> QED
    BY <1>5, <2>1 DEF Reply, TypeInv, TypeOK, rowVars, history
<1>6. CASE Reject(r)
  <2> DEFINE v == [use[r] EXCEPT !.pc = "returning", !.stamp = day]
  <2>1. v \in Use /\ Stamped(v)
    BY <1>0, <1>6 DEF Reject, At, Use, Places, Stamped, TypeInv, TypeOK
  <2>2. use' = [use EXCEPT ![r] = v]
    BY <1>6 DEF Reject, TypeInv, TypeOK
  <2> QED
    BY <1>6, <2>1, <2>2, UseStep DEF Reject, TypeInv, TypeOK, rowVars, history
<1>7. CASE RefundMessage(r)
  <2>1. MonthOf[use[r].taken] \in Months
    BY <1>0, <1>7, Calendar DEF RefundMessage, At, Stamped
  <2>2. month' \in [period : Months \cup {Never}, used : 0..FreeLimit, cost : Nat]
    BY <1>7, LimitsAssumption DEF RefundMessage, TypeInv, TypeOK
  <2>3. takenIn' \in [Months -> Int]
    BY <1>7, <2>1 DEF RefundMessage, TypeInv, TypeOK
  <2> QED
    BY <1>7, <2>2, <2>3, LeaveTypes DEF RefundMessage, TypeInv, TypeOK
<1>8. CASE RefundDaily(r)
  <2>1. use[r].taken \in Days
    BY <1>0, <1>8 DEF RefundDaily, At, Stamped
  <2>2. daily' \in [day : Days \cup {Never}, used : 0..ProLimit]
    BY <1>8, LimitsAssumption DEF RefundDaily, TypeInv, TypeOK
  <2>3. takenOn' \in [Days -> Int]
    BY <1>8, <2>1 DEF RefundDaily, TypeInv, TypeOK
  <2> QED
    BY <1>8, <2>2, <2>3, LeaveTypes DEF RefundDaily, TypeInv, TypeOK
<1>9. CASE AddCost(r)
  <2>1. m \in Months /\ use[r].cost \in Nat
    <3>1. use[r].stamp \in Days
      BY <1>0, <1>9 DEF AddCost, At, Stamped
    <3>2. use[r].cost \in Costs \cup {0}
      BY <1>0 DEF Use
    <3>3. use[r].cost \in Nat
      BY <3>2, CostsAreNumbers
    <3> QED
      BY <3>1, <3>3, Calendar
  <2>2. month' \in [period : Months \cup {Never}, used : 0..FreeLimit, cost : Nat]
    BY <1>9, <2>1, LimitsAssumption DEF AddCost, MessagesIn, CostIn, TypeInv, TypeOK
  <2>3. spentIn' \in [Months -> Nat]
    BY <1>9, <2>1 DEF AddCost, TypeInv, TypeOK
  <2> QED
    BY <1>9, <2>2, <2>3, LeaveTypes DEF AddCost, TypeInv, TypeOK
<1>10. CASE Die(r)
  BY <1>10, LeaveTypes DEF Die, TypeInv, TypeOK, rowVars, history
<1> QED
  BY <1>1, <1>2, <1>3, <1>4, <1>5, <1>6, <1>7, <1>8, <1>9, <1>10 DEF Handle

\* Every step keeps the types.
LEMMA NextTypes == TypeInv /\ [Next]_vars => TypeInv'
<1> SUFFICES ASSUME TypeInv, [Next]_vars PROVE TypeInv'
  OBVIOUS
<1>1. ASSUME NEW r \in Requests, Handle(r) PROVE TypeInv'
  BY <1>1, HandleTypes
<1>2. CASE PlanChanges
  BY <1>2 DEF PlanChanges, TypeInv, TypeOK, Stamped, rowVars, history
<1>3. CASE NextDay
  BY <1>3, TimeAssumption DEF NextDay, TypeInv, TypeOK, Stamped, rowVars, history, Days
<1>4. CASE UNCHANGED vars
  BY <1>4 DEF vars, TypeInv, TypeOK, Stamped, rowVars, history
<1> QED
  BY <1>1, <1>2, <1>3, <1>4 DEF Next

\* The row's counts stay within the plan's limits, and every field keeps its
\* type, even when requests are under way at midnight.
THEOREM TypeCorrect == Spec => []TypeOK
<1>1. TypeInv => TypeOK
  BY DEF TypeInv
<1> QED
  BY <1>1, InitTypeInv, NextTypes, PTL DEF Spec

-----------------------------------------------------------------------------
(* Limits, when no request is under way at midnight *)

LEMMA InitQuiet == Init => QuietInv
<1> SUFFICES ASSUME Init PROVE QuietInv
  OBVIOUS
<1>1. day \in Days /\ MonthOf[day] \in Months
  BY Calendar, TimeAssumption DEF Init, Days
<1>2. FreeHolders(use) = {} /\ ProHolders(use) = {}
  BY DEF Init, FreeHolders, ProHolders, Holding, Idle
<1>3. Covered
  BY <1>1, <1>2, FS_EmptySet DEF Covered, Init
<1>4. Untouched /\ MeterIsExact /\ OfToday
  BY <1>1, Calendar DEF Untouched, MeterIsExact, OfToday, Init, Idle, Never,
     MessagesUsedThisMonth, CostThisMonth, DailyUsesToday
<1>5. Limits
  BY LimitsAssumption DEF Limits, MonthlyLimit, DailyLimit, Init
<1> QED
  BY <1>3, <1>4, <1>5 DEF QuietInv

\* Covered stays while the holders only get fewer.
LEMMA CoverKept ==
  ASSUME TypeInv, Covered, UNCHANGED <<day, takenIn, takenOn>>,
         FreeHolders(use') \subseteq FreeHolders(use), ProHolders(use') \subseteq ProHolders(use)
  PROVE  Covered'
<1>1. FreeHolders(use) \subseteq Requests /\ ProHolders(use) \subseteq Requests
  BY DEF FreeHolders, ProHolders, Holding
<1>2. /\ Cardinality(FreeHolders(use')) <= Cardinality(FreeHolders(use))
      /\ Cardinality(ProHolders(use')) <= Cardinality(ProHolders(use))
  BY <1>1, NoMore
<1>3. /\ Cardinality(FreeHolders(use)) \in Nat /\ Cardinality(FreeHolders(use')) \in Nat
      /\ Cardinality(ProHolders(use)) \in Nat /\ Cardinality(ProHolders(use')) \in Nat
  BY <1>1, FewRequests
<1>4. takenIn[MonthOf[day]] \in Int /\ takenOn[day] \in Int
  BY Calendar DEF TypeInv, TypeOK
<1> QED
  BY <1>2, <1>3, <1>4 DEF Covered

\* A step that counts nothing and takes hold of nothing.
LEMMA StillQuiet ==
  ASSUME TypeInv, QuietInv, NEW r \in Requests,
         UNCHANGED <<day, month, daily, takenIn, takenOn, spentIn>>,
         \A s \in Requests \ {r} : use'[s] = use[s],
         use'[r].stamp \in {Never, day}, use'[r].taken \in {Never, day},
         use'[r].pc \in {"working", "returning"} =>
            use[r].pc \in {"working", "returning"} /\ use'[r].pro = use[r].pro
  PROVE  QuietInv'
<1>1. OfToday'
  BY DEF OfToday, QuietInv
<1>2. Covered'
  <2>1. FreeHolders(use') \subseteq FreeHolders(use) /\ ProHolders(use') \subseteq ProHolders(use)
    BY DEF FreeHolders, ProHolders, Holding
  <2> QED
    BY <2>1, CoverKept DEF QuietInv
<1>3. Untouched' /\ Limits' /\ MeterIsExact'
  BY DEF QuietInv, Untouched, Limits, MonthlyLimit, DailyLimit, MeterIsExact,
     MessagesUsedThisMonth, CostThisMonth, DailyUsesToday
<1> QED
  BY <1>1, <1>2, <1>3 DEF QuietInv

\* Handing a use in, or dying with it, leaves everything else as it was.
LEMMA LeaveQuiet ==
  ASSUME TypeInv, QuietInv, NEW r \in Requests, Leave(r),
         UNCHANGED <<day, month, daily, takenIn, takenOn, spentIn>>
  PROVE  QuietInv'
<1>1. use'[r] = Idle /\ \A s \in Requests \ {r} : use'[s] = use[s]
  BY DEF Leave, TypeInv, TypeOK
<1> QED
  BY <1>1, StillQuiet DEF Idle

\* The steps that count nothing.
LEMMA UncountedQuiet ==
  ASSUME TypeInv, QuietInv, NEW r \in Requests,
         Admit(r) \/ Stamp(r) \/ Reply(r) \/ Reject(r) \/ Die(r)
  PROVE  QuietInv'
<1>1. use[r].stamp \in {Never, day} /\ use[r].taken \in {Never, day}
  BY DEF QuietInv, OfToday
<1>2. UNCHANGED <<day, month, daily, takenIn, takenOn, spentIn>>
  BY DEF Admit, Stamp, Reply, Reject, Die, rowVars, history
<1>3. CASE Admit(r)
  <2>1. /\ use'[r].stamp = Never /\ use'[r].taken = Never /\ use'[r].pc = "admitted"
        /\ \A s \in Requests \ {r} : use'[s] = use[s]
    BY <1>3 DEF Admit, Idle, TypeInv, TypeOK
  <2> QED
    BY <1>2, <2>1, StillQuiet
<1>4. CASE Stamp(r)
  <2>1. /\ use'[r].stamp = day /\ use'[r].taken = use[r].taken /\ use'[r].pc = "taking"
        /\ \A s \in Requests \ {r} : use'[s] = use[s]
    BY <1>4 DEF Stamp, TypeInv, TypeOK, Use
  <2> QED
    BY <1>1, <1>2, <2>1, StillQuiet
<1>5. CASE Reply(r)
  <2>1. CASE Leave(r)
    BY <1>2, <2>1, LeaveQuiet
  <2>2. ASSUME NEW c \in Costs,
               use' = [use EXCEPT ![r].pc = "spending", ![r].cost = c, ![r].stamp = day]
        PROVE  QuietInv'
    <3>1. /\ use'[r].stamp = day /\ use'[r].taken = use[r].taken /\ use'[r].pc = "spending"
          /\ \A s \in Requests \ {r} : use'[s] = use[s]
      BY <2>2 DEF TypeInv, TypeOK, Use
    <3> QED
      BY <1>1, <1>2, <3>1, StillQuiet
  <2> QED
    BY <1>5, <2>1, <2>2 DEF Reply
<1>6. CASE Reject(r)
  <2>1. /\ use'[r].stamp = day /\ use'[r].taken = use[r].taken /\ use'[r].pro = use[r].pro
        /\ use[r].pc = "working"
        /\ \A s \in Requests \ {r} : use'[s] = use[s]
    BY <1>6 DEF Reject, At, TypeInv, TypeOK, Use
  <2> QED
    BY <1>1, <1>2, <2>1, StillQuiet
<1>7. CASE Die(r)
  BY <1>2, <1>7, LeaveQuiet DEF Die
<1> QED
  BY <1>3, <1>4, <1>5, <1>6, <1>7

\* A free message: the count and the history go up together, under the limit.
LEMMA ConsumeMessageQuiet ==
  ASSUME TypeInv, TypeInv', QuietInv, NEW r \in Requests, ConsumeMessage(r)
  PROVE  QuietInv'
<1> DEFINE m == MonthOf[day]
<1>1. day \in Days /\ m \in Months /\ m \in Nat
  BY Calendar DEF TypeInv, TypeOK
<1>2. use[r].stamp = day /\ use[r].pc = "taking" /\ ~use[r].pro
  BY Calendar DEF ConsumeMessage, At, TypeInv, Stamped, QuietInv, OfToday, Never
<1>3. CASE ~RoomInMonth(m) /\ Leave(r) /\ UNCHANGED <<month, takenIn>>
  BY <1>3, LeaveQuiet DEF ConsumeMessage
<1>4. CASE RoomInMonth(m) /\ Counted(r)
           /\ month' = [period |-> m, used |-> MessagesIn(m) + 1, cost |-> CostIn(m)]
           /\ takenIn' = [takenIn EXCEPT ![m] = @ + 1]
  <2>1. MessagesIn(m) = takenIn[m] /\ CostIn(m) = spentIn[m] /\ takenIn[m] \in Int
    BY <1>1 DEF QuietInv, MeterIsExact, MessagesUsedThisMonth, CostThisMonth,
       MessagesIn, CostIn, TypeInv, TypeOK
  <2>2. UNCHANGED <<day, daily, takenOn, spentIn>>
    BY DEF ConsumeMessage
  <2>3. /\ use'[r].pc = "working" /\ use'[r].taken = day /\ use'[r].stamp = day /\ ~use'[r].pro
        /\ \A s \in Requests \ {r} : use'[s] = use[s]
    BY <1>2, <1>4 DEF Counted, TypeInv, TypeOK, Use
  <2>4. OfToday'
    BY <2>2, <2>3 DEF OfToday, QuietInv
  <2>5. Covered'
    <3>1. FreeHolders(use') \subseteq FreeHolders(use) \cup {r} /\ ProHolders(use') \subseteq ProHolders(use)
      BY <2>3 DEF FreeHolders, ProHolders, Holding
    <3>2. FreeHolders(use) \subseteq Requests /\ ProHolders(use) \subseteq Requests
          /\ FreeHolders(use') \subseteq Requests /\ ProHolders(use') \subseteq Requests
      BY DEF FreeHolders, ProHolders, Holding
    <3>3. /\ Cardinality(FreeHolders(use')) <= Cardinality(FreeHolders(use)) + 1
          /\ Cardinality(ProHolders(use')) <= Cardinality(ProHolders(use))
      BY <3>1, <3>2, OneMore, NoMore
    <3>4. /\ Cardinality(FreeHolders(use)) \in Nat /\ Cardinality(FreeHolders(use')) \in Nat
          /\ Cardinality(ProHolders(use)) \in Nat /\ Cardinality(ProHolders(use')) \in Nat
      BY <3>2, FewRequests
    <3>5. takenIn'[m] = takenIn[m] + 1 /\ takenOn[day] \in Int
      BY <1>1, <1>4 DEF TypeInv, TypeOK
    <3> QED
      BY <2>1, <2>2, <3>3, <3>4, <3>5 DEF Covered, QuietInv
  <2>6. Untouched'
    BY <1>1, <1>4, <2>2, Calendar DEF Untouched, QuietInv, TypeInv, TypeOK
  <2>7. Limits'
    BY <1>1, <1>4, <2>1, <2>2, LimitsAssumption
    DEF Limits, MonthlyLimit, DailyLimit, RoomInMonth, QuietInv, TypeInv, TypeOK
  <2>8. MeterIsExact'
    BY <1>1, <1>4, <2>1, <2>2 DEF MeterIsExact, MessagesUsedThisMonth, CostThisMonth,
       DailyUsesToday, QuietInv, TypeInv, TypeOK
  <2> QED
    BY <2>4, <2>5, <2>6, <2>7, <2>8 DEF QuietInv
<1> QED
  BY <1>2, <1>3, <1>4 DEF ConsumeMessage

\* A Pro use: likewise, for the day.
LEMMA ConsumeDailyQuiet ==
  ASSUME TypeInv, TypeInv', QuietInv, NEW r \in Requests, ConsumeDaily(r)
  PROVE  QuietInv'
<1>1. day \in Days /\ day \in Nat /\ MonthOf[day] \in Months
  BY Calendar DEF TypeInv, TypeOK
<1>2. use[r].stamp = day /\ use[r].pc = "taking" /\ use[r].pro
  BY Calendar DEF ConsumeDaily, At, TypeInv, Stamped, QuietInv, OfToday, Never
<1>3. CASE ~RoomOnDay(day) /\ Leave(r) /\ UNCHANGED <<daily, takenOn>>
  BY <1>3, LeaveQuiet DEF ConsumeDaily
<1>4. CASE RoomOnDay(day) /\ Counted(r)
           /\ daily' = [day |-> day, used |-> UsesOn(day) + 1]
           /\ takenOn' = [takenOn EXCEPT ![day] = @ + 1]
  <2>1. UsesOn(day) = takenOn[day] /\ takenOn[day] \in Int
    BY <1>1 DEF QuietInv, MeterIsExact, DailyUsesToday, UsesOn, TypeInv, TypeOK
  <2>2. UNCHANGED <<day, month, takenIn, spentIn>>
    BY DEF ConsumeDaily
  <2>3. /\ use'[r].pc = "working" /\ use'[r].taken = day /\ use'[r].stamp = day /\ use'[r].pro
        /\ \A s \in Requests \ {r} : use'[s] = use[s]
    BY <1>2, <1>4 DEF Counted, TypeInv, TypeOK, Use
  <2>4. OfToday'
    BY <2>2, <2>3 DEF OfToday, QuietInv
  <2>5. Covered'
    <3>1. ProHolders(use') \subseteq ProHolders(use) \cup {r} /\ FreeHolders(use') \subseteq FreeHolders(use)
      BY <2>3 DEF FreeHolders, ProHolders, Holding
    <3>2. FreeHolders(use) \subseteq Requests /\ ProHolders(use) \subseteq Requests
          /\ FreeHolders(use') \subseteq Requests /\ ProHolders(use') \subseteq Requests
      BY DEF FreeHolders, ProHolders, Holding
    <3>3. /\ Cardinality(ProHolders(use')) <= Cardinality(ProHolders(use)) + 1
          /\ Cardinality(FreeHolders(use')) <= Cardinality(FreeHolders(use))
      BY <3>1, <3>2, OneMore, NoMore
    <3>4. /\ Cardinality(FreeHolders(use)) \in Nat /\ Cardinality(FreeHolders(use')) \in Nat
          /\ Cardinality(ProHolders(use)) \in Nat /\ Cardinality(ProHolders(use')) \in Nat
      BY <3>2, FewRequests
    <3>5. takenOn'[day] = takenOn[day] + 1 /\ takenIn[MonthOf[day]] \in Int
      BY <1>1, <1>4 DEF TypeInv, TypeOK
    <3> QED
      BY <2>1, <2>2, <3>3, <3>4, <3>5 DEF Covered, QuietInv
  <2>6. Untouched'
    BY <1>1, <1>4, <2>2, Calendar DEF Untouched, QuietInv, TypeInv, TypeOK
  <2>7. Limits'
    BY <1>1, <1>4, <2>1, <2>2, LimitsAssumption
    DEF Limits, MonthlyLimit, DailyLimit, RoomOnDay, QuietInv, TypeInv, TypeOK
  <2>8. MeterIsExact'
    BY <1>1, <1>4, <2>1, <2>2 DEF MeterIsExact, MessagesUsedThisMonth, CostThisMonth,
       DailyUsesToday, QuietInv, TypeInv, TypeOK
  <2> QED
    BY <2>4, <2>5, <2>6, <2>7, <2>8 DEF QuietInv
<1> QED
  BY <1>2, <1>3, <1>4 DEF ConsumeDaily

\* A message handed back: it is one of those counted, so the count is not zero.
LEMMA RefundMessageQuiet ==
  ASSUME TypeInv, TypeInv', QuietInv, NEW r \in Requests, RefundMessage(r)
  PROVE  QuietInv'
<1> DEFINE m == MonthOf[day]
<1>1. day \in Days /\ m \in Months /\ m \in Nat
  BY Calendar DEF TypeInv, TypeOK
<1>2. use[r].stamp = day /\ use[r].taken = day /\ r \in FreeHolders(use) /\ Leave(r)
  <2>1. use[r].pc = "returning" /\ ~use[r].pro /\ Leave(r)
    BY DEF RefundMessage, At
  <2>2. use[r].stamp \in Nat /\ use[r].taken \in Nat
    BY <2>1, Calendar DEF TypeInv, Stamped
  <2> QED
    BY <2>1, <2>2 DEF QuietInv, OfToday, Never, FreeHolders, Holding
<1>3. UNCHANGED <<day, daily, takenOn, spentIn>>
  BY DEF RefundMessage
<1>4. use'[r] = Idle /\ \A s \in Requests \ {r} : use'[s] = use[s]
  BY <1>2 DEF Leave, TypeInv, TypeOK
<1>5. FreeHolders(use') \subseteq FreeHolders(use) \ {r} /\ ProHolders(use') \subseteq ProHolders(use)
  BY <1>4 DEF FreeHolders, ProHolders, Holding, Idle
<1>6. FreeHolders(use) \subseteq Requests /\ ProHolders(use) \subseteq Requests
      /\ FreeHolders(use') \subseteq Requests /\ ProHolders(use') \subseteq Requests
  BY DEF FreeHolders, ProHolders, Holding
<1>7. /\ Cardinality(FreeHolders(use')) <= Cardinality(FreeHolders(use)) - 1
      /\ Cardinality(ProHolders(use')) <= Cardinality(ProHolders(use))
  BY <1>2, <1>5, <1>6, OneLess, NoMore
<1>8. /\ Cardinality(FreeHolders(use)) \in Nat /\ Cardinality(FreeHolders(use')) \in Nat
      /\ Cardinality(ProHolders(use)) \in Nat /\ Cardinality(ProHolders(use')) \in Nat
  BY <1>6, FewRequests
<1>9. takenIn[m] \in Int /\ takenOn[day] \in Int
  BY <1>1 DEF TypeInv, TypeOK
<1>10. takenIn[m] > 0
  BY <1>7, <1>8, <1>9 DEF Covered, QuietInv
<1>11. month.period = m /\ month.used = takenIn[m] /\ month.cost = spentIn[m]
  BY <1>10, <1>9 DEF QuietInv, MeterIsExact, MessagesUsedThisMonth, CostThisMonth
<1>12. month' = [month EXCEPT !.used = @ - 1] /\ takenIn' = [takenIn EXCEPT ![m] = @ - 1]
  BY <1>2, <1>10, <1>11 DEF RefundMessage
<1>13. month'.period = m /\ month'.used = takenIn[m] - 1 /\ month'.cost = spentIn[m]
       /\ takenIn'[m] = takenIn[m] - 1
  BY <1>1, <1>11, <1>12 DEF TypeInv, TypeOK
<1>14. OfToday'
  BY <1>3, <1>4 DEF OfToday, QuietInv, Idle
<1>15. Covered'
  BY <1>3, <1>7, <1>8, <1>9, <1>13 DEF Covered, QuietInv
<1>16. Untouched'
  BY <1>1, <1>3, <1>12, <1>13, Calendar DEF Untouched, QuietInv, TypeInv, TypeOK
<1>17. Limits'
  BY <1>1, <1>3, <1>9, <1>12, LimitsAssumption
  DEF Limits, MonthlyLimit, DailyLimit, QuietInv, TypeInv, TypeOK
<1>18. MeterIsExact'
  BY <1>3, <1>13 DEF MeterIsExact, MessagesUsedThisMonth, CostThisMonth, DailyUsesToday, QuietInv
<1> QED
  BY <1>14, <1>15, <1>16, <1>17, <1>18 DEF QuietInv

\* A Pro use handed back.
LEMMA RefundDailyQuiet ==
  ASSUME TypeInv, TypeInv', QuietInv, NEW r \in Requests, RefundDaily(r)
  PROVE  QuietInv'
<1>1. day \in Days /\ day \in Nat /\ MonthOf[day] \in Months
  BY Calendar DEF TypeInv, TypeOK
<1>2. use[r].stamp = day /\ use[r].taken = day /\ r \in ProHolders(use) /\ Leave(r)
  <2>1. use[r].pc = "returning" /\ use[r].pro /\ Leave(r)
    BY DEF RefundDaily, At
  <2>2. use[r].stamp \in Nat /\ use[r].taken \in Nat
    BY <2>1, Calendar DEF TypeInv, Stamped
  <2> QED
    BY <2>1, <2>2 DEF QuietInv, OfToday, Never, ProHolders, Holding
<1>3. UNCHANGED <<day, month, takenIn, spentIn>>
  BY DEF RefundDaily
<1>4. use'[r] = Idle /\ \A s \in Requests \ {r} : use'[s] = use[s]
  BY <1>2 DEF Leave, TypeInv, TypeOK
<1>5. ProHolders(use') \subseteq ProHolders(use) \ {r} /\ FreeHolders(use') \subseteq FreeHolders(use)
  BY <1>4 DEF FreeHolders, ProHolders, Holding, Idle
<1>6. FreeHolders(use) \subseteq Requests /\ ProHolders(use) \subseteq Requests
      /\ FreeHolders(use') \subseteq Requests /\ ProHolders(use') \subseteq Requests
  BY DEF FreeHolders, ProHolders, Holding
<1>7. /\ Cardinality(ProHolders(use')) <= Cardinality(ProHolders(use)) - 1
      /\ Cardinality(FreeHolders(use')) <= Cardinality(FreeHolders(use))
  BY <1>2, <1>5, <1>6, OneLess, NoMore
<1>8. /\ Cardinality(FreeHolders(use)) \in Nat /\ Cardinality(FreeHolders(use')) \in Nat
      /\ Cardinality(ProHolders(use)) \in Nat /\ Cardinality(ProHolders(use')) \in Nat
  BY <1>6, FewRequests
<1>9. takenIn[MonthOf[day]] \in Int /\ takenOn[day] \in Int
  BY <1>1 DEF TypeInv, TypeOK
<1>10. takenOn[day] > 0
  BY <1>7, <1>8, <1>9 DEF Covered, QuietInv
<1>11. daily.day = day /\ daily.used = takenOn[day]
  BY <1>10, <1>9 DEF QuietInv, MeterIsExact, DailyUsesToday
<1>12. daily' = [daily EXCEPT !.used = @ - 1] /\ takenOn' = [takenOn EXCEPT ![day] = @ - 1]
  BY <1>2, <1>10, <1>11 DEF RefundDaily
<1>13. daily'.day = day /\ daily'.used = takenOn[day] - 1 /\ takenOn'[day] = takenOn[day] - 1
  BY <1>1, <1>11, <1>12 DEF TypeInv, TypeOK
<1>14. OfToday'
  BY <1>3, <1>4 DEF OfToday, QuietInv, Idle
<1>15. Covered'
  BY <1>3, <1>7, <1>8, <1>9, <1>13 DEF Covered, QuietInv
<1>16. Untouched'
  BY <1>1, <1>3, <1>12, <1>13, Calendar DEF Untouched, QuietInv, TypeInv, TypeOK
<1>17. Limits'
  BY <1>1, <1>3, <1>9, <1>12, LimitsAssumption
  DEF Limits, MonthlyLimit, DailyLimit, QuietInv, TypeInv, TypeOK
<1>18. MeterIsExact'
  BY <1>3, <1>13 DEF MeterIsExact, MessagesUsedThisMonth, CostThisMonth, DailyUsesToday, QuietInv
<1> QED
  BY <1>14, <1>15, <1>16, <1>17, <1>18 DEF QuietInv

\* The cost of a reply: a row of an earlier month starts over.
LEMMA AddCostQuiet ==
  ASSUME TypeInv, TypeInv', QuietInv, NEW r \in Requests, AddCost(r)
  PROVE  QuietInv'
<1> DEFINE m == MonthOf[day]
<1>1. day \in Days /\ m \in Months /\ m \in Nat
  BY Calendar DEF TypeInv, TypeOK
<1>2. use[r].stamp = day /\ use[r].pc = "spending" /\ Leave(r)
  BY Calendar DEF AddCost, At, TypeInv, Stamped, QuietInv, OfToday, Never
<1>3. UNCHANGED <<day, daily, takenIn, takenOn>>
  BY DEF AddCost
<1>4. use'[r] = Idle /\ \A s \in Requests \ {r} : use'[s] = use[s]
  BY <1>2 DEF Leave, TypeInv, TypeOK
<1>5. MessagesIn(m) = takenIn[m] /\ CostIn(m) = spentIn[m] /\ spentIn[m] \in Nat
  BY <1>1 DEF QuietInv, MeterIsExact, MessagesUsedThisMonth, CostThisMonth,
     MessagesIn, CostIn, TypeInv, TypeOK
<1>6. /\ month' = [period |-> m, used |-> MessagesIn(m), cost |-> CostIn(m) + use[r].cost]
      /\ spentIn' = [spentIn EXCEPT ![m] = @ + use[r].cost]
  BY <1>2 DEF AddCost
<1>7. OfToday'
  BY <1>3, <1>4 DEF OfToday, QuietInv, Idle
<1>8. Covered'
  <2>1. FreeHolders(use') \subseteq FreeHolders(use) /\ ProHolders(use') \subseteq ProHolders(use)
    BY <1>4 DEF FreeHolders, ProHolders, Holding, Idle
  <2> QED
    BY <1>3, <2>1, CoverKept DEF QuietInv
<1>9. Untouched'
  BY <1>1, <1>3, <1>6, Calendar DEF Untouched, QuietInv, TypeInv, TypeOK
<1>10. Limits'
  BY <1>3 DEF Limits, MonthlyLimit, DailyLimit, QuietInv
<1>11. MeterIsExact'
  BY <1>1, <1>3, <1>5, <1>6 DEF MeterIsExact, MessagesUsedThisMonth, CostThisMonth,
     DailyUsesToday, QuietInv, TypeInv, TypeOK
<1> QED
  BY <1>7, <1>8, <1>9, <1>10, <1>11 DEF QuietInv

\* The next day: nobody holds anything, and a new day or month counts from zero.
LEMMA NextDayQuiet ==
  ASSUME TypeInv, TypeInv', QuietInv, QuietMidnight, NextDay
  PROVE  QuietInv'
<1>1. day \in Days /\ day' \in Days /\ day' = day + 1
  BY DEF NextDay, TypeInv, TypeOK
<1>2. /\ day \in Nat /\ day <= day'
      /\ MonthOf[day] \in Months /\ MonthOf[day'] \in Months
      /\ MonthOf[day] \in Nat /\ MonthOf[day'] \in Nat
      /\ MonthOf[day] <= MonthOf[day']
  <2>1. day \in Nat /\ day <= day'
    BY <1>1, Calendar
  <2>2. MonthOf[day] \in Months /\ MonthOf[day'] \in Months
    BY <1>1, Calendar
  <2>3. MonthOf[day] <= MonthOf[day']
    BY <1>1, <2>1, Calendar
  <2> QED
    BY <2>1, <2>2, <2>3, Calendar
<1>3. UNCHANGED <<month, daily, use, takenIn, takenOn, spentIn>>
  BY DEF NextDay, rowVars, history
<1>4. \A r \in Requests : use[r].pc = "idle"
  BY DEF NextDay, At
<1>5. OfToday'
  BY <1>3, <1>4 DEF OfToday, TypeInv, Stamped
<1>6. FreeHolders(use') = {} /\ ProHolders(use') = {}
  BY <1>3, <1>4 DEF FreeHolders, ProHolders, Holding
<1>7. Untouched'
  BY <1>1, <1>2, <1>3, Calendar DEF Untouched, QuietInv
<1>8. Limits'
  BY <1>3 DEF Limits, MonthlyLimit, DailyLimit, QuietInv
<1>9. MeterIsExact' /\ takenOn[day'] = 0 /\ takenIn[MonthOf[day']] >= 0
  <2>1. takenOn[day'] = 0 /\ daily.day # day'
    BY <1>1, <1>2 DEF Untouched, QuietInv
  <2>2. CASE MonthOf[day'] = MonthOf[day]
    <3>1. takenIn[MonthOf[day]] >= 0
      BY <1>2 DEF QuietInv, MeterIsExact, MessagesUsedThisMonth, TypeInv, TypeOK
    <3> QED
      BY <1>3, <2>1, <2>2, <3>1 DEF QuietInv, MeterIsExact, MessagesUsedThisMonth,
         CostThisMonth, DailyUsesToday
  <2>3. CASE MonthOf[day'] > MonthOf[day]
    <3>1. takenIn[MonthOf[day']] = 0 /\ spentIn[MonthOf[day']] = 0 /\ month.period # MonthOf[day']
      BY <1>2, <2>3 DEF Untouched, QuietInv
    <3> QED
      BY <1>3, <2>1, <3>1 DEF MeterIsExact, MessagesUsedThisMonth, CostThisMonth, DailyUsesToday
  <2> QED
    BY <1>2, <2>2, <2>3
<1>10. Covered'
  BY <1>3, <1>6, <1>9, FS_EmptySet DEF Covered
<1> QED
  BY <1>5, <1>7, <1>8, <1>9, <1>10 DEF QuietInv

LEMMA NextQuiet ==
  ASSUME TypeInv, TypeInv', QuietInv, QuietMidnight, [Next]_vars
  PROVE  QuietInv'
<1>1. ASSUME NEW r \in Requests, Handle(r) PROVE QuietInv'
  BY <1>1, UncountedQuiet, ConsumeMessageQuiet, ConsumeDailyQuiet, RefundMessageQuiet,
     RefundDailyQuiet, AddCostQuiet DEF Handle
<1>2. CASE UNCHANGED <<day, rowVars, use, history>>
  <2>1. UNCHANGED <<day, month, daily, use, takenIn, takenOn, spentIn>>
    BY <1>2 DEF rowVars, history
  <2>2. Covered' = Covered /\ OfToday' = OfToday
    BY <2>1 DEF Covered, OfToday, FreeHolders, ProHolders, Holding
  <2> QED
    BY <2>1, <2>2 DEF QuietInv, Untouched, Limits, MonthlyLimit, DailyLimit,
       MeterIsExact, MessagesUsedThisMonth, CostThisMonth, DailyUsesToday
<1>3. CASE NextDay
  BY <1>3, NextDayQuiet
<1> QED
  BY <1>1, <1>2, <1>3 DEF Next, PlanChanges, vars

LEMMA InitIInv == Init => IInv
BY InitTypeInv, InitQuiet DEF IInv

LEMMA NextIInv == IInv /\ [Next]_vars => IInv'
BY NextTypes, NextQuiet, QuietAssumption DEF IInv

\* However many requests run at once and whatever the plan becomes meanwhile, no
\* month has more free messages and no day more Pro uses of an endpoint than the
\* plan allows, refunds and late ones included.
THEOREM UsesAreLimited == QuietMidnight => (Spec => []Limits)
<1>1. IInv /\ QuietMidnight => Limits
  BY DEF IInv, QuietInv
<1> SUFFICES ASSUME QuietMidnight PROVE Spec => []Limits
  OBVIOUS
<1>2. IInv => Limits
  BY <1>1
<1> QED
  BY <1>2, InitIInv, NextIInv, PTL DEF Spec

\* The counts an account reads are what it really took and what it really cost.
THEOREM CountsAreExact == QuietMidnight => (Spec => []MeterIsExact)
<1> SUFFICES ASSUME QuietMidnight PROVE Spec => []MeterIsExact
  OBVIOUS
<1>1. IInv => MeterIsExact
  BY DEF IInv, QuietInv
<1> QED
  BY <1>1, InitIInv, NextIInv, PTL DEF Spec

-----------------------------------------------------------------------------
(* The row is an allowance: every step of a request is one of its steps, or none. *)

Hand(u) == IF u.pc \notin {"working", "returning", "spending"} THEN "none"
           ELSE IF u.pro THEN "use" ELSE "message"
Reads == <<day, MessagesUsedThisMonth, DailyUsesToday, CostThisMonth>>

\* What a user reads.
LEMMA ReadBack ==
  ASSUME IInv, QuietMidnight
  PROVE  /\ day \in Days /\ MonthOf[day] \in Months
         /\ MessagesUsedThisMonth = takenIn[MonthOf[day]] /\ DailyUsesToday = takenOn[day]
         /\ CostThisMonth = spentIn[MonthOf[day]]
         /\ takenIn[MonthOf[day]] \in Int /\ takenOn[day] \in Int /\ spentIn[MonthOf[day]] \in Nat
<1>1. day \in Days /\ MonthOf[day] \in Months
  BY Calendar DEF IInv, TypeInv, TypeOK
<1> QED
  BY <1>1 DEF IInv, QuietInv, MeterIsExact, TypeInv, TypeOK

\* Only what the request itself has in hand changes.
LEMMA HandMoves ==
  ASSUME NEW r \in Requests, use \in [Requests -> Use], use' \in [Requests -> Use],
         \A s \in Requests \ {r} : use'[s] = use[s]
  PROVE  \A what : what = Hand(use'[r]) => A!Hands(r, what)
<1> DEFINE hand == [s \in Requests |-> Hand(use[s])]
<1>1. [s \in Requests |-> Hand(use'[s])] = [hand EXCEPT ![r] = Hand(use'[r])]
  OBVIOUS
<1> QED
  BY <1>1 DEF A!Hands, Hand

\* A request's step, as far as what it has in hand goes.
LEMMA HandSteps ==
  ASSUME IInv, IInv', NEW r \in Requests, Handle(r)
  PROVE  /\ day' = day /\ \A what : what = Hand(use'[r]) => A!Hands(r, what)
         /\ Leave(r) => Hand(use'[r]) = "none"
         /\ Counted(r) => Hand(use'[r]) = IF use[r].pro THEN "use" ELSE "message"
<1>1. use \in [Requests -> Use] /\ use' \in [Requests -> Use]
  BY DEF IInv, TypeInv, TypeOK
<1>2. \A s \in Requests \ {r} : use'[s] = use[s]
  BY <1>1 DEF Handle, Admit, Stamp, ConsumeMessage, ConsumeDaily, Reply, Reject, RefundMessage,
     RefundDaily, AddCost, Die, Leave, Counted
<1>3. day' = day
  BY DEF Handle, Admit, Stamp, ConsumeMessage, ConsumeDaily, Reply, Reject, RefundMessage,
     RefundDaily, AddCost, Die
<1>4. \A what : what = Hand(use'[r]) => A!Hands(r, what)
  BY <1>1, <1>2, HandMoves
<1>5. Leave(r) => Hand(use'[r]) = "none"
  BY <1>1 DEF Leave, Hand, Idle
<1>6. Counted(r) => Hand(use'[r]) = IF use[r].pro THEN "use" ELSE "message"
  BY <1>1 DEF Counted, Hand, Use
<1> QED
  BY <1>3, <1>4, <1>5, <1>6

\* A step that changes neither the row nor what is in hand, or drops it.
LEMMA QuietMaps ==
  ASSUME IInv, IInv', NEW r \in Requests, Handle(r), UNCHANGED <<month, daily>>,
         Hand(use'[r]) \in {Hand(use[r]), "none"}
  PROVE  A!Keep(r) \/ UNCHANGED A!promised
<1>1. day' = day /\ \A what : what = Hand(use'[r]) => A!Hands(r, what)
  BY HandSteps
<1>2. UNCHANGED Reads
  BY <1>1 DEF Reads, MessagesUsedThisMonth, DailyUsesToday, CostThisMonth
<1>3. CASE Hand(use'[r]) = Hand(use[r])
  <2> DEFINE hand == [s \in Requests |-> Hand(use[s])]
  <2>1. hand' = [hand EXCEPT ![r] = hand[r]]
    BY <1>1, <1>3 DEF A!Hands, Hand
  <2>2. hand' = hand
    BY <2>1
  <2> QED
    BY <1>2, <2>2 DEF A!promised, A!counts, Reads, Hand
<1>4. CASE Hand(use[r]) # "none" /\ Hand(use'[r]) = "none"
  <2>1. A!Hands(r, "none")
    BY <1>1, <1>4
  <2>2. [s \in Requests |-> Hand(use[s])][r] # "none"
    BY <1>4
  <2> QED
    BY <1>2, <2>1, <2>2 DEF A!Keep, A!counts, Reads, Hand
<1> QED
  BY <1>3, <1>4

LEMMA TakeMaps ==
  ASSUME IInv, IInv', QuietMidnight, NEW r \in Requests, ConsumeMessage(r) \/ ConsumeDaily(r)
  PROVE  A!TakeMessage(r) \/ A!TakeUse(r) \/ UNCHANGED A!promised
<1>1. /\ use[r].stamp = day /\ Hand(use[r]) = "none"
      /\ [s \in Requests |-> Hand(use[s])][r] = "none"
  BY Calendar DEF ConsumeMessage, ConsumeDaily, At, IInv, TypeInv, Stamped, QuietInv, OfToday, Never,
     Hand
<1>2. /\ MessagesIn(MonthOf[day]) = MessagesUsedThisMonth /\ CostIn(MonthOf[day]) = CostThisMonth
      /\ UsesOn(day) = DailyUsesToday
  BY DEF MessagesIn, CostIn, UsesOn, MessagesUsedThisMonth, CostThisMonth, DailyUsesToday
<1>3. day' = day /\ \A what : what = Hand(use'[r]) => A!Hands(r, what)
  BY HandSteps DEF Handle
<1>4. CASE Leave(r) /\ UNCHANGED <<month, daily>>
  <2>1. Hand(use'[r]) = Hand(use[r])
    BY <1>1, <1>4, HandSteps DEF Handle
  <2>2. A!Keep(r) \/ UNCHANGED A!promised
    BY <1>4, <2>1, QuietMaps DEF Handle
  <2> QED
    BY <1>1, <2>2 DEF A!Keep, Hand
<1>5. CASE /\ ConsumeMessage(r) /\ RoomInMonth(MonthOf[day]) /\ Counted(r)
           /\ month' = [period |-> MonthOf[day], used |-> MessagesIn(MonthOf[day]) + 1,
                        cost |-> CostIn(MonthOf[day])]
  <2>1. /\ MessagesUsedThisMonth < FreeLimit /\ UNCHANGED <<day, daily>>
        /\ month' = [period |-> MonthOf[day], used |-> MessagesUsedThisMonth + 1,
                     cost |-> CostThisMonth]
    BY <1>2, <1>5 DEF ConsumeMessage, RoomInMonth
  <2>2. Hand(use'[r]) = "message"
    BY <1>5, HandSteps DEF Handle, ConsumeMessage
  <2>3. /\ MessagesUsedThisMonth' = MessagesUsedThisMonth + 1 /\ CostThisMonth' = CostThisMonth
        /\ DailyUsesToday' = DailyUsesToday
    BY <2>1 DEF MessagesUsedThisMonth, CostThisMonth, DailyUsesToday
  <2>4. A!Hands(r, "message")
    BY <1>3, <2>2
  <2> QED
    BY <1>1, <2>1, <2>3, <2>4 DEF A!TakeMessage, Hand
<1>6. CASE /\ ConsumeDaily(r) /\ RoomOnDay(day) /\ Counted(r)
           /\ daily' = [day |-> day, used |-> UsesOn(day) + 1]
  <2>1. /\ DailyUsesToday < ProLimit /\ UNCHANGED <<day, month>>
        /\ daily' = [day |-> day, used |-> DailyUsesToday + 1]
    BY <1>2, <1>6 DEF ConsumeDaily, RoomOnDay
  <2>2. Hand(use'[r]) = "use"
    BY <1>6, HandSteps DEF Handle, ConsumeDaily
  <2>3. /\ DailyUsesToday' = DailyUsesToday + 1 /\ CostThisMonth' = CostThisMonth
        /\ MessagesUsedThisMonth' = MessagesUsedThisMonth
    BY <2>1 DEF MessagesUsedThisMonth, CostThisMonth, DailyUsesToday
  <2>4. A!Hands(r, "use")
    BY <1>3, <2>2
  <2> QED
    BY <1>1, <2>1, <2>3, <2>4 DEF A!TakeUse, Hand
<1> QED
  BY <1>1, <1>4, <1>5, <1>6 DEF ConsumeMessage, ConsumeDaily

\* What is given back was counted today.
LEMMA ReturnMaps ==
  ASSUME IInv, IInv', QuietMidnight, NEW r \in Requests, RefundMessage(r) \/ RefundDaily(r)
  PROVE  A!GiveBack(r)
<1>1. /\ use[r].pc = "returning" /\ use[r].stamp = day /\ Leave(r) /\ day' = day
      /\ day \in Days /\ MonthOf[day] \in Months
  BY Calendar DEF RefundMessage, RefundDaily, At, IInv, TypeInv, TypeOK, Stamped, QuietInv, OfToday,
     Never
<1>2. A!Hands(r, "none")
  BY <1>1, HandSteps DEF Handle
<1>3. FreeHolders(use) \subseteq Requests /\ ProHolders(use) \subseteq Requests
  BY DEF FreeHolders, ProHolders, Holding
<1>4. CASE RefundMessage(r)
  <2>1. r \in FreeHolders(use) /\ Hand(use[r]) = "message"
    BY <1>1, <1>4 DEF RefundMessage, FreeHolders, Holding, Hand
  <2>2. takenIn[MonthOf[day]] > 0
    <3>1. Cardinality(FreeHolders(use)) >= 1
      BY <1>3, <2>1, OneLess, FewRequests, FS_EmptySet
    <3> QED
      BY <3>1, <1>3, FewRequests, ReadBack DEF IInv, QuietInv, Covered
  <2>3. MessagesUsedThisMonth > 0
    BY <2>2, ReadBack
  <2>4. /\ month' = [month EXCEPT !.used = @ - 1] /\ month.period = MonthOf[day]
        /\ UNCHANGED <<day, daily>>
    BY <1>1, <1>4, <2>3 DEF RefundMessage, MessagesUsedThisMonth
  <2>5. /\ MessagesUsedThisMonth' = MessagesUsedThisMonth - 1 /\ CostThisMonth' = CostThisMonth
        /\ DailyUsesToday' = DailyUsesToday /\ DailyUsesToday \in Int
    <3>1. month \in [period : Months \cup {Never}, used : 0..FreeLimit, cost : Nat]
      BY DEF IInv, TypeInv, TypeOK
    <3> QED
      BY <2>4, <3>1, ReadBack DEF MessagesUsedThisMonth, CostThisMonth, DailyUsesToday
  <2>6. [s \in Requests |-> Hand(use[s])][r] = "message"
    BY <2>1
  <2> QED
    BY <1>2, <2>4, <2>5, <2>6 DEF A!GiveBack, Hand
<1>5. CASE RefundDaily(r)
  <2>1. r \in ProHolders(use) /\ Hand(use[r]) = "use"
    BY <1>1, <1>5 DEF RefundDaily, ProHolders, Holding, Hand
  <2>2. takenOn[day] > 0
    <3>1. Cardinality(ProHolders(use)) >= 1
      BY <1>3, <2>1, OneLess, FewRequests, FS_EmptySet
    <3> QED
      BY <3>1, <1>3, FewRequests, ReadBack DEF IInv, QuietInv, Covered
  <2>3. DailyUsesToday > 0
    BY <2>2, ReadBack
  <2>4. daily' = [daily EXCEPT !.used = @ - 1] /\ daily.day = day /\ UNCHANGED <<day, month>>
    BY <1>1, <1>5, <2>3 DEF RefundDaily, DailyUsesToday
  <2>5. /\ DailyUsesToday' = DailyUsesToday - 1 /\ CostThisMonth' = CostThisMonth
        /\ MessagesUsedThisMonth' = MessagesUsedThisMonth /\ MessagesUsedThisMonth \in Int
    <3>1. daily \in [day : Days \cup {Never}, used : 0..ProLimit]
      BY DEF IInv, TypeInv, TypeOK
    <3> QED
      BY <2>4, <3>1, ReadBack DEF MessagesUsedThisMonth, CostThisMonth, DailyUsesToday
  <2>6. [s \in Requests |-> Hand(use[s])][r] = "use"
    BY <2>1
  <2> QED
    BY <1>2, <2>4, <2>5, <2>6 DEF A!GiveBack, Hand
<1> QED
  BY <1>4, <1>5

\* The first reply of a month starts its cost over, and finds no message to forget.
LEMMA SpendMaps ==
  ASSUME IInv, IInv', QuietMidnight, NEW r \in Requests, AddCost(r)
  PROVE  A!Spend(r)
<1>1. /\ use[r].pc = "spending" /\ use[r].stamp = day /\ Leave(r) /\ UNCHANGED <<day, daily>>
      /\ use[r].cost \in Costs
  BY Calendar DEF AddCost, At, IInv, TypeInv, Stamped, QuietInv, OfToday, Never
<1>2. A!Hands(r, "none")
  BY <1>1, HandSteps DEF Handle
<1>3. month' = [period |-> MonthOf[day], used |-> MessagesUsedThisMonth,
                cost |-> CostThisMonth + use[r].cost]
  BY <1>1 DEF AddCost, MessagesIn, CostIn, MessagesUsedThisMonth, CostThisMonth
<1>4. /\ MessagesUsedThisMonth' = MessagesUsedThisMonth
      /\ CostThisMonth' = CostThisMonth + use[r].cost /\ DailyUsesToday' = DailyUsesToday
  BY <1>1, <1>3 DEF MessagesUsedThisMonth, CostThisMonth, DailyUsesToday
<1>5. [s \in Requests |-> Hand(use[s])][r] # "none"
  BY <1>1 DEF Hand
<1> QED
  BY <1>1, <1>2, <1>4, <1>5 DEF A!Spend, Hand

\* Midnight makes the counts zero, though it writes no row.
LEMMA NextDayMaps ==
  ASSUME IInv, IInv', QuietMidnight, NextDay
  PROVE  A!NextDay
<1>1. /\ day < LastDay /\ day' = day + 1 /\ UNCHANGED <<month, daily, use, takenIn, takenOn, spentIn>>
      /\ \A r \in Requests : use[r].pc = "idle"
  BY DEF NextDay, rowVars, history, At
<1>2. day \in Days /\ day' \in Days /\ day' > day /\ MonthOf[day] <= MonthOf[day']
  BY <1>1, Calendar DEF IInv, TypeInv, TypeOK
<1>3. MonthOf[day] \in Nat /\ MonthOf[day'] \in Months /\ MonthOf[day'] \in Nat
  BY <1>2, Calendar
<1>4. daily.day # day' /\ (MonthOf[day'] # MonthOf[day] => month.period # MonthOf[day'])
  BY <1>2, <1>3 DEF IInv, QuietInv, Untouched
<1>5. /\ DailyUsesToday' = 0
      /\ IF MonthOf[day'] = MonthOf[day]
         THEN UNCHANGED <<MessagesUsedThisMonth, CostThisMonth>>
         ELSE MessagesUsedThisMonth' = 0 /\ CostThisMonth' = 0
  BY <1>1, <1>4 DEF DailyUsesToday, MessagesUsedThisMonth, CostThisMonth
<1>6. \A r \in Requests : [s \in Requests |-> Hand(use[s])][r] = "none"
  BY <1>1 DEF Hand
<1> QED
  BY <1>1, <1>5, <1>6 DEF A!NextDay, Hand

LEMMA InitMaps == Init => A!Init
BY DEF Init, A!Init, MessagesUsedThisMonth, DailyUsesToday, CostThisMonth, Idle, Never

LEMMA NextMaps == QuietMidnight /\ IInv /\ IInv' /\ [Next]_vars => [A!Next]_A!promised
<1> SUFFICES ASSUME QuietMidnight, IInv, IInv', [Next]_vars PROVE A!Next \/ UNCHANGED A!promised
  OBVIOUS
<1>1. ASSUME NEW r \in Requests, Admit(r) \/ Stamp(r) \/ Reply(r) \/ Reject(r) \/ Die(r)
      PROVE  A!Keep(r) \/ UNCHANGED A!promised
  <2>1. Hand(use'[r]) \in {Hand(use[r]), "none"}
    <3>1. use \in [Requests -> Use]
      BY DEF IInv, TypeInv, TypeOK
    <3>2. CASE Admit(r) \/ Stamp(r)
      <4>1. use[r].pc \in {"idle", "admitted"}
        BY <3>2 DEF Admit, Stamp, At
      <4>2. Admit(r) => use'[r].pc = "admitted"
        BY <3>1 DEF Admit, Idle
      <4>3. Stamp(r) => use'[r].pc = "taking"
        BY <3>1 DEF Stamp
      <4> QED
        BY <3>2, <4>1, <4>2, <4>3 DEF Hand
    <3>3. CASE Leave(r)
      BY <3>1, <3>3 DEF Leave, Hand, Idle
    <3>4. CASE Reply(r) /\ ~Leave(r)
      <4>1. PICK c \in Costs :
              use' = [use EXCEPT ![r].pc = "spending", ![r].cost = c, ![r].stamp = day]
        BY <3>4 DEF Reply
      <4>2. use'[r].pc = "spending" /\ use'[r].pro = use[r].pro
        BY <3>1, <4>1 DEF Use
      <4>3. use[r].pc = "working"
        BY <3>4 DEF Reply, At
      <4> QED
        BY <4>2, <4>3 DEF Hand
    <3>5. CASE Reject(r)
      <4>1. use'[r].pc = "returning" /\ use'[r].pro = use[r].pro /\ use[r].pc = "working"
        BY <3>1, <3>5 DEF Reject, At, Use
      <4> QED
        BY <4>1 DEF Hand
    <3> QED
      BY <1>1, <3>2, <3>3, <3>4, <3>5 DEF Die
  <2>2. UNCHANGED <<month, daily>>
    BY <1>1 DEF Admit, Stamp, Reply, Reject, Die, rowVars
  <2> QED
    BY <1>1, <2>1, <2>2, QuietMaps DEF Handle
<1>2. ASSUME NEW r \in Requests, Handle(r) PROVE A!Next \/ UNCHANGED A!promised
  BY <1>1, <1>2, TakeMaps, ReturnMaps, SpendMaps DEF Handle, A!Next
<1>3. CASE UNCHANGED <<day, rowVars, use>>
  BY <1>3 DEF A!promised, A!counts, rowVars, MessagesUsedThisMonth, DailyUsesToday, CostThisMonth
<1> QED
  BY <1>2, <1>3, NextDayMaps DEF Next, PlanChanges, vars, A!Next

\* What a user reads of the row changes as an allowance does, for any number of
\* requests, limits, costs and months: the UPDATEs of usage_service take a use at one
\* moment and under the limit, give back only what was taken, and a row that nobody
\* wrote since last month counts as nothing.
THEOREM MeterImplementsAllowance == QuietMidnight => (Spec => MeterIsAllowance)
<1> SUFFICES ASSUME QuietMidnight PROVE Spec => MeterIsAllowance
  OBVIOUS
<1>1. IInv /\ IInv' /\ [Next]_vars => [A!Next]_A!promised
  BY NextMaps
<1> QED
  BY <1>1, InitMaps, InitIInv, NextIInv, PTL DEF Spec, MeterIsAllowance, A!Spec

=============================================================================
