----------------------------- MODULE Placement -----------------------------
(***************************************************************************)
(* What a plan of focus blocks promises, whoever makes it: a block lies in *)
(* work time, and never on anything the planner knows to be taken nor on   *)
(* another block of the same plan.  Module Planner implements it.          *)
(***************************************************************************)
EXTENDS Integers

CONSTANTS Planners,  \* plans that can be made at the same time
          Blocks,    \* records with the fields from and to
          WorkTime   \* the instants at which the user works

VARIABLES taken,  \* the time each planner knows to be taken
          plan    \* the blocks each planner has chosen so far

Overlaps(a, b) == a.from < b.to /\ b.from < a.to
InWorkTime(b) == \A t \in b.from..(b.to - 1) : t \in WorkTime

Nothing == [p \in Planners |-> {}]
Init == taken = Nothing /\ plan = Nothing

\* A new plan, knowing what is taken.
Begin(p) ==
    /\ plan[p] = {}
    /\ taken'[p] \subseteq Blocks
    /\ taken' = [taken EXCEPT ![p] = taken'[p]]
    /\ UNCHANGED plan

\* One more block, where nothing is.
Place(p) ==
    /\ \E b \in plan'[p] \ plan[p] :
        /\ b \in Blocks /\ b.from < b.to /\ InWorkTime(b)
        /\ \A x \in taken[p] \cup plan[p] : ~Overlaps(b, x)
        /\ plan' = [plan EXCEPT ![p] = @ \cup {b}]
    /\ UNCHANGED taken

\* The plan is stored or given up.
End(p) ==
    /\ plan' = [plan EXCEPT ![p] = {}]
    /\ taken' = [taken EXCEPT ![p] = {}]

Next == \E p \in Planners : Begin(p) \/ Place(p) \/ End(p)

Spec == Init /\ [][Next]_<<taken, plan>>
=============================================================================
