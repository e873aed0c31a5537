--------------------------- MODULE BillingProofs ---------------------------
(***************************************************************************)
(* Billing keeps its types, and only duplicates are refunded, for any      *)
(* number of requests, workers and subscriptions, whatever fails and       *)
(* however the webhooks arrive.  While no call is lost every duplicate     *)
(* that was charged is refunded too; checkouts alone never leave two       *)
(* payments open; and one request at a time gives the plan that Stripe's   *)
(* subscriptions earned.                                                   *)
(***************************************************************************)
EXTENDS Billing, FiniteSetTheorems, WellFoundedInduction, TLAPS

\* Where a request is tells what it already knows.
WellPlaced(r) ==
    /\ r.pc \in {"retrieve", "cancelAtStripe"} => r.mem.sub # NoSub
    /\ r.pc \in {"load", "adopt", "apply", "list", "reuse", "cancelStale",
                 "respond", "undo", "refund", "save"} => r.sub # NoSub
    /\ r.pc \in {"undo", "refund"} => r.extras # {}
    /\ r.pc = "list" => GrantsAccess(r.snap)
    /\ r.kind = "event" => r.sub # NoSub

\* What it knows was true: access it saw was given, and a duplicate it is
\* about to undo has an older subscription that gave access.
HasElder(i, granted) == \E j \in granted : j < i
Grounded(r, granted) ==
    /\ GrantsAccess(r.snap) => r.sub \in granted
    /\ \A i \in r.extras : HasElder(i, granted)
RequestOK(r, granted) == r \in Request /\ WellPlaced(r) /\ Grounded(r, granted)

StripeInv ==
    /\ subs \in [SubIds -> Subscription]
    /\ events \subseteq SubIds
    /\ everGranted \subseteq SubIds
    /\ \A i \in SubIds : GrantsAccess(subs[i]) => i \in everGranted
RequestInv ==
    /\ req \in [Procs -> Request]
    /\ \A p \in Procs : RequestOK(req[p], everGranted)
LockInv ==
    /\ rowLock \in Procs \cup {NoProc}
    /\ hostLock \in [Hosts -> Procs \cup {NoProc}]
RestInv ==
    /\ charged \subseteq SubIds /\ shown \subseteq SubIds /\ undone \subseteq SubIds
    /\ row \in Row
    /\ trialCache \in {"none", "days", "zero"}
    /\ failures \in 0..MaxFailures
RefundInv == refunded \subseteq SubIds /\ \A i \in refunded : HasElder(i, everGranted)
IInv == StripeInv /\ RequestInv /\ LockInv /\ RestInv /\ RefundInv

-----------------------------------------------------------------------------
(* Least elements *)

\* Every nonempty set of naturals has a least element.
LEMMA HasLeast ==
  ASSUME NEW S \in SUBSET Nat, S # {}
  PROVE  \E i \in S : \A j \in S : i <= j
<1>1. \E x \in S : \A y \in S : ~ (<<y, x>> \in OpToRel(<, Nat))
  BY WFMin, NatLessThanWellFounded, Zenon
<1>2. ASSUME NEW x \in S, NEW y \in S, ~ (<<y, x>> \in OpToRel(<, Nat))
      PROVE  x <= y
  <2>1. <<y, x>> \in Nat \X Nat
    OBVIOUS
  <2>2. ~(y < x)
    BY <1>2, <2>1 DEF OpToRel
  <2> QED
    BY <2>2
<1> QED
  BY <1>1, <1>2, Zenon

\* Oldest picks an element that no other precedes.
LEMMA OldestIsLeast ==
  ASSUME NEW S \in SUBSET SubIds, S # {}
  PROVE  Oldest(S) \in S /\ \A j \in S : Oldest(S) <= j
<1>1. S \in SUBSET Nat
  BY BoundsAssumption DEF SubIds
<1>2. \E i \in S : \A j \in S : i <= j
  BY <1>1, HasLeast
<1> QED
  BY <1>2 DEF Oldest

\* NextId is a subscription that does not exist yet.
LEMMA NextIdIsNew ==
  ASSUME CanCreate, StripeInv
  PROVE  NextId \in SubIds /\ subs[NextId].status = "none"
<1> DEFINE New == {i \in SubIds : subs[i].status = "none"}
<1>1. New \in SUBSET Nat /\ New # {}
  BY BoundsAssumption DEF SubIds, CanCreate
<1>2. \E i \in New : \A j \in New : i <= j
  BY <1>1, HasLeast
<1> QED
  BY <1>2 DEF NextId

-----------------------------------------------------------------------------
(* The building blocks *)

\* Records the code starts from are well typed.
LEMMA ConstantTypes ==
  /\ AnyPlan \in Plans
  /\ Uncreated \in Subscription
  /\ ~GrantsAccess(Uncreated)
  /\ FreeRow \in Row
<1>1. AnyPlan \in Plans
  BY PlansAssumption DEF AnyPlan
<1> QED
  BY <1>1 DEF Uncreated, Subscription, Statuses, GrantsAccess, Access, FreeRow, Row

LEMMA IdleIsOK == ASSUME NEW granted PROVE RequestOK(IdleRequest, granted)
  BY ConstantTypes DEF IdleRequest, RequestOK, WellPlaced, Grounded, Request,
     Locations, NoSub

\* More subscriptions that gave access invalidate nothing a request knows.
LEMMA Monotone ==
  ASSUME NEW r, NEW g, NEW h, g \subseteq h, RequestOK(r, g)
  PROVE  RequestOK(r, h)
  BY DEF RequestOK, Grounded, HasElder

\* A change at Stripe keeps its invariant and never forgets an access.
LEMMA StripeStep ==
  ASSUME StripeInv, NEW i \in SubIds, NEW s \in Subscription, StripeChanges(i, s)
  PROVE  /\ StripeInv' /\ everGranted \subseteq everGranted'
         /\ GrantsAccess(s) => i \in everGranted'
  BY DEF StripeInv, StripeChanges

\* A request that moves to a sound record leaves all of them sound.
LEMMA ContinueStep ==
  ASSUME RequestInv, LockInv, NEW p \in Procs, NEW r,
         RequestOK(r, everGranted'), everGranted \subseteq everGranted',
         req' = [req EXCEPT ![p] = r]
  PROVE  RequestInv'
  BY Monotone DEF RequestInv, RequestOK

\* So does one that ends, and the locks stay typed.
LEMMA EndStep ==
  ASSUME RequestInv, LockInv, NEW p \in Procs, everGranted \subseteq everGranted', End(p)
  PROVE  RequestInv' /\ LockInv'
<1>1. RequestInv'
  <2>1. RequestOK(IdleRequest, everGranted')
    BY IdleIsOK
  <2> QED
    BY <2>1, ContinueStep DEF End
<1>2. LockInv'
  BY DEF LockInv, End, ReleaseLocks, ReleaseRow
<1> QED
  BY <1>1, <1>2

\* The same for a request that only moves on.
LEMMA MoveStep ==
  ASSUME RequestInv, LockInv, NEW p \in Procs, NEW r, Continue(p, r),
         RequestOK(r, everGranted'), everGranted \subseteq everGranted'
  PROVE  RequestInv' /\ LockInv'
<1>1. RequestInv'
  BY ContinueStep DEF Continue
<1>2. LockInv'
  BY DEF LockInv, Continue, lockVars
<1> QED
  BY <1>1, <1>2

\* Stripe's variables untouched, nothing is forgotten.
LEMMA QuietStripe ==
  ASSUME StripeInv, UNCHANGED stripeVars
  PROVE  StripeInv' /\ everGranted' = everGranted
  BY DEF StripeInv, stripeVars

\* A refund stays justified while no access is forgotten.
LEMMA QuietRefunds ==
  ASSUME RefundInv, everGranted \subseteq everGranted', UNCHANGED refunded
  PROVE  RefundInv'
  BY DEF RefundInv, HasElder

\* The request record of a process, as the invariant describes it.
LEMMA ReqOK ==
  ASSUME RequestInv, NEW p \in Procs
  PROVE  RequestOK(req[p], everGranted) /\ req[p] \in Request
  BY DEF RequestInv

\* Loading the row keeps what the request knows of Stripe.
LEMMA LoadedOK ==
  ASSUME RestInv, RequestInv, NEW p \in Procs, NEW loc \in Locations, NEW kind,
         kind \in {"status", "cancel"},
         loc \in {"retrieve", "cancelAtStripe"} => row.sub # NoSub,
         loc \in {"hostLock", "rowLock", "trial", "retrieve", "cancelAtStripe"}
  PROVE  /\ RequestOK([Loaded(p) EXCEPT !.pc = loc], everGranted)
         /\ RequestOK([Loaded(p) EXCEPT !.kind = kind, !.pc = loc], everGranted)
<1>1. row \in Row
  BY DEF RestInv
<1> QED
  BY ReqOK, <1>1 DEF Loaded, RequestOK, WellPlaced, Grounded, Request

-----------------------------------------------------------------------------
(* The checkout *)

LEMMA StartCheckoutStep ==
  ASSUME IInv, NEW p \in Procs, NEW plan \in Plans, StartCheckout(p, plan)
  PROVE  IInv'
<1> DEFINE r == [IdleRequest EXCEPT !.pc = "hostLock", !.kind = "checkout", !.plan = plan]
<1>1. StripeInv' /\ everGranted' = everGranted
  BY QuietStripe DEF IInv, StartCheckout
<1>2. RequestOK(r, everGranted')
  BY IdleIsOK, ConstantTypes
     DEF IdleRequest, RequestOK, WellPlaced, Grounded, Request, Locations
<1>3. RequestInv' /\ LockInv'
  BY <1>1, <1>2, MoveStep DEF IInv, StartCheckout
<1>4. RestInv' /\ RefundInv'
  BY <1>1, QuietRefunds DEF IInv, StartCheckout, RestInv, stripeVars
<1> QED
  BY <1>1, <1>3, <1>4 DEF IInv

LEMMA AcquireHostLockStep ==
  ASSUME IInv, NEW p \in Procs, AcquireHostLock(p)
  PROVE  IInv'
<1>1. StripeInv' /\ everGranted' = everGranted
  BY QuietStripe DEF IInv, AcquireHostLock
<1>2. RequestOK([req[p] EXCEPT !.pc = "rowLock"], everGranted')
  BY <1>1, ReqOK DEF IInv, RequestOK, WellPlaced, Grounded, Request, Locations
<1>3. req' = [req EXCEPT ![p] = [req[p] EXCEPT !.pc = "rowLock"]]
  BY DEF AcquireHostLock, IInv, RequestInv
<1>4. RequestInv'
  BY <1>1, <1>2, <1>3, ContinueStep DEF IInv
<1>5. LockInv'
  BY HostAssumption DEF IInv, LockInv, AcquireHostLock
<1>6. RestInv' /\ RefundInv'
  BY <1>1, QuietRefunds DEF IInv, AcquireHostLock, RestInv, stripeVars
<1> QED
  BY <1>1, <1>4, <1>5, <1>6 DEF IInv

LEMMA LockUserStep ==
  ASSUME IInv, NEW p \in Procs, LockUser(p)
  PROVE  IInv'
<1>1. StripeInv' /\ everGranted' = everGranted
  BY QuietStripe DEF IInv, LockUser
<1>2. RequestInv' /\ LockInv'
  <2>1. CASE End(p)
    BY <2>1, <1>1, EndStep DEF IInv
  <2>2. CASE /\ rowLock' = p /\ UNCHANGED hostLock
             /\ req' = [req EXCEPT ![p] = [Loaded(p) EXCEPT !.pc = "trial"]]
    <3>1. RequestOK([Loaded(p) EXCEPT !.pc = "trial"], everGranted')
      BY <1>1, LoadedOK DEF IInv, Locations
    <3>2. RequestInv'
      BY <2>2, <3>1, <1>1, ContinueStep DEF IInv
    <3> QED
      BY <2>2, <3>2 DEF IInv, LockInv
  <2> QED
    BY <2>1, <2>2 DEF LockUser
<1>3. RestInv' /\ RefundInv'
  BY <1>1, QuietRefunds DEF IInv, LockUser, RestInv, stripeVars
<1> QED
  BY <1>1, <1>2, <1>3 DEF IInv

\* trial_days_for's answer only moves the request on.
LEMMA TrialKnownStep ==
  ASSUME IInv, NEW p \in Procs, NEW trial \in BOOLEAN, TrialKnown(p, trial),
         everGranted' = everGranted
  PROVE  RequestInv' /\ LockInv'
<1>1. CASE End(p)
  BY <1>1, EndStep DEF IInv
<1>2. ASSUME NEW loc \in {"create", "retrieve"},
             loc = "retrieve" => req[p].mem.sub # NoSub,
             Continue(p, [req[p] EXCEPT !.trial = trial, !.pc = loc])
      PROVE  RequestInv' /\ LockInv'
  <2>1. RequestOK([req[p] EXCEPT !.trial = trial, !.pc = loc], everGranted')
    BY <1>2, ReqOK DEF IInv, RequestOK, WellPlaced, Grounded, Request, Locations
  <2> QED
    BY <2>1, <1>2, MoveStep DEF IInv
<1> QED
  BY <1>1, <1>2 DEF TrialKnown

LEMMA TrialLookupStep ==
  ASSUME IInv, NEW p \in Procs, TrialLookup(p)
  PROVE  IInv'
<1>1. StripeInv' /\ everGranted' = everGranted
  BY QuietStripe DEF IInv, TrialLookup
<1>2. RequestInv' /\ LockInv'
  <2>1. CASE TrialKnown(p, FALSE)
    BY <2>1, <1>1, TrialKnownStep
  <2>2. CASE TrialKnown(p, trialCache = "days")
    BY <2>2, <1>1, TrialKnownStep
  <2>3. CASE Continue(p, [req[p] EXCEPT !.trial = ~SubscribedBefore, !.pc = "trialSet"])
    <3>1. (~SubscribedBefore) \in BOOLEAN
      BY Zenon DEF SubscribedBefore
    <3>2. RequestOK([req[p] EXCEPT !.trial = ~SubscribedBefore, !.pc = "trialSet"],
                    everGranted')
      BY <3>1, <1>1, ReqOK DEF IInv, RequestOK, WellPlaced, Grounded, Request, Locations
    <3> QED
      BY <3>2, <2>3, <1>1, MoveStep DEF IInv
  <2> QED
    BY <2>1, <2>2, <2>3 DEF TrialLookup
<1>3. RestInv' /\ RefundInv'
  BY <1>1, QuietRefunds DEF IInv, TrialLookup, RestInv, stripeVars
<1> QED
  BY <1>1, <1>2, <1>3 DEF IInv

LEMMA TrialStoreStep ==
  ASSUME IInv, NEW p \in Procs, TrialStore(p)
  PROVE  IInv'
<1>1. StripeInv' /\ everGranted' = everGranted
  BY QuietStripe DEF IInv, TrialStore
<1>2. RequestInv' /\ LockInv'
  <2>1. req[p].trial \in BOOLEAN
    BY ReqOK DEF IInv, Request
  <2> QED
    BY <2>1, <1>1, TrialKnownStep DEF TrialStore
<1>3. RestInv' /\ RefundInv'
  BY <1>1, QuietRefunds DEF IInv, TrialStore, RestInv, stripeVars
<1> QED
  BY <1>1, <1>2, <1>3 DEF IInv

\* Wherever _start_checkout or sync_subscription goes on from, the request
\* keeps what it knows.
LEMMA RoutesOK ==
  ASSUME NEW g, NEW r \in Request, RequestOK([r EXCEPT !.pc = "load"], g)
  PROVE  /\ RequestOK(SyncFrom(r), g)
         /\ RequestOK(CheckoutFrom(r), g)
         /\ RequestOK(AfterAdopt(r), g)
         /\ RequestOK([r EXCEPT !.pc = "adopt"], g)
<1>1. ASSUME NEW loc \in {"adopt", "apply", "reuse", "cancelStale", "create"}
      PROVE  RequestOK([r EXCEPT !.pc = loc], g)
  BY DEF RequestOK, WellPlaced, Grounded, Request, Locations
<1>2. RequestOK(SyncFrom(r), g)
  BY <1>1 DEF SyncFrom
<1>3. RequestOK(CheckoutFrom(r), g)
  BY <1>1 DEF CheckoutFrom
<1> QED
  BY <1>1, <1>2, <1>3 DEF AfterAdopt

\* A request that looks at a subscription Stripe has keeps what it knows.
LEMMA SeenOK ==
  ASSUME NEW g, NEW r, RequestOK(r, g), NEW i \in SubIds, NEW s \in Subscription,
         GrantsAccess(s) => i \in g
  PROVE  /\ Seen(r, i, s) \in Request
         /\ RequestOK([Seen(r, i, s) EXCEPT !.pc = "load"], g)
<1>1. i # NoSub
  BY BoundsAssumption DEF SubIds, NoSub
<1> QED
  BY <1>1 DEF Seen, RequestOK, WellPlaced, Grounded, Request, Locations

\* Changing the user in memory keeps what the request knows of Stripe.
LEMMA ChangedOK ==
  ASSUME NEW g, NEW r \in Request, RequestOK([r EXCEPT !.pc = "load"], g), NEW m \in Row
  PROVE  RequestOK([r EXCEPT !.mem = m, !.pc = "save"], g)
<1> DEFINE c == [r EXCEPT !.mem = m, !.pc = "save"]
<1>1. c \in Request
  BY DEF Request, Locations
<1>2. WellPlaced(c)
  BY DEF RequestOK, WellPlaced, Request
<1>3. Grounded(c, g)
  BY DEF RequestOK, Grounded, Request
<1> QED
  BY <1>1, <1>2, <1>3 DEF RequestOK

LEMMA RetrieveOwnStep ==
  ASSUME IInv, NEW p \in Procs, RetrieveOwn(p)
  PROVE  IInv'
<1> DEFINE own == req[p].mem.sub
<1> DEFINE r == Seen(req[p], own, subs[own])
<1>1. StripeInv' /\ everGranted' = everGranted
  BY QuietStripe DEF IInv, RetrieveOwn
<1>2. own \in SubIds
  BY ReqOK DEF IInv, RequestOK, WellPlaced, RetrieveOwn, At, Request, Row
<1>3. subs[own] \in Subscription /\ (GrantsAccess(subs[own]) => own \in everGranted)
  BY <1>2 DEF IInv, StripeInv
<1>4. r \in Request /\ RequestOK([r EXCEPT !.pc = "load"], everGranted')
  BY <1>1, <1>2, <1>3, ReqOK, SeenOK DEF IInv
<1>5. /\ RequestOK(SyncFrom(r), everGranted')
      /\ RequestOK(CheckoutFrom(r), everGranted')
      /\ RequestOK([r EXCEPT !.pc = "adopt"], everGranted')
  BY <1>4, RoutesOK
<1>6. RequestInv' /\ LockInv'
  <2>1. \/ Continue(p, SyncFrom(r))
        \/ Continue(p, CheckoutFrom(r))
        \/ Continue(p, [r EXCEPT !.pc = "adopt"])
    BY DEF RetrieveOwn
  <2> QED
    BY <2>1, <1>1, <1>5, MoveStep DEF IInv
<1>7. RestInv' /\ RefundInv'
  BY <1>1, QuietRefunds DEF IInv, RetrieveOwn, RestInv, stripeVars
<1> QED
  BY <1>1, <1>6, <1>7 DEF IInv

LEMMA AdoptTrialCardStep ==
  ASSUME IInv, NEW p \in Procs, AdoptTrialCard(p)
  PROVE  IInv'
<1> DEFINE i == req[p].sub
<1> DEFINE adopted == [subs[i] EXCEPT !.card = TRUE]
<1> DEFINE r == Seen(req[p], i, adopted)
<1>1. i \in SubIds /\ adopted \in Subscription
  <2>1. i \in SubIds
    BY ReqOK DEF IInv, RequestOK, WellPlaced, AdoptTrialCard, At, Request
  <2> QED
    BY <2>1 DEF IInv, StripeInv, Subscription
<1>2. ASSUME StripeChanges(i, adopted),
             Continue(p, AfterAdopt([req[p] EXCEPT !.snap = adopted]))
      PROVE  StripeInv' /\ RequestInv' /\ LockInv' /\ everGranted \subseteq everGranted'
  <2>1. /\ StripeInv' /\ everGranted \subseteq everGranted'
        /\ GrantsAccess(adopted) => i \in everGranted'
    BY <1>1, <1>2, StripeStep DEF IInv
  <2>2. RequestOK(req[p], everGranted')
    BY <2>1, ReqOK, Monotone DEF IInv
  <2>3. r = [req[p] EXCEPT !.snap = adopted]
    BY ReqOK DEF IInv, Request, Seen
  <2>4. r \in Request /\ RequestOK([r EXCEPT !.pc = "load"], everGranted')
    BY <2>1, <2>2, <1>1, SeenOK
  <2>5. RequestOK(AfterAdopt(r), everGranted')
    BY <2>4, RoutesOK
  <2>6. RequestInv' /\ LockInv'
    BY <2>1, <2>3, <2>5, <1>2, MoveStep DEF IInv
  <2> QED
    BY <2>1, <2>6
<1>3. ASSUME Goto(p, "apply"), UNCHANGED stripeVars
      PROVE  StripeInv' /\ RequestInv' /\ LockInv' /\ everGranted \subseteq everGranted'
  <2>1. StripeInv' /\ everGranted' = everGranted
    BY <1>3, QuietStripe DEF IInv
  <2>2. RequestOK([req[p] EXCEPT !.pc = "apply"], everGranted')
    BY <2>1, <1>1, ReqOK, BoundsAssumption
       DEF IInv, RequestOK, WellPlaced, Grounded, Request, Locations, SubIds, NoSub
  <2>3. RequestInv' /\ LockInv'
    BY <2>1, <2>2, <1>3, MoveStep DEF IInv, Goto
  <2> QED
    BY <2>1, <2>3
<1>4. StripeInv' /\ RequestInv' /\ LockInv' /\ everGranted \subseteq everGranted'
  BY <1>2, <1>3 DEF AdoptTrialCard
<1>5. RestInv' /\ RefundInv'
  BY <1>4, QuietRefunds DEF IInv, AdoptTrialCard, RestInv
<1> QED
  BY <1>4, <1>5 DEF IInv

LEMMA ReuseCheckoutStep ==
  ASSUME IInv, NEW p \in Procs, ReuseCheckout(p)
  PROVE  IInv'
<1>1. StripeInv' /\ everGranted' = everGranted
  BY QuietStripe DEF IInv, ReuseCheckout
<1>2. RequestOK([req[p] EXCEPT !.pc = "respond"], everGranted')
  BY <1>1, ReqOK DEF IInv, RequestOK, WellPlaced, Grounded, Request, Locations,
     ReuseCheckout, At
<1>3. req' = [req EXCEPT ![p] = [req[p] EXCEPT !.pc = "respond"]]
  BY DEF ReuseCheckout, IInv, RequestInv
<1>4. RequestInv'
  BY <1>1, <1>2, <1>3, ContinueStep DEF IInv
<1>5. LockInv'
  BY DEF IInv, LockInv, ReuseCheckout, ReleaseRow
<1>6. RestInv' /\ RefundInv'
  BY <1>1, QuietRefunds DEF IInv, ReuseCheckout, RestInv, stripeVars
<1> QED
  BY <1>1, <1>4, <1>5, <1>6 DEF IInv

\* A status change of a subscription that exists, or none at all.
LEMMA CancelOrNot ==
  ASSUME StripeInv, NEW i \in SubIds,
         \/ StripeChanges(i, [subs[i] EXCEPT !.status = "canceled"])
         \/ UNCHANGED <<subs, events, everGranted>>
  PROVE  StripeInv' /\ everGranted \subseteq everGranted'
<1>1. [subs[i] EXCEPT !.status = "canceled"] \in Subscription
  BY DEF StripeInv, Subscription, Statuses
<1>2. CASE StripeChanges(i, [subs[i] EXCEPT !.status = "canceled"])
  BY <1>1, <1>2, StripeStep
<1>3. CASE UNCHANGED <<subs, events, everGranted>>
  BY <1>3 DEF StripeInv
<1> QED
  BY <1>2, <1>3

LEMMA CancelStaleStep ==
  ASSUME IInv, NEW p \in Procs, CancelStale(p)
  PROVE  IInv'
<1>1. req[p].sub \in SubIds
  BY ReqOK DEF IInv, RequestOK, WellPlaced, CancelStale, At, Request
<1>2. StripeInv' /\ everGranted \subseteq everGranted'
  BY <1>1, CancelOrNot DEF IInv, CancelStale
<1>3. RequestInv' /\ LockInv'
  <2>1. RequestOK(req[p], everGranted')
    BY <1>2, ReqOK, Monotone DEF IInv
  <2>2. RequestOK([req[p] EXCEPT !.pc = "create"], everGranted')
    BY <2>1 DEF RequestOK, WellPlaced, Grounded, Request, Locations
  <2> QED
    BY <1>2, <2>2, MoveStep DEF IInv, CancelStale, Goto
<1>4. RestInv' /\ RefundInv'
  BY <1>2, QuietRefunds DEF IInv, CancelStale, RestInv
<1> QED
  BY <1>2, <1>3, <1>4 DEF IInv

LEMMA CreateSubscriptionStep ==
  ASSUME IInv, NEW p \in Procs, CreateSubscription(p)
  PROVE  IInv'
<1> DEFINE new == [Uncreated EXCEPT !.plan = req[p].plan, !.trial = req[p].trial,
                      !.status = IF req[p].trial THEN "trialing" ELSE "incomplete"]
<1> DEFINE seen == Seen(req[p], NextId, new)
<1> DEFINE r == [seen EXCEPT !.mem.sub = NextId, !.pc = "save"]
<1>1. NextId \in SubIds
  BY NextIdIsNew DEF IInv, CreateSubscription
<1>2. new \in Subscription /\ ~GrantsAccess(new)
  <2>1. req[p].plan \in Plans /\ req[p].trial \in BOOLEAN
    BY ReqOK DEF IInv, Request
  <2> QED
    BY <2>1 DEF Uncreated, Subscription, Statuses, GrantsAccess, Access
<1>3. StripeInv' /\ everGranted \subseteq everGranted'
  BY <1>1, <1>2, StripeStep DEF IInv, CreateSubscription
<1>4. RequestInv' /\ LockInv'
  <2>1. RequestOK(req[p], everGranted')
    BY <1>3, ReqOK, Monotone DEF IInv
  <2>2. seen \in Request /\ RequestOK([seen EXCEPT !.pc = "load"], everGranted')
    BY <2>1, <1>1, <1>2, SeenOK
  <2>3. RequestOK(r, everGranted')
    <3> HIDE DEF seen
    <3>1. seen.mem \in Row
      BY <2>2 DEF Request
    <3>2. [seen.mem EXCEPT !.sub = NextId] \in Row
      BY <3>1, <1>1 DEF Row
    <3>3. r = [seen EXCEPT !.mem = [seen.mem EXCEPT !.sub = NextId], !.pc = "save"]
      BY <2>2 DEF Request
    <3>4. RequestOK([seen EXCEPT !.mem = [seen.mem EXCEPT !.sub = NextId], !.pc = "save"],
                    everGranted')
      BY <2>2, <3>2, ChangedOK
    <3> QED
      BY <3>3, <3>4
  <2>4. CASE Continue(p, r)
    BY <2>3, <2>4, <1>3, MoveStep DEF IInv
  <2>5. CASE End(p)
    BY <2>5, <1>3, EndStep DEF IInv
  <2> QED
    BY <2>4, <2>5 DEF CreateSubscription
<1>5. RestInv' /\ RefundInv'
  BY <1>3, QuietRefunds DEF IInv, CreateSubscription, RestInv
<1> QED
  BY <1>3, <1>4, <1>5 DEF IInv

LEMMA CreateRefusedStep ==
  ASSUME IInv, NEW p \in Procs, CreateRefused(p)
  PROVE  IInv'
<1>1. StripeInv' /\ everGranted' = everGranted
  BY QuietStripe DEF IInv, CreateRefused
<1>2. RequestInv' /\ LockInv'
  BY <1>1, EndStep DEF IInv, CreateRefused
<1>3. RestInv' /\ RefundInv'
  BY <1>1, QuietRefunds DEF IInv, CreateRefused, RestInv, stripeVars
<1> QED
  BY <1>1, <1>2, <1>3 DEF IInv

LEMMA RespondStep ==
  ASSUME IInv, NEW p \in Procs, Respond(p)
  PROVE  IInv'
<1>1. StripeInv' /\ everGranted' = everGranted
  BY QuietStripe DEF IInv, Respond
<1>2. RequestInv' /\ LockInv'
  BY <1>1, EndStep DEF IInv, Respond
<1>3. req[p].sub \in SubIds
  BY ReqOK DEF IInv, RequestOK, WellPlaced, Respond, At, Request
<1>4. RestInv' /\ RefundInv'
  BY <1>1, <1>3, QuietRefunds DEF IInv, Respond, RestInv, stripeVars
<1> QED
  BY <1>1, <1>2, <1>4 DEF IInv

-----------------------------------------------------------------------------
(* Status, cancellation and webhook *)

LEMMA StartStatusStep ==
  ASSUME IInv, NEW p \in Procs, NEW refresh \in BOOLEAN, StartStatus(p, refresh)
  PROVE  IInv'
<1> DEFINE loc == IF refresh /\ row.sub # NoSub THEN "retrieve" ELSE "trial"
<1>1. StripeInv' /\ everGranted' = everGranted
  BY QuietStripe DEF IInv, StartStatus
<1>2. RequestOK([Loaded(p) EXCEPT !.kind = "status", !.pc = loc], everGranted')
  BY <1>1, LoadedOK DEF IInv, Locations
<1>3. RequestInv' /\ LockInv'
  BY <1>1, <1>2, MoveStep DEF IInv, StartStatus
<1>4. RestInv' /\ RefundInv'
  BY <1>1, QuietRefunds DEF IInv, StartStatus, RestInv, stripeVars
<1> QED
  BY <1>1, <1>3, <1>4 DEF IInv

LEMMA StartCancelStep ==
  ASSUME IInv, NEW p \in Procs, StartCancel(p)
  PROVE  IInv'
<1>1. StripeInv' /\ everGranted' = everGranted
  BY QuietStripe DEF IInv, StartCancel
<1>2. RequestOK([Loaded(p) EXCEPT !.kind = "cancel", !.pc = "cancelAtStripe"], everGranted')
  BY <1>1, LoadedOK DEF IInv, Locations, StartCancel
<1>3. RequestInv' /\ LockInv'
  BY <1>1, <1>2, MoveStep DEF IInv, StartCancel
<1>4. RestInv' /\ RefundInv'
  BY <1>1, QuietRefunds DEF IInv, StartCancel, RestInv, stripeVars
<1> QED
  BY <1>1, <1>3, <1>4 DEF IInv

LEMMA CancelAtStripeStep ==
  ASSUME IInv, NEW p \in Procs, CancelAtStripe(p)
  PROVE  IInv'
<1> DEFINE i == req[p].mem.sub
<1>1. i \in SubIds
  BY ReqOK DEF IInv, RequestOK, WellPlaced, CancelAtStripe, At, Request, Row
<1>2. ASSUME NEW s \in {subs[i], [subs[i] EXCEPT !.status = "canceled"]},
             StripeChanges(i, s), Continue(p, SyncFrom(Seen(req[p], i, s)))
      PROVE  StripeInv' /\ RequestInv' /\ LockInv' /\ everGranted \subseteq everGranted'
  <2>1. s \in Subscription
    BY <1>1 DEF IInv, StripeInv, Subscription, Statuses
  <2>2. /\ StripeInv' /\ everGranted \subseteq everGranted'
        /\ GrantsAccess(s) => i \in everGranted'
    BY <1>1, <1>2, <2>1, StripeStep DEF IInv
  <2>3. RequestOK(req[p], everGranted')
    BY <2>2, ReqOK, Monotone DEF IInv
  <2>4. RequestOK(SyncFrom(Seen(req[p], i, s)), everGranted')
    BY <1>1, <2>1, <2>2, <2>3, SeenOK, RoutesOK
  <2> QED
    BY <1>2, <2>2, <2>4, MoveStep DEF IInv
<1>3. ASSUME End(p), UNCHANGED <<subs, events, everGranted>>
      PROVE  StripeInv' /\ RequestInv' /\ LockInv' /\ everGranted \subseteq everGranted'
  BY <1>3, EndStep DEF IInv, StripeInv
<1>4. StripeInv' /\ RequestInv' /\ LockInv' /\ everGranted \subseteq everGranted'
  BY <1>2, <1>3 DEF CancelAtStripe
<1>5. RestInv' /\ RefundInv'
  BY <1>4, QuietRefunds DEF IInv, CancelAtStripe, RestInv
<1> QED
  BY <1>4, <1>5 DEF IInv

LEMMA DeliverStep ==
  ASSUME IInv, NEW p \in Procs, NEW i \in SubIds, Deliver(p, i)
  PROVE  IInv'
<1> DEFINE seen == Seen(IdleRequest, i, subs[i])
<1>1. StripeInv' /\ everGranted' = everGranted
  BY DEF IInv, StripeInv, Deliver
<1>2. RequestOK([seen EXCEPT !.kind = "event", !.pc = "load"], everGranted')
  <2>1. subs[i] \in Subscription /\ (GrantsAccess(subs[i]) => i \in everGranted')
    BY <1>1 DEF IInv, StripeInv
  <2>2. seen \in Request /\ RequestOK([seen EXCEPT !.pc = "load"], everGranted')
    BY <2>1, IdleIsOK, SeenOK
  <2> HIDE DEF seen
  <2> QED
    BY <2>2 DEF RequestOK, WellPlaced, Grounded, Request
<1>3. RequestInv' /\ LockInv'
  BY <1>1, <1>2, MoveStep DEF IInv, Deliver
<1>4. RestInv' /\ RefundInv'
  BY <1>1, QuietRefunds DEF IInv, Deliver, RestInv
<1> QED
  BY <1>1, <1>3, <1>4 DEF IInv

LEMMA LoadUserStep ==
  ASSUME IInv, NEW p \in Procs, LoadUser(p)
  PROVE  IInv'
<1>1. StripeInv' /\ everGranted' = everGranted
  BY QuietStripe DEF IInv, LoadUser
<1>2. Loaded(p) \in Request /\ RequestOK([Loaded(p) EXCEPT !.pc = "load"], everGranted')
  <2>1. row \in Row /\ req[p].pc = "load"
    BY DEF IInv, RestInv, LoadUser, At
  <2> QED
    BY <1>1, <2>1, ReqOK DEF IInv, Loaded, RequestOK, WellPlaced, Grounded, Request
<1>3. RequestInv' /\ LockInv'
  BY <1>1, <1>2, RoutesOK, MoveStep DEF IInv, LoadUser
<1>4. RestInv' /\ RefundInv'
  BY <1>1, QuietRefunds DEF IInv, LoadUser, RestInv, stripeVars
<1> QED
  BY <1>1, <1>3, <1>4 DEF IInv

-----------------------------------------------------------------------------
(* sync_subscription *)

\* What follows a sync only moves the request on.
LEMMA AfterSyncStep ==
  ASSUME RequestInv, LockInv, NEW p \in Procs, AfterSync(p),
         everGranted \subseteq everGranted'
  PROVE  RequestInv' /\ LockInv'
<1>1. CASE Goto(p, "trial")
  <2>1. RequestOK(req[p], everGranted')
    BY ReqOK, Monotone
  <2>2. RequestOK([req[p] EXCEPT !.pc = "trial"], everGranted')
    BY <2>1 DEF RequestOK, WellPlaced, Grounded, Request, Locations
  <2> QED
    BY <1>1, <2>2, MoveStep DEF Goto
<1>2. CASE End(p)
  BY <1>2, EndStep
<1> QED
  BY <1>1, <1>2 DEF AfterSync

LEMMA ApplySubscriptionStep ==
  ASSUME IInv, NEW p \in Procs, ApplySubscription(p)
  PROVE  IInv'
<1> DEFINE s == req[p].snap
<1> DEFINE lost == [pro |-> FALSE, sub |-> IF s.status \in Ended THEN NoSub ELSE req[p].sub]
<1>1. StripeInv' /\ everGranted' = everGranted
  BY QuietStripe DEF IInv, ApplySubscription
<1>2. RequestInv' /\ LockInv'
  <2>1. ASSUME GrantsAccess(s), Goto(p, "list")
        PROVE  RequestInv' /\ LockInv'
    <3>1. RequestOK([req[p] EXCEPT !.pc = "list"], everGranted')
      BY <1>1, <2>1, ReqOK DEF IInv, RequestOK, WellPlaced, Grounded, Request, Locations,
         ApplySubscription, At
    <3> QED
      BY <1>1, <2>1, <3>1, MoveStep DEF IInv, Goto
  <2>2. ASSUME Continue(p, [req[p] EXCEPT !.mem = lost, !.pc = "save"])
        PROVE  RequestInv' /\ LockInv'
    <3>1. lost \in Row
      BY ReqOK DEF IInv, Request, Row
    <3> HIDE DEF lost
    <3>2. RequestOK([req[p] EXCEPT !.mem = lost, !.pc = "save"], everGranted')
      BY <1>1, <3>1, ReqOK DEF IInv, RequestOK, WellPlaced, Grounded, Request, Locations,
         ApplySubscription, At
    <3> QED
      BY <1>1, <2>2, <3>2, MoveStep DEF IInv
  <2>3. ASSUME AfterSync(p)
        PROVE  RequestInv' /\ LockInv'
    BY <1>1, <2>3, AfterSyncStep DEF IInv
  <2> QED
    BY <2>1, <2>2, <2>3 DEF ApplySubscription
<1>3. RestInv' /\ RefundInv'
  BY <1>1, QuietRefunds DEF IInv, ApplySubscription, RestInv, stripeVars
<1> QED
  BY <1>1, <1>2, <1>3 DEF IInv

\* Every subscription that pays gave access, so each one that isn't kept has
\* the kept one before it.
LEMMA KeepOneStep ==
  ASSUME IInv, NEW p \in Procs, KeepOne(p)
  PROVE  IInv'
<1>1. PICK missed \in SUBSET Granting(subs) :
        LET paying == (Granting(subs) \ missed) \cup {req[p].sub}
            extras == paying \ {Kept(paying)}
        IN /\ At(p, "list")
           /\ Continue(p, [req[p] EXCEPT
                !.extras = extras,
                !.mem = [pro |-> TRUE, sub |-> Kept(paying)],
                !.pc = IF extras = {} THEN "save" ELSE "undo"])
           /\ UNCHANGED <<stripeVars, refunded, shown, row, trialCache, failures, undone>>
  BY DEF KeepOne
<1> DEFINE paying == (Granting(subs) \ missed) \cup {req[p].sub}
<1> DEFINE extras == paying \ {Kept(paying)}
<1> DEFINE mem == [pro |-> TRUE, sub |-> Kept(paying)]
<1> DEFINE loc == IF extras = {} THEN "save" ELSE "undo"
<1>2. StripeInv' /\ everGranted' = everGranted
  BY <1>1, QuietStripe DEF IInv
<1>3. req[p].pc = "list" /\ RequestOK(req[p], everGranted)
  BY <1>1, ReqOK DEF IInv, At
<1>4. paying \subseteq SubIds /\ paying \subseteq everGranted /\ paying # {}
  <2>1. req[p].sub \in SubIds /\ req[p].sub \in everGranted
    BY <1>3 DEF RequestOK, WellPlaced, Grounded, Request
  <2> QED
    BY <2>1 DEF IInv, StripeInv, Granting
<1>5. Kept(paying) \in paying /\ \A j \in paying : Kept(paying) <= j
  BY <1>4, OldestIsLeast DEF Kept
<1> HIDE DEF paying
<1>6. \A i \in extras : HasElder(i, everGranted)
  <2>1. ASSUME NEW i \in paying, i # Kept(paying)
        PROVE  Kept(paying) \in everGranted /\ Kept(paying) < i
    <3>1. i \in SubIds /\ Kept(paying) \in SubIds
      BY <1>4, <1>5
    <3>2. i \in Int /\ Kept(paying) \in Int
      BY <3>1, BoundsAssumption DEF SubIds
    <3>3. Kept(paying) <= i
      BY <1>5
    <3> QED
      BY <1>4, <1>5, <2>1, <3>2, <3>3
  <2> QED
    BY <2>1, Zenon DEF HasElder
<1>7. mem \in Row /\ extras \in SUBSET SubIds /\ loc \in Locations
  BY <1>4, <1>5 DEF Row, Locations
<1>8. loc = "undo" => extras # {}
  OBVIOUS
<1>9. loc \in {"save", "undo"}
  OBVIOUS
<1> HIDE DEF extras, mem, loc
<1>10. RequestOK([req[p] EXCEPT !.extras = extras, !.mem = mem, !.pc = loc], everGranted')
  BY <1>2, <1>3, <1>6, <1>7, <1>8, <1>9
     DEF RequestOK, WellPlaced, Grounded, Request
<1>11. RequestInv' /\ LockInv'
  <2>1. Continue(p, [req[p] EXCEPT !.extras = extras, !.mem = mem, !.pc = loc])
    BY <1>1 DEF extras, mem, loc, paying
  <2> QED
    BY <1>2, <1>10, <2>1, MoveStep DEF IInv
<1>12. RestInv' /\ RefundInv'
  BY <1>1, <1>2, QuietRefunds DEF IInv, RestInv, stripeVars
<1> QED
  BY <1>2, <1>11, <1>12 DEF IInv

LEMMA CancelExtraStep ==
  ASSUME IInv, NEW p \in Procs, CancelExtra(p)
  PROVE  IInv'
<1> DEFINE i == Oldest(req[p].extras)
<1>1. req[p].pc = "undo" /\ RequestOK(req[p], everGranted)
  BY ReqOK DEF IInv, CancelExtra, At
<1>2. i \in SubIds
  BY <1>1, OldestIsLeast DEF RequestOK, WellPlaced, Request
<1>3. StripeInv' /\ everGranted \subseteq everGranted'
  BY <1>2, CancelOrNot DEF IInv, CancelExtra
<1>4. RequestInv' /\ LockInv'
  <2>1. RequestOK(req[p], everGranted')
    BY <1>1, <1>3, Monotone
  <2>2. RequestOK([req[p] EXCEPT !.pc = "refund"], everGranted')
    BY <1>1, <2>1 DEF RequestOK, WellPlaced, Grounded, Request, Locations
  <2> QED
    BY <1>3, <2>2, MoveStep DEF IInv, CancelExtra, Goto
<1>5. RestInv' /\ RefundInv'
  BY <1>2, <1>3, QuietRefunds DEF IInv, CancelExtra, RestInv
<1> QED
  BY <1>3, <1>4, <1>5 DEF IInv

\* What is refunded has an older subscription that gave access.
LEMMA RefundExtraStep ==
  ASSUME IInv, NEW p \in Procs, RefundExtra(p)
  PROVE  IInv'
<1> DEFINE i == Oldest(req[p].extras)
<1> DEFINE left == req[p].extras \ {i}
<1> DEFINE loc == IF left = {} THEN "save" ELSE "undo"
<1>1. StripeInv' /\ everGranted' = everGranted
  BY QuietStripe DEF IInv, RefundExtra
<1>2. req[p].pc = "refund" /\ RequestOK(req[p], everGranted)
  BY ReqOK DEF IInv, RefundExtra, At
<1>3. i \in SubIds /\ HasElder(i, everGranted)
  <2>1. req[p].extras \in SUBSET SubIds /\ req[p].extras # {}
    BY <1>2 DEF RequestOK, WellPlaced, Request
  <2>2. i \in req[p].extras
    BY <2>1, OldestIsLeast
  <2> QED
    BY <1>2, <2>1, <2>2 DEF RequestOK, Grounded
<1>4. RequestInv' /\ LockInv'
  <2>1. RequestOK([req[p] EXCEPT !.extras = left, !.pc = loc], everGranted')
    BY <1>1, <1>2 DEF RequestOK, WellPlaced, Grounded, Request, Locations
  <2>2. Continue(p, [req[p] EXCEPT !.extras = left, !.pc = loc])
    BY DEF RefundExtra
  <2> QED
    BY <1>1, <2>1, <2>2, MoveStep DEF IInv
<1>5. RefundInv'
  <2>1. refunded' \subseteq refunded \cup {i}
    BY DEF RefundExtra
  <2> QED
    BY <1>1, <1>3, <2>1 DEF IInv, RefundInv, HasElder
<1>6. RestInv'
  BY DEF IInv, RefundExtra, RestInv, stripeVars
<1> QED
  BY <1>1, <1>4, <1>5, <1>6 DEF IInv

LEMMA CommitStep ==
  ASSUME IInv, NEW p \in Procs, Commit(p)
  PROVE  IInv'
<1>1. StripeInv' /\ everGranted' = everGranted
  BY QuietStripe DEF IInv, Commit
<1>2. RequestInv' /\ LockInv'
  <2>1. ASSUME req' = [req EXCEPT ![p].pc = "respond"], ReleaseRow(p), UNCHANGED hostLock
        PROVE  RequestInv' /\ LockInv'
    <3>1. RequestOK([req[p] EXCEPT !.pc = "respond"], everGranted')
      BY <1>1, ReqOK DEF IInv, RequestOK, WellPlaced, Grounded, Request, Locations,
         Commit, At
    <3>2. req' = [req EXCEPT ![p] = [req[p] EXCEPT !.pc = "respond"]]
      BY <2>1 DEF IInv, RequestInv
    <3>3. RequestInv'
      BY <1>1, <3>1, <3>2, ContinueStep DEF IInv
    <3> QED
      BY <2>1, <3>3 DEF IInv, LockInv, ReleaseRow
  <2>2. ASSUME AfterSync(p)
        PROVE  RequestInv' /\ LockInv'
    BY <1>1, <2>2, AfterSyncStep DEF IInv
  <2> QED
    BY <2>1, <2>2 DEF Commit
<1>3. RestInv' /\ RefundInv'
  <2>1. row' \in Row
    <3>1. req[p].mem \in Row /\ row \in Row
      BY ReqOK DEF IInv, RestInv, Request
    <3> QED
      BY <3>1 DEF Commit, Written, Row
  <2> QED
    BY <1>1, <2>1, QuietRefunds DEF IInv, Commit, RestInv, stripeVars
<1> QED
  BY <1>1, <1>2, <1>3 DEF IInv

-----------------------------------------------------------------------------
(* Failures *)

LEMMA RequestFailsStep ==
  ASSUME IInv, NEW p \in Procs, RequestFails(p)
  PROVE  IInv'
<1>1. StripeInv' /\ everGranted' = everGranted
  <2>1. req[p].sub \in SubIds \cup {NoSub}
    BY ReqOK DEF IInv, Request
  <2>2. req[p].kind = "event" => req[p].sub # NoSub
    BY ReqOK DEF IInv, RequestOK, WellPlaced
  <2> QED
    BY <2>1, <2>2 DEF IInv, StripeInv, RequestFails, RetryEvent
<1>2. RequestInv' /\ LockInv'
  BY <1>1, EndStep DEF IInv, RequestFails
<1>3. RestInv' /\ RefundInv'
  BY <1>1, QuietRefunds, BoundsAssumption DEF IInv, RequestFails, RestInv
<1> QED
  BY <1>1, <1>2, <1>3 DEF IInv

LEMMA RefreshFailsStep ==
  ASSUME IInv, NEW p \in Procs, RefreshFails(p)
  PROVE  IInv'
<1>1. StripeInv' /\ everGranted' = everGranted
  BY QuietStripe DEF IInv, RefreshFails
<1>2. RequestOK([req[p] EXCEPT !.mem = req[p].row, !.pc = "trial"], everGranted')
  BY <1>1, ReqOK DEF IInv, RequestOK, WellPlaced, Grounded, Request, Locations
<1>3. RequestInv' /\ LockInv'
  BY <1>1, <1>2, MoveStep DEF IInv, RefreshFails
<1>4. RestInv' /\ RefundInv'
  BY <1>1, QuietRefunds, BoundsAssumption DEF IInv, RefreshFails, RestInv, stripeVars
<1> QED
  BY <1>1, <1>3, <1>4 DEF IInv

LEMMA TrialLookupFailsStep ==
  ASSUME IInv, NEW p \in Procs, TrialLookupFails(p)
  PROVE  IInv'
<1>1. StripeInv' /\ everGranted' = everGranted
  BY QuietStripe DEF IInv, TrialLookupFails
<1>2. RequestInv' /\ LockInv'
  BY <1>1, TrialKnownStep DEF TrialLookupFails
<1>3. RestInv' /\ RefundInv'
  BY <1>1, QuietRefunds, BoundsAssumption DEF IInv, TrialLookupFails, RestInv, stripeVars
<1> QED
  BY <1>1, <1>2, <1>3 DEF IInv

LEMMA CancelStaleFailsStep ==
  ASSUME IInv, NEW p \in Procs, CancelStaleFails(p)
  PROVE  IInv'
<1>1. StripeInv' /\ everGranted' = everGranted
  BY QuietStripe DEF IInv, CancelStaleFails
<1>2. RequestOK([req[p] EXCEPT !.pc = "create"], everGranted')
  BY <1>1, ReqOK DEF IInv, RequestOK, WellPlaced, Grounded, Request, Locations
<1>3. RequestInv' /\ LockInv'
  BY <1>1, <1>2, MoveStep DEF IInv, CancelStaleFails, Goto
<1>4. RestInv' /\ RefundInv'
  BY <1>1, QuietRefunds, BoundsAssumption DEF IInv, CancelStaleFails, RestInv, stripeVars
<1> QED
  BY <1>1, <1>3, <1>4 DEF IInv

LEMMA AdoptRefusedStep ==
  ASSUME IInv, NEW p \in Procs, AdoptRefused(p)
  PROVE  IInv'
<1>1. StripeInv' /\ everGranted' = everGranted
  <2>1. req[p].sub \in SubIds
    BY ReqOK DEF IInv, RequestOK, WellPlaced, AdoptRefused, At, Request
  <2> QED
    BY <2>1 DEF IInv, StripeInv, AdoptRefused, RetryEvent
<1>2. RequestInv' /\ LockInv'
  BY <1>1, AfterSyncStep DEF IInv, AdoptRefused
<1>3. RestInv' /\ RefundInv'
  BY <1>1, QuietRefunds DEF IInv, AdoptRefused, RestInv
<1> QED
  BY <1>1, <1>2, <1>3 DEF IInv

-----------------------------------------------------------------------------
(* Stripe and the browser *)

\* A change at Stripe alone: the requests keep what they know.
LEMMA StripeAlone ==
  ASSUME IInv, OnlyStripe, StripeInv', everGranted \subseteq everGranted',
         charged' \subseteq SubIds
  PROVE  IInv'
<1>1. RequestInv'
  <2>1. req' = req
    BY DEF OnlyStripe
  <2> QED
    BY <2>1, Monotone DEF IInv, RequestInv
<1>2. LockInv' /\ RestInv'
  BY DEF IInv, LockInv, RestInv, OnlyStripe, lockVars
<1>3. RefundInv'
  BY QuietRefunds DEF IInv, OnlyStripe
<1> QED
  BY <1>1, <1>2, <1>3 DEF IInv

LEMMA WorldStep ==
  ASSUME IInv, NEW i \in SubIds, World(i)
  PROVE  IInv'
<1>1. subs[i] \in Subscription /\ charged \subseteq SubIds
  BY DEF IInv, StripeInv, RestInv
<1>2. ASSUME NEW status \in Statuses, Moves(i, status), OnlyStripe,
             charged' \subseteq charged \cup {i}
      PROVE  IInv'
  <2>1. [subs[i] EXCEPT !.status = status] \in Subscription
    BY <1>1 DEF Subscription
  <2>2. StripeInv' /\ everGranted \subseteq everGranted'
    BY <1>2, <2>1, StripeStep DEF IInv, Moves
  <2> QED
    BY <1>1, <1>2, <2>2, StripeAlone
<1>3. CASE FirstPayment(i)
  <2>1. [subs[i] EXCEPT !.status = "active", !.card = TRUE] \in Subscription
    BY <1>1 DEF Subscription, Statuses
  <2>2. StripeInv' /\ everGranted \subseteq everGranted'
    BY <1>3, <2>1, StripeStep DEF IInv, FirstPayment
  <2> QED
    BY <1>1, <1>3, <2>2, StripeAlone DEF FirstPayment
<1>4. CASE ConfirmTrialCard(i)
  <2>1. StripeInv' /\ everGranted \subseteq everGranted'
    BY <1>1, <1>4 DEF IInv, StripeInv, ConfirmTrialCard, Subscription, GrantsAccess
  <2> QED
    BY <1>1, <1>4, <2>1, StripeAlone DEF ConfirmTrialCard
<1>5. CASE TrialEnds(i)
  BY <1>2, <1>5 DEF TrialEnds, Statuses
<1>6. CASE RenewalFails(i)
  BY <1>2, <1>6 DEF RenewalFails, Statuses
<1>7. CASE RetriesExhausted(i)
  BY <1>2, <1>7 DEF RetriesExhausted, Statuses
<1>8. CASE LatePayment(i)
  BY <1>2, <1>8 DEF LatePayment, Statuses
<1>9. CASE CheckoutExpires(i)
  BY <1>2, <1>9 DEF CheckoutExpires, Statuses
<1>10. CASE StopsPaying(i)
  BY <1>2, <1>10 DEF StopsPaying, Statuses
<1> QED
  BY <1>3, <1>4, <1>5, <1>6, <1>7, <1>8, <1>9, <1>10 DEF World

-----------------------------------------------------------------------------
(* The theorems *)

LEMMA InitIInv == Init => IInv
<1> SUFFICES ASSUME Init PROVE IInv
  OBVIOUS
<1>1. StripeInv
  BY ConstantTypes DEF Init, StripeInv
<1>2. RequestInv
  <2>1. IdleRequest \in Request /\ RequestOK(IdleRequest, everGranted)
    BY IdleIsOK DEF RequestOK
  <2> QED
    BY <2>1 DEF Init, RequestInv
<1>3. LockInv /\ RestInv /\ RefundInv
  BY ConstantTypes, BoundsAssumption DEF Init, LockInv, RestInv, RefundInv
<1> QED
  BY <1>1, <1>2, <1>3 DEF IInv

LEMMA NextIInv == IInv /\ [Next]_vars => IInv'
<1> SUFFICES ASSUME IInv, [Next]_vars PROVE IInv'
  OBVIOUS
<1>1. ASSUME NEW p \in Procs, Start(p)
      PROVE  IInv'
  BY <1>1, StartCheckoutStep, StartStatusStep, StartCancelStep, DeliverStep DEF Start
<1>2. ASSUME NEW p \in Procs, Checkout(p)
      PROVE  IInv'
  BY <1>2, AcquireHostLockStep, LockUserStep, ReuseCheckoutStep, CancelStaleStep,
     CreateSubscriptionStep, CreateRefusedStep, RespondStep DEF Checkout
<1>3. ASSUME NEW p \in Procs, Sync(p)
      PROVE  IInv'
  BY <1>3, AdoptTrialCardStep, ApplySubscriptionStep, KeepOneStep, CancelExtraStep,
     RefundExtraStep, CommitStep DEF Sync
<1>4. ASSUME NEW p \in Procs, Proceed(p)
      PROVE  IInv'
  BY <1>2, <1>3, <1>4, AdoptRefusedStep, TrialLookupStep, TrialStoreStep,
     RetrieveOwnStep, CancelAtStripeStep, LoadUserStep DEF Proceed
<1>5. ASSUME NEW p \in Procs, Fail(p)
      PROVE  IInv'
  BY <1>5, RequestFailsStep, RefreshFailsStep, TrialLookupFailsStep,
     CancelStaleFailsStep DEF Fail
<1>6. ASSUME NEW i \in SubIds, World(i)
      PROVE  IInv'
  BY <1>6, WorldStep
<1>7. CASE CacheExpires
  <2>1. StripeInv' /\ everGranted' = everGranted
    BY <1>7, QuietStripe DEF IInv, CacheExpires
  <2> QED
    BY <1>7, <2>1, QuietRefunds DEF IInv, CacheExpires, RequestInv, LockInv, RestInv,
       stripeVars, lockVars
<1>8. CASE UNCHANGED vars
  BY <1>8 DEF IInv, StripeInv, RequestInv, LockInv, RestInv, RefundInv, vars
<1> QED
  BY <1>1, <1>4, <1>5, <1>6, <1>7, <1>8 DEF Next

\* The inductive invariant holds throughout: requests know only what was
\* true, and only subscriptions with an older one that paid are undone.
THEOREM Invariance == Spec => []IInv
  BY InitIInv, NextIInv, PTL DEF Spec

\* Every variable keeps its type, whatever the interleaving.
THEOREM TypeCorrect == Spec => []TypeOK
<1>1. IInv => TypeOK
  BY DEF IInv, StripeInv, RequestInv, LockInv, RestInv, RefundInv, TypeOK
<1> QED
  BY <1>1, Invariance, PTL

\* A charge is only ever given back when an older subscription of the same
\* customer had given access: _keep_one_subscription never refunds the
\* subscription the customer keeps, even when the listing lags.
THEOREM RefundsAreJustified == Spec => []RefundOnlyDuplicates
<1>1. IInv => RefundOnlyDuplicates
  BY DEF IInv, RefundInv, HasElder, RefundOnlyDuplicates
<1> QED
  BY <1>1, Invariance, PTL

-----------------------------------------------------------------------------
(* What a subscription can become *)

\* Its first payment, or the card of its trial, is no longer waited for.
Closed(s) == s.status # "none" /\ ~IsOpenCheckout(s)

\* A subscription that exists never disappears, one that ended or left its
\* checkout stays so, and the card confirmed for its trial is not forgotten.
Later(s, t) ==
    /\ s.status # "none" => t.status # "none"
    /\ s.status \in Ended => t.status \in Ended
    /\ Closed(s) => Closed(t)
    /\ s.status # "none" /\ s.setup => t.setup

\* Its webhook tells of every access that comes or goes.
Told ==
    \A i \in SubIds : (GrantsAccess(subs[i]) # GrantsAccess(subs'[i])) => i \in events'
Grows == \A i \in SubIds : Later(subs[i], subs'[i])
OnlyLiveCharged == \A i \in charged' : i \in charged \/ subs[i].status \notin Ended
Grants ==
    /\ everGranted \subseteq everGranted'
    /\ \A i \in everGranted' : i \in everGranted \/ (i \in SubIds /\ GrantsAccess(subs'[i]))
Lives == Grows /\ Told /\ OnlyLiveCharged /\ Grants

-----------------------------------------------------------------------------
(* Duplicates are refunded *)

Refunding(p, i) == req[p].pc = "refund" /\ i = Oldest(req[p].extras)
Owed(i) == i \in refunded \/ \E p \in Procs : Refunding(p, i)

UndoneInv ==
    /\ \A i \in everGranted : subs[i].status # "none"
    /\ \A p \in Procs : req[p].extras \subseteq everGranted
    /\ \A i \in undone : subs[i].status \in Ended
OwedInv == failures = MaxFailures => \A i \in undone \cap charged : Owed(i)

-----------------------------------------------------------------------------
(* One checkout at a time *)

OnlyCheckouts == Kinds \subseteq {"checkout"}

\* The locations of a checkout that has the row locked.
Inside == {"trial", "trialSet", "retrieve", "adopt", "reuse", "cancelStale",
           "create", "apply", "list", "undo", "refund", "save"}
Created(i, all) == i # NoSub => all[i].status # "none"
OverAt(i, all) == i # NoSub => Closed(all[i])

CheckoutOK(r, p, lock, rw, all) ==
    /\ r.pc # "idle" => r.kind = "checkout"
    /\ r.pc \notin {"load", "cancelAtStripe"}
    /\ r.pc \in Inside => lock = p /\ r.row = rw
    /\ r.pc \in {"trial", "trialSet", "retrieve"} => r.mem = rw
    /\ r.pc \in {"adopt", "apply", "list", "undo", "refund", "reuse", "cancelStale"}
         => r.sub = rw.sub
    /\ r.pc = "adopt" => all[r.sub].setup
    /\ r.pc \in {"apply", "list", "undo", "refund"} => GrantsAccess(r.snap)
    /\ r.pc \in {"undo", "refund"} => r.mem.pro
    /\ r.pc \in {"apply", "list", "undo", "refund", "create", "save"} => OverAt(rw.sub, all)
    /\ r.pc = "save" /\ ~r.mem.pro => r.mem.sub = r.sub
    /\ r.pc \in {"undo", "refund", "save"} => Created(r.mem.sub, all)
    /\ r.pc = "respond" => Created(r.sub, all)

Handed(i) == i \in shown \/ \E p \in Procs : req[p].pc = "respond" /\ req[p].sub = i
HandedInv ==
    /\ Created(row.sub, subs)
    /\ \A i \in shown : subs[i].status # "none"
    /\ \A i \in SubIds : Handed(i) /\ IsOpenCheckout(subs[i]) => i = row.sub
CheckoutInv ==
    failures = MaxFailures =>
        HandedInv /\ \A p \in Procs : CheckoutOK(req[p], p, rowLock, row, subs)

-----------------------------------------------------------------------------
(* One request at a time *)

Serial == \A p, q \in Procs : p = q

KindAt(r) ==
    /\ r.pc = "idle" => r.kind = "none"
    /\ r.pc \in {"hostLock", "rowLock", "create", "reuse", "cancelStale", "respond"}
         => r.kind = "checkout"
    /\ r.pc = "cancelAtStripe" => r.kind = "cancel"
    /\ r.pc = "load" => r.kind = "event"
    /\ r.pc \in {"trial", "trialSet", "retrieve"} => r.kind \in {"status", "checkout"}

\* The request still has the row it read.
Fresh(r) ==
    \/ r.pc \in {"retrieve", "adopt", "reuse", "cancelStale", "create", "cancelAtStripe",
                 "apply", "list", "undo", "refund", "save"}
    \/ r.pc \in {"trial", "trialSet"} /\ r.kind = "checkout"
Unchanged(r) == Fresh(r) /\ r.pc \notin {"undo", "refund", "save"}

SerialOK(r, rw, granted) ==
    /\ KindAt(r)
    /\ Fresh(r) => r.row = rw
    /\ Unchanged(r) => r.mem = rw
    /\ Unchanged(r) /\ r.kind = "checkout" => ~rw.pro
    /\ r.pc \in {"undo", "refund"} => r.mem.pro
    /\ r.mem.pro => r.mem.sub \in granted

EarnedRow == row.pro => row.sub \in everGranted
EarnedInv == EarnedRow /\ \A p \in Procs : SerialOK(req[p], row, everGranted)

\* Whatever gave or lost access is still to be told, or is being handled.
Handling(p, i) == req[p].kind = "event" /\ req[p].sub = i
Pending(i) == i \in events \/ \E p \in Procs : Handling(p, i)
StillDuplicates(r) ==
    CASE r.pc = "undo" -> r.extras
      [] r.pc = "refund" -> r.extras \ {Oldest(r.extras)}
      [] OTHER -> {}
Keeps(r, all, ev) ==
    /\ GrantsAccess(all[r.mem.sub]) \/ r.mem.sub \in ev
    /\ r.mem.sub \notin r.extras
    /\ ListingLags \/ \A i \in Granting(all) :
            i = r.mem.sub \/ i \in ev \/ i \in StillDuplicates(r)
StepOK(r, rw, all, ev) ==
    /\ r.sub # NoSub /\ GrantsAccess(r.snap) # GrantsAccess(all[r.sub]) => r.sub \in ev
    /\ r.pc \in {"undo", "refund", "save"} /\ r.mem.pro => Keeps(r, all, ev)
    /\ r.pc = "save" /\ ~r.mem.pro => ~GrantsAccess(r.snap) /\ (rw.pro => rw.sub = r.sub)
PlanRow ==
    /\ ListingLags \/ \A i \in Granting(subs) : (row.pro /\ row.sub = i) \/ Pending(i)
    /\ row.pro => GrantsAccess(subs[row.sub]) \/ Pending(row.sub)
PlanInv == PlanRow /\ \A p \in Procs : StepOK(req[p], row, subs, events)

-----------------------------------------------------------------------------
(* Every step lets subscriptions only grow older *)

\* A change of one subscription to a later state of it, told by its webhook.
LEMMA ChangeLives ==
  ASSUME StripeInv, NEW i \in SubIds, NEW s, StripeChanges(i, s), Later(subs[i], s)
  PROVE  Grows /\ Told /\ Grants
<1>1. \A j \in SubIds : subs'[j] = IF j = i THEN s ELSE subs[j]
  BY DEF StripeInv, StripeChanges
<1>2. /\ events' = events \cup {i}
      /\ everGranted' = everGranted \cup (IF GrantsAccess(s) THEN {i} ELSE {})
  BY DEF StripeChanges
<1>3. \A t : Later(t, t)
  BY DEF Later
<1> QED
  BY <1>1, <1>2, <1>3 DEF Grows, Told, Grants

LEMMA QuietLives ==
  ASSUME UNCHANGED <<subs, charged, everGranted>>
  PROVE  Lives
BY DEF Lives, Grows, Told, OnlyLiveCharged, Grants, Later

LEMMA CanceledIsLater ==
  ASSUME NEW i \in SubIds, StripeInv
  PROVE  Later(subs[i], [subs[i] EXCEPT !.status = "canceled"])
BY DEF Later, Closed, IsOpenCheckout, GrantsAccess, Ended, Access, StripeInv, Subscription

\* A request that cancels a subscription, or finds it over.
LEMMA CancelLives ==
  ASSUME StripeInv, NEW i \in SubIds, UNCHANGED charged,
         \/ StripeChanges(i, [subs[i] EXCEPT !.status = "canceled"])
         \/ UNCHANGED <<subs, events, everGranted>>
  PROVE  Lives
<1>1. CASE StripeChanges(i, [subs[i] EXCEPT !.status = "canceled"])
  <2>1. Grows /\ Told /\ Grants
    BY <1>1, ChangeLives, CanceledIsLater
  <2> QED
    BY <2>1 DEF Lives, OnlyLiveCharged
<1>2. CASE UNCHANGED <<subs, events, everGranted>>
  BY <1>2, QuietLives
<1> QED
  BY <1>1, <1>2

LEMMA StartLives == ASSUME NEW p \in Procs, Start(p) PROVE Lives
<1>1. UNCHANGED <<subs, charged, everGranted>>
  BY DEF Start, StartCheckout, StartStatus, StartCancel, Deliver, stripeVars
<1> QED
  BY <1>1, QuietLives

LEMMA FailLives == ASSUME NEW p \in Procs, Fail(p) PROVE Lives
<1>1. UNCHANGED <<subs, charged, everGranted>>
  BY DEF Fail, RequestFails, RefreshFails, TrialLookupFails, CancelStaleFails, stripeVars
<1> QED
  BY <1>1, QuietLives

LEMMA CreateLives ==
  ASSUME IInv, NEW p \in Procs, CreateSubscription(p)
  PROVE  Lives
<1> DEFINE new == [Uncreated EXCEPT !.plan = req[p].plan, !.trial = req[p].trial,
                      !.status = IF req[p].trial THEN "trialing" ELSE "incomplete"]
<1>1. NextId \in SubIds /\ subs[NextId].status = "none"
  BY NextIdIsNew DEF IInv, CreateSubscription
<1>2. Later(subs[NextId], new)
  BY <1>1 DEF Later, Closed, Ended
<1>3. StripeChanges(NextId, new) /\ UNCHANGED charged
  BY DEF CreateSubscription
<1> QED
  BY <1>1, <1>2, <1>3, ChangeLives DEF IInv, Lives, OnlyLiveCharged

LEMMA AdoptLives ==
  ASSUME IInv, NEW p \in Procs, AdoptTrialCard(p)
  PROVE  Lives
<1> DEFINE i == req[p].sub
<1> DEFINE adopted == [subs[i] EXCEPT !.card = TRUE]
<1>1. i \in SubIds
  BY ReqOK DEF IInv, RequestOK, WellPlaced, AdoptTrialCard, At, Request
<1>2. subs[i] \in Subscription
  BY <1>1 DEF IInv, StripeInv
<1>3. Later(subs[i], adopted)
  BY <1>2 DEF Later, Closed, IsOpenCheckout, GrantsAccess, Ended, Access, Subscription
<1>4. UNCHANGED charged
  BY DEF AdoptTrialCard, stripeVars
<1>5. CASE StripeChanges(i, adopted)
  BY <1>1, <1>3, <1>4, <1>5, ChangeLives DEF IInv, Lives, OnlyLiveCharged
<1>6. CASE UNCHANGED stripeVars
  BY <1>6, QuietLives DEF stripeVars
<1> QED
  BY <1>5, <1>6 DEF AdoptTrialCard

LEMMA CancelAtStripeLives ==
  ASSUME IInv, NEW p \in Procs, CancelAtStripe(p)
  PROVE  Lives
<1> DEFINE i == req[p].mem.sub
<1>1. i \in SubIds
  BY ReqOK DEF IInv, RequestOK, WellPlaced, CancelAtStripe, At, Request, Row
<1>2. UNCHANGED charged
  BY DEF CancelAtStripe
<1>3. CASE StripeChanges(i, subs[i])
  <2>1. Later(subs[i], subs[i])
    BY DEF Later
  <2> QED
    BY <1>1, <1>2, <1>3, <2>1, ChangeLives DEF IInv, Lives, OnlyLiveCharged
<1>4. CASE \/ StripeChanges(i, [subs[i] EXCEPT !.status = "canceled"])
           \/ UNCHANGED <<subs, events, everGranted>>
  BY <1>1, <1>2, <1>4, CancelLives DEF IInv
<1> QED
  BY <1>3, <1>4 DEF CancelAtStripe

LEMMA ProceedLives ==
  ASSUME IInv, NEW p \in Procs, Proceed(p)
  PROVE  Lives
<1>1. CASE CancelStale(p)
  <2>1. req[p].sub \in SubIds
    BY <1>1, ReqOK DEF IInv, RequestOK, WellPlaced, CancelStale, At, Request
  <2> QED
    BY <1>1, <2>1, CancelLives DEF IInv, CancelStale
<1>2. CASE CancelExtra(p)
  <2>1. Oldest(req[p].extras) \in SubIds
    BY <1>2, ReqOK, OldestIsLeast DEF IInv, CancelExtra, At, RequestOK, WellPlaced, Request
  <2> QED
    BY <1>2, <2>1, CancelLives DEF IInv, CancelExtra
<1>3. CASE UNCHANGED <<subs, charged, everGranted>>
  BY <1>3, QuietLives
<1>4. \/ UNCHANGED <<subs, charged, everGranted>>
      \/ CancelStale(p) \/ CreateSubscription(p) \/ AdoptTrialCard(p)
      \/ CancelExtra(p) \/ CancelAtStripe(p)
  BY DEF Proceed, Checkout, Sync, AcquireHostLock, LockUser, ReuseCheckout, CreateRefused,
     Respond, ApplySubscription, KeepOne, RefundExtra, Commit, AdoptRefused, TrialLookup,
     TrialStore, RetrieveOwn, LoadUser, stripeVars
<1> QED
  BY <1>1, <1>2, <1>3, <1>4, CreateLives, AdoptLives, CancelAtStripeLives

LEMMA WorldLives ==
  ASSUME IInv, NEW i \in SubIds, World(i)
  PROVE  Lives
<1>1. subs[i] \in Subscription /\ StripeInv
  BY DEF IInv, StripeInv
<1>2. ASSUME NEW status, Moves(i, status), subs[i].status \notin Ended \cup {"none"},
             status \notin {"none", "incomplete", "trialing"},
             charged' \subseteq charged \cup {i}
      PROVE  Lives
  <2>1. Later(subs[i], [subs[i] EXCEPT !.status = status])
    BY <1>1, <1>2 DEF Later, Closed, IsOpenCheckout, Subscription
  <2>2. Grows /\ Told /\ Grants
    BY <1>1, <1>2, <2>1, ChangeLives DEF Moves
  <2> QED
    BY <1>2, <2>2 DEF Lives, OnlyLiveCharged
<1>3. CASE FirstPayment(i)
  <2>1. Later(subs[i], [subs[i] EXCEPT !.status = "active", !.card = TRUE])
    BY <1>1, <1>3 DEF FirstPayment, Later, Closed, IsOpenCheckout, Subscription, Ended
  <2>2. Grows /\ Told /\ Grants
    BY <1>1, <1>3, <2>1, ChangeLives DEF FirstPayment
  <2> QED
    BY <1>3, <2>2 DEF FirstPayment, Lives, OnlyLiveCharged, Ended
<1>4. CASE ConfirmTrialCard(i)
  <2>1. /\ \A j \in SubIds : subs'[j] = IF j = i THEN [subs[i] EXCEPT !.setup = TRUE] ELSE subs[j]
        /\ UNCHANGED <<events, everGranted, charged>>
    BY <1>1, <1>4 DEF ConfirmTrialCard, StripeInv
  <2>2. \A j \in SubIds : /\ subs'[j].status = subs[j].status
                          /\ subs'[j].card = subs[j].card
                          /\ subs[j].setup => subs'[j].setup
    BY <1>1, <2>1 DEF Subscription
  <2> QED
    BY <2>1, <2>2 DEF Lives, Grows, Told, Grants, OnlyLiveCharged, Later, Closed,
       IsOpenCheckout, GrantsAccess
<1>5. CASE TrialEnds(i)
  BY <1>2, <1>5 DEF TrialEnds, Ended
<1>6. CASE RenewalFails(i)
  BY <1>2, <1>6 DEF RenewalFails, Ended
<1>7. CASE RetriesExhausted(i)
  BY <1>2, <1>7 DEF RetriesExhausted, Ended
<1>8. CASE LatePayment(i)
  BY <1>2, <1>8 DEF LatePayment, Ended
<1>9. CASE CheckoutExpires(i)
  BY <1>2, <1>9 DEF CheckoutExpires, Ended
<1>10. CASE StopsPaying(i)
  BY <1>2, <1>10 DEF StopsPaying, Ended
<1> QED
  BY <1>3, <1>4, <1>5, <1>6, <1>7, <1>8, <1>9, <1>10 DEF World

LEMMA NextLives == ASSUME IInv, [Next]_vars PROVE Lives
<1>1. CASE CacheExpires \/ UNCHANGED vars
  BY <1>1, QuietLives DEF CacheExpires, vars, stripeVars
<1> QED
  BY <1>1, StartLives, ProceedLives, FailLives, WorldLives DEF Next

-----------------------------------------------------------------------------
(* What a step does to the requests *)

\* A step of p concerns no other request and undoes or refunds nothing.
QuietFor(p) ==
    /\ \A q \in Procs : q # p => req'[q] = req[q]
    /\ req'[p].extras \subseteq req[p].extras
    /\ UNCHANGED <<undone, refunded>>

LEMMA ContinueQuiet ==
  ASSUME req \in [Procs -> Request], NEW p \in Procs, NEW r, Continue(p, r),
         r.extras \subseteq req[p].extras, UNCHANGED <<undone, refunded>>
  PROVE  QuietFor(p)
BY DEF Continue, QuietFor

LEMMA EndQuiet ==
  ASSUME req \in [Procs -> Request], NEW p \in Procs, End(p), UNCHANGED <<undone, refunded>>
  PROVE  QuietFor(p)
BY DEF End, IdleRequest, QuietFor

LEMMA AfterSyncQuiet ==
  ASSUME req \in [Procs -> Request], NEW p \in Procs, AfterSync(p),
         UNCHANGED <<undone, refunded>>
  PROVE  QuietFor(p)
<1>1. CASE Goto(p, "trial")
  BY <1>1, ContinueQuiet DEF Goto, Request
<1>2. CASE End(p)
  BY <1>2, EndQuiet
<1> QED
  BY <1>1, <1>2 DEF AfterSync

LEMMA TrialKnownQuiet ==
  ASSUME req \in [Procs -> Request], NEW p \in Procs, NEW trial, TrialKnown(p, trial),
         UNCHANGED <<undone, refunded>>
  PROVE  QuietFor(p)
<1>1. CASE End(p)
  BY <1>1, EndQuiet
<1>2. CASE Continue(p, [req[p] EXCEPT !.trial = trial,
            !.pc = IF req[p].mem.sub = NoSub THEN "create" ELSE "retrieve"])
  <2> DEFINE loc == IF req[p].mem.sub = NoSub THEN "create" ELSE "retrieve"
  <2> HIDE DEF loc
  <2>1. Continue(p, [req[p] EXCEPT !.trial = trial, !.pc = loc])
    BY <1>2 DEF loc
  <2> QED
    BY <2>1, ContinueQuiet DEF Request
<1> QED
  BY <1>1, <1>2 DEF TrialKnown

\* Where a request goes on leaves its duplicates alone.
LEMMA RoutesQuiet ==
  ASSUME NEW r \in Request
  PROVE  /\ SyncFrom(r).extras = r.extras
         /\ CheckoutFrom(r).extras = r.extras
         /\ AfterAdopt(r).extras = r.extras
<1>1. \A loc : [r EXCEPT !.pc = loc].extras = r.extras
  BY DEF Request
<1>2. SyncFrom(r).extras = r.extras
  BY <1>1 DEF SyncFrom
<1>3. CheckoutFrom(r).extras = r.extras
  BY <1>1 DEF CheckoutFrom
<1> QED
  BY <1>2, <1>3 DEF AfterAdopt

LEMMA StartQuiet ==
  ASSUME IInv, NEW p \in Procs, Start(p)
  PROVE  QuietFor(p) /\ req[p].pc = "idle"
<1>1. req \in [Procs -> Request] /\ IdleRequest.extras = {}
  BY DEF IInv, RequestInv, IdleRequest
<1>2. ASSUME NEW plan, StartCheckout(p, plan) PROVE QuietFor(p)
  BY <1>1, <1>2, ContinueQuiet DEF StartCheckout, IdleRequest
<1>3. ASSUME NEW refresh, StartStatus(p, refresh) PROVE QuietFor(p)
  <2> DEFINE loc == IF refresh /\ row.sub # NoSub THEN "retrieve" ELSE "trial"
  <2>1. UNCHANGED <<undone, refunded>>
    BY <1>3 DEF StartStatus
  <2>2. Continue(p, [Loaded(p) EXCEPT !.kind = "status", !.pc = loc])
    BY <1>3 DEF StartStatus
  <2> HIDE DEF loc
  <2> QED
    BY <1>1, <2>1, <2>2, ContinueQuiet DEF Loaded, Request
<1>4. ASSUME StartCancel(p) PROVE QuietFor(p)
  BY <1>1, <1>4, ContinueQuiet DEF StartCancel, Loaded, Request
<1>5. ASSUME NEW i, Deliver(p, i) PROVE QuietFor(p)
  BY <1>1, <1>5, ContinueQuiet DEF Deliver, Seen, IdleRequest
<1>6. req[p].pc = "idle"
  BY DEF Start, StartCheckout, StartStatus, StartCancel, Deliver, At
<1> QED
  BY <1>2, <1>3, <1>4, <1>5, <1>6 DEF Start

LEMMA FailQuiet ==
  ASSUME IInv, NEW p \in Procs, Fail(p)
  PROVE  QuietFor(p) /\ failures' # MaxFailures
<1>1. req \in [Procs -> Request] /\ req[p] \in Request
  BY DEF IInv, RequestInv
<1>2. failures' = failures - 1 /\ undone' = undone /\ refunded' = refunded
  <2>1. CASE RequestFails(p)
    BY <2>1 DEF RequestFails
  <2>2. CASE RefreshFails(p)
    BY <2>2 DEF RefreshFails
  <2>3. CASE TrialLookupFails(p)
    BY <2>3 DEF TrialLookupFails
  <2>4. CASE CancelStaleFails(p)
    BY <2>4 DEF CancelStaleFails
  <2> QED
    BY <2>1, <2>2, <2>3, <2>4 DEF Fail
<1>3. failures' # MaxFailures
  BY <1>2, BoundsAssumption DEF IInv, RestInv
<1>4. CASE RequestFails(p)
  BY <1>1, <1>2, <1>3, <1>4, EndQuiet DEF RequestFails
<1>5. CASE RefreshFails(p)
  BY <1>1, <1>2, <1>3, <1>5, ContinueQuiet DEF RefreshFails, Request
<1>6. CASE TrialLookupFails(p)
  BY <1>1, <1>2, <1>3, <1>6, TrialKnownQuiet DEF TrialLookupFails
<1>7. CASE CancelStaleFails(p)
  BY <1>1, <1>2, <1>3, <1>7, ContinueQuiet DEF CancelStaleFails, Goto, Request
<1> QED
  BY <1>3, <1>4, <1>5, <1>6, <1>7 DEF Fail

LEMMA ProceedQuiet ==
  ASSUME IInv, NEW p \in Procs, Proceed(p), ~KeepOne(p), ~CancelExtra(p), ~RefundExtra(p)
  PROVE  QuietFor(p) /\ req[p].pc # "refund"
<1>1. req \in [Procs -> Request] /\ req[p] \in Request
  BY DEF IInv, RequestInv
<1>2. \/ AcquireHostLock(p) \/ LockUser(p) \/ ReuseCheckout(p) \/ CancelStale(p)
      \/ CreateSubscription(p) \/ CreateRefused(p) \/ Respond(p)
      \/ AdoptTrialCard(p) \/ ApplySubscription(p) \/ Commit(p) \/ AdoptRefused(p)
      \/ TrialLookup(p) \/ TrialStore(p) \/ RetrieveOwn(p)
      \/ CancelAtStripe(p) \/ LoadUser(p)
  BY DEF Proceed, Checkout, Sync
<1>3. UNCHANGED <<undone, refunded>> /\ req[p].pc # "refund"
  BY <1>2 DEF AcquireHostLock, LockUser, ReuseCheckout, CancelStale, CreateSubscription,
     CreateRefused, Respond, AdoptTrialCard, ApplySubscription, Commit, AdoptRefused,
     TrialLookup, TrialStore, RetrieveOwn, CancelAtStripe, LoadUser, At
<1>4. ASSUME NEW r, req' = [req EXCEPT ![p] = r], r.extras \subseteq req[p].extras
      PROVE  QuietFor(p)
  BY <1>1, <1>3, <1>4 DEF QuietFor
<1>5. CASE AcquireHostLock(p) \/ ReuseCheckout(p) \/ CancelStale(p)
  <2>1. \E loc \in {"rowLock", "respond", "create"} :
            req' = [req EXCEPT ![p] = [req[p] EXCEPT !.pc = loc]]
    <3>1. CASE AcquireHostLock(p)
      BY <1>1, <3>1 DEF AcquireHostLock
    <3>2. CASE ReuseCheckout(p)
      BY <1>1, <3>2 DEF ReuseCheckout
    <3>3. CASE CancelStale(p)
      BY <1>1, <3>3 DEF CancelStale, Goto, Continue
    <3> QED
      BY <1>5, <3>1, <3>2, <3>3
  <2> QED
    BY <1>1, <1>3, <1>4, <2>1 DEF Request
<1>6. CASE LockUser(p)
  <2>1. CASE End(p)
    BY <1>1, <1>3, <2>1, EndQuiet
  <2>2. CASE req' = [req EXCEPT ![p] = [Loaded(p) EXCEPT !.pc = "trial"]]
    BY <1>1, <1>3, <1>4, <2>2 DEF Loaded, Request
  <2> QED
    BY <1>6, <2>1, <2>2 DEF LockUser
<1>7. CASE CreateSubscription(p)
  <2>1. ASSUME NEW new, Continue(p, [Seen(req[p], NextId, new) EXCEPT !.mem.sub = NextId,
                                         !.pc = "save"])
        PROVE  QuietFor(p)
    <3>1. [Seen(req[p], NextId, new) EXCEPT !.mem.sub = NextId, !.pc = "save"].extras
            = req[p].extras
      BY <1>1 DEF Seen, Request
    <3> QED
      BY <1>1, <1>3, <2>1, <3>1, ContinueQuiet
  <2> QED
    BY <1>1, <1>3, <1>7, <2>1, EndQuiet DEF CreateSubscription
<1>8. CASE CreateRefused(p) \/ Respond(p)
  BY <1>1, <1>3, <1>8, EndQuiet DEF CreateRefused, Respond
<1>9. CASE AdoptTrialCard(p)
  <2>1. ASSUME NEW s \in Subscription, Continue(p, AfterAdopt([req[p] EXCEPT !.snap = s]))
        PROVE  QuietFor(p)
    <3>1. [req[p] EXCEPT !.snap = s] \in Request /\ [req[p] EXCEPT !.snap = s].extras = req[p].extras
      BY <1>1 DEF Request
    <3> QED
      BY <1>1, <1>3, <2>1, <3>1, RoutesQuiet, ContinueQuiet
  <2>2. req[p].sub \in SubIds
    BY <1>9, ReqOK DEF IInv, RequestOK, WellPlaced, AdoptTrialCard, At, Request
  <2>3. [subs[req[p].sub] EXCEPT !.card = TRUE] \in Subscription
    BY <2>2 DEF IInv, StripeInv, Subscription
  <2>4. CASE Goto(p, "apply")
    BY <1>1, <1>3, <2>4, ContinueQuiet DEF Goto, Request
  <2> DEFINE adopted == [subs[req[p].sub] EXCEPT !.card = TRUE]
  <2>5. Continue(p, AfterAdopt([req[p] EXCEPT !.snap = adopted])) \/ Goto(p, "apply")
    BY <1>9 DEF AdoptTrialCard
  <2>6. adopted \in Subscription
    BY <2>3
  <2> HIDE DEF adopted
  <2> QED
    BY <2>1, <2>4, <2>5, <2>6, <1>3
<1>10. CASE ApplySubscription(p)
  <2>1. ASSUME NEW m, Continue(p, [req[p] EXCEPT !.mem = m, !.pc = "save"])
        PROVE  QuietFor(p)
    BY <1>1, <1>3, <2>1, ContinueQuiet DEF Request
  <2>2. CASE Goto(p, "list")
    BY <1>1, <1>3, <2>2, ContinueQuiet DEF Goto, Request
  <2> QED
    BY <1>1, <1>3, <1>10, <2>1, <2>2, AfterSyncQuiet DEF ApplySubscription
<1>11. CASE Commit(p)
  <2>1. CASE req' = [req EXCEPT ![p].pc = "respond"]
    <3>1. req' = [req EXCEPT ![p] = [req[p] EXCEPT !.pc = "respond"]]
      BY <1>1, <2>1
    <3> QED
      BY <1>1, <1>3, <1>4, <3>1 DEF Request
  <2> QED
    BY <1>1, <1>3, <1>11, <2>1, AfterSyncQuiet DEF Commit
<1>12. CASE AdoptRefused(p)
  BY <1>1, <1>3, <1>12, AfterSyncQuiet DEF AdoptRefused
<1>13. CASE TrialLookup(p)
  <2>1. CASE Continue(p, [req[p] EXCEPT !.trial = ~SubscribedBefore, !.pc = "trialSet"])
    BY <1>1, <1>3, <2>1, ContinueQuiet DEF Request
  <2> QED
    BY <1>1, <1>3, <1>13, <2>1, TrialKnownQuiet DEF TrialLookup
<1>14. CASE TrialStore(p)
  BY <1>1, <1>3, <1>14, TrialKnownQuiet DEF TrialStore
<1>15. CASE RetrieveOwn(p)
  <2> DEFINE r == Seen(req[p], req[p].mem.sub, subs[req[p].mem.sub])
  <2>1. req[p].mem.sub \in SubIds
    BY <1>15, ReqOK DEF IInv, RequestOK, WellPlaced, RetrieveOwn, At, Request, Row
  <2>2. r \in Request /\ r.extras = req[p].extras
    BY <1>1, <2>1 DEF Seen, Request, IInv, StripeInv
  <2> HIDE DEF r
  <2>3. [r EXCEPT !.pc = "adopt"].extras = r.extras
    BY <2>2 DEF Request
  <2>4. Continue(p, SyncFrom(r)) \/ Continue(p, CheckoutFrom(r)) \/ Continue(p, [r EXCEPT !.pc = "adopt"])
    BY <1>15 DEF RetrieveOwn, r
  <2> QED
    BY <1>1, <1>3, <2>2, <2>3, <2>4, RoutesQuiet, ContinueQuiet
<1>16. CASE CancelAtStripe(p)
  <2>1. ASSUME NEW s \in Subscription, Continue(p, SyncFrom(Seen(req[p], req[p].mem.sub, s)))
        PROVE  QuietFor(p)
    <3>1. req[p].mem.sub \in SubIds
      BY <1>16, ReqOK DEF IInv, RequestOK, WellPlaced, CancelAtStripe, At, Request, Row
    <3>2. Seen(req[p], req[p].mem.sub, s) \in Request /\ Seen(req[p], req[p].mem.sub, s).extras = req[p].extras
      BY <1>1, <3>1 DEF Seen, Request
    <3> QED
      BY <1>1, <1>3, <2>1, <3>2, RoutesQuiet, ContinueQuiet
  <2>2. req[p].mem.sub \in SubIds
    BY <1>16, ReqOK DEF IInv, RequestOK, WellPlaced, CancelAtStripe, At, Request, Row
  <2>3. \A s \in {subs[req[p].mem.sub], [subs[req[p].mem.sub] EXCEPT !.status = "canceled"]} : s \in Subscription
    BY <2>2 DEF IInv, StripeInv, Subscription, Statuses
  <2> QED
    BY <1>1, <1>3, <1>16, <2>1, <2>3, EndQuiet DEF CancelAtStripe
<1>17. CASE LoadUser(p)
  <2>1. Loaded(p) \in Request /\ Loaded(p).extras = req[p].extras
    BY <1>1 DEF Loaded, Request, IInv, RestInv
  <2> QED
    BY <1>1, <1>3, <1>17, <2>1, RoutesQuiet, ContinueQuiet DEF LoadUser
<1> QED
  BY <1>2, <1>3, <1>5, <1>6, <1>7, <1>8, <1>9, <1>10, <1>11, <1>12, <1>13, <1>14,
     <1>15, <1>16, <1>17

-----------------------------------------------------------------------------
(* Duplicates are undone to the end *)

\* A call that fails is counted: until then every call was answered.
LEMMA FailuresFall ==
  ASSUME IInv, [Next]_vars, failures' = MaxFailures
  PROVE  failures = MaxFailures /\ ~\E p \in Procs : Fail(p)
<1>1. ~\E p \in Procs : Fail(p)
  BY FailQuiet
<1>2. ASSUME NEW p \in Procs, Start(p) PROVE UNCHANGED failures
  BY <1>2 DEF Start, StartCheckout, StartStatus, StartCancel, Deliver
<1>3. ASSUME NEW p \in Procs, Proceed(p) PROVE UNCHANGED failures
  <2>1. CASE Checkout(p)
    BY <2>1 DEF Checkout, AcquireHostLock, LockUser, ReuseCheckout, CancelStale,
       CreateSubscription, CreateRefused, Respond
  <2>2. CASE Sync(p)
    BY <2>2 DEF Sync, AdoptTrialCard, ApplySubscription, KeepOne, CancelExtra, RefundExtra,
       Commit
  <2> QED
    BY <1>3, <2>1, <2>2 DEF Proceed, AdoptRefused, TrialLookup, TrialStore, RetrieveOwn,
       CancelAtStripe, LoadUser
<1>4. ASSUME NEW i \in SubIds, World(i) PROVE UNCHANGED failures
  BY <1>4 DEF World, FirstPayment, ConfirmTrialCard, TrialEnds, RenewalFails,
     RetriesExhausted, LatePayment, CheckoutExpires, StopsPaying, OnlyStripe
<1> QED
  BY <1>1, <1>2, <1>3, <1>4 DEF Next, CacheExpires, vars

\* The steps that find, cancel and refund duplicates; no other undoes any.
LEMMA StepKinds ==
  ASSUME IInv, [Next]_vars
  PROVE  \/ UNCHANGED <<req, undone, refunded>>
         \/ \E p \in Procs : QuietFor(p) /\ (req[p].pc # "refund" \/ failures' # MaxFailures)
         \/ \E p \in Procs : KeepOne(p) \/ CancelExtra(p) \/ RefundExtra(p)
<1>1. ASSUME NEW i \in SubIds, World(i) PROVE UNCHANGED <<req, undone, refunded>>
  BY <1>1 DEF World, FirstPayment, ConfirmTrialCard, TrialEnds, RenewalFails,
     RetriesExhausted, LatePayment, CheckoutExpires, StopsPaying, OnlyStripe
<1>2. CASE CacheExpires \/ UNCHANGED vars
  BY <1>2 DEF CacheExpires, vars
<1> QED
  BY <1>1, <1>2, StartQuiet, ProceedQuiet, FailQuiet DEF Next

\* What KeepOne lists gave access; of it, a request undoes the rest.
LEMMA KeepOneUndoes ==
  ASSUME IInv, NEW p \in Procs, KeepOne(p)
  PROVE  /\ req[p].pc = "list" /\ req'[p].extras \subseteq everGranted
         /\ \A q \in Procs : q # p => req'[q] = req[q]
         /\ UNCHANGED <<undone, refunded, stripeVars, row, shown, lockVars, failures>>
<1>1. PICK missed \in SUBSET Granting(subs) :
        LET paying == (Granting(subs) \ missed) \cup {req[p].sub}
            extras == paying \ {Kept(paying)}
        IN /\ At(p, "list")
           /\ Continue(p, [req[p] EXCEPT
                !.extras = extras,
                !.mem = [pro |-> TRUE, sub |-> Kept(paying)],
                !.pc = IF extras = {} THEN "save" ELSE "undo"])
           /\ UNCHANGED <<stripeVars, refunded, shown, row, trialCache, failures, undone>>
  BY DEF KeepOne
<1> DEFINE paying == (Granting(subs) \ missed) \cup {req[p].sub}
<1> DEFINE extras == paying \ {Kept(paying)}
<1> DEFINE mem == [pro |-> TRUE, sub |-> Kept(paying)]
<1> DEFINE loc == IF extras = {} THEN "save" ELSE "undo"
<1>2. req[p].pc = "list" /\ req[p] \in Request /\ req[p].sub \in everGranted
  BY <1>1, ReqOK DEF IInv, At, RequestOK, WellPlaced, Grounded
<1>3. extras \subseteq everGranted
  BY <1>2 DEF IInv, StripeInv, Granting
<1>4. Continue(p, [req[p] EXCEPT !.extras = extras, !.mem = mem, !.pc = loc])
  BY <1>1
<1>5. UNCHANGED <<undone, refunded, stripeVars, row, shown, failures>>
  BY <1>1
<1> HIDE DEF extras, mem, loc
<1>6. [req[p] EXCEPT !.extras = extras, !.mem = mem, !.pc = loc].extras = extras
  BY <1>2 DEF Request
<1> QED
  BY <1>2, <1>3, <1>4, <1>5, <1>6 DEF Continue, IInv, RequestInv

\* Every duplicate a request has found gave access.
LEMMA ExtrasStep ==
  ASSUME IInv, UndoneInv, [Next]_vars, NEW q \in Procs
  PROVE  req'[q].extras \subseteq everGranted'
<1>1. everGranted \subseteq everGranted'
  BY NextLives DEF Lives, Grants
<1>2. req[q].extras \subseteq everGranted /\ req \in [Procs -> Request]
  BY DEF UndoneInv, IInv, RequestInv
<1>3. ASSUME NEW p \in Procs, CancelExtra(p) PROVE req'[q].extras = req[q].extras
  BY <1>2, <1>3 DEF CancelExtra, Goto, Continue, Request
<1>4. ASSUME NEW p \in Procs, RefundExtra(p) PROVE req'[q].extras \subseteq req[q].extras
  <2> DEFINE left == req[p].extras \ {Oldest(req[p].extras)}
  <2> DEFINE loc == IF left = {} THEN "save" ELSE "undo"
  <2>1. Continue(p, [req[p] EXCEPT !.extras = left, !.pc = loc])
    BY <1>4 DEF RefundExtra
  <2>2. left \subseteq req[p].extras
    OBVIOUS
  <2> HIDE DEF left, loc
  <2> QED
    BY <1>2, <2>1, <2>2 DEF Continue, Request
<1> QED
  BY <1>1, <1>2, <1>3, <1>4, StepKinds, KeepOneUndoes DEF QuietFor

LEMMA UndoneStep ==
  ASSUME IInv, UndoneInv, [Next]_vars
  PROVE  UndoneInv'
<1>1. Lives
  BY NextLives
<1>2. \A i \in everGranted' : subs'[i].status # "none"
  BY <1>1 DEF Lives, Grants, Grows, Later, UndoneInv, IInv, StripeInv, GrantsAccess, Access
<1>3. \A p \in Procs : req'[p].extras \subseteq everGranted'
  BY ExtrasStep
<1>4. \A i \in undone' : subs'[i].status \in Ended
  <2>1. \A i \in undone : subs'[i].status \in Ended
    BY <1>1 DEF UndoneInv, Lives, Grows, Later, IInv, RestInv
  <2>2. ASSUME NEW p \in Procs, CancelExtra(p)
        PROVE  undone' = undone \cup {Oldest(req[p].extras)}
               /\ subs'[Oldest(req[p].extras)].status \in Ended
    <3> DEFINE i == Oldest(req[p].extras)
    <3>1. i \in req[p].extras /\ i \in SubIds
      BY <2>2, ReqOK, OldestIsLeast DEF IInv, CancelExtra, At, RequestOK, WellPlaced, Request
    <3>2. subs[i] \in Subscription /\ subs[i].status # "none"
      BY <3>1 DEF UndoneInv, IInv, StripeInv
    <3> HIDE DEF i
    <3>3. CASE StripeChanges(i, [subs[i] EXCEPT !.status = "canceled"])
      BY <3>1, <3>2, <3>3, <2>2 DEF StripeChanges, IInv, StripeInv, Subscription, Ended,
         CancelExtra, i
    <3>4. CASE ~IsLive(subs[i]) /\ UNCHANGED subs
      BY <3>2, <3>4, <2>2 DEF IsLive, CancelExtra, i
    <3> QED
      BY <2>2, <3>3, <3>4 DEF CancelExtra, i
  <2>3. ASSUME NEW p \in Procs, RefundExtra(p) PROVE undone' = undone
    BY <2>3 DEF RefundExtra
  <2> QED
    BY <2>1, <2>2, <2>3, StepKinds, KeepOneUndoes DEF QuietFor
<1> QED
  BY <1>2, <1>3, <1>4 DEF UndoneInv

\* Whoever cancels a duplicate stays with it until it is refunded.
LEMMA OwedStep ==
  ASSUME IInv, UndoneInv, OwedInv, [Next]_vars
  PROVE  OwedInv'
<1> SUFFICES ASSUME failures' = MaxFailures, NEW i \in undone', i \in charged'
             PROVE  Owed(i)'
  BY DEF OwedInv
<1>1. failures = MaxFailures
  BY FailuresFall
<1>2. i \in charged \/ subs[i].status \notin Ended
  BY NextLives DEF Lives, OnlyLiveCharged
<1>3. i \in undone => i \in charged /\ Owed(i)
  BY <1>1, <1>2 DEF UndoneInv, OwedInv
<1>4. req \in [Procs -> Request] /\ i \in SubIds
  <2>1. undone' \subseteq SubIds
    BY NextIInv DEF IInv, RestInv
  <2> QED
    BY <2>1 DEF IInv, RequestInv
<1>5. CASE UNCHANGED <<req, undone, refunded>>
  BY <1>3, <1>5 DEF Owed, Refunding
<1>6. ASSUME NEW p \in Procs, QuietFor(p), req[p].pc # "refund"
      PROVE  Owed(i)'
  BY <1>3, <1>6 DEF Owed, Refunding, QuietFor
<1>7. ASSUME NEW p \in Procs, KeepOne(p) PROVE Owed(i)'
  BY <1>3, <1>7, KeepOneUndoes DEF Owed, Refunding
<1>8. ASSUME NEW p \in Procs, CancelExtra(p) PROVE Owed(i)'
  <2>1. undone' = undone \cup {Oldest(req[p].extras)} /\ refunded' = refunded
    BY <1>8 DEF CancelExtra
  <2>2. /\ req[p].pc = "undo" /\ req'[p].pc = "refund" /\ req'[p].extras = req[p].extras
        /\ \A q \in Procs : q # p => req'[q] = req[q]
    BY <1>4, <1>8 DEF CancelExtra, At, Goto, Continue, Request
  <2> QED
    BY <1>3, <2>1, <2>2 DEF Owed, Refunding
<1>9. ASSUME NEW p \in Procs, RefundExtra(p) PROVE Owed(i)'
  <2>1. /\ undone' = undone /\ UNCHANGED charged
        /\ refunded' = refunded \cup (charged \cap {Oldest(req[p].extras)})
    BY <1>9 DEF RefundExtra, stripeVars
  <2>2. \A q \in Procs : q # p => req'[q] = req[q]
    BY <1>4, <1>9 DEF RefundExtra, Continue
  <2> QED
    BY <1>3, <2>1, <2>2 DEF Owed, Refunding
<1> QED
  BY <1>5, <1>6, <1>7, <1>8, <1>9, StepKinds

DoneInv == IInv /\ UndoneInv /\ OwedInv

LEMMA InitDone == Init => DoneInv
<1> SUFFICES ASSUME Init PROVE UndoneInv /\ OwedInv
  BY InitIInv DEF DoneInv
<1> QED
  BY DEF Init, UndoneInv, OwedInv, IdleRequest

\* As long as every call was answered, whatever was cancelled as a duplicate
\* and had charged is given back before its request ends
\* (_undo_duplicate: "still refund below"), whatever overlaps or lags.
THEOREM DuplicatesAreRefunded ==
  Spec => [](failures = MaxFailures => DuplicatesRefunded)
<1>1. DoneInv /\ [Next]_vars => DoneInv'
  BY NextIInv, UndoneStep, OwedStep DEF DoneInv
<1>2. DoneInv => (failures = MaxFailures => DuplicatesRefunded)
  BY DEF DoneInv, OwedInv, Owed, Refunding, DuplicatesRefunded, Quiescent, At
<1> QED
  BY InitDone, <1>1, <1>2, PTL DEF Spec

-----------------------------------------------------------------------------
(* One checkout at a time *)

LEMMA IdleCheckout == \A p, lock, rw, all : CheckoutOK(IdleRequest, p, lock, rw, all)
BY DEF CheckoutOK, IdleRequest, Inside

\* Subscriptions that grow older leave a checkout as sound as it was.
LEMMA OlderCheckout ==
  ASSUME NEW r \in Request, WellPlaced(r), NEW p, NEW lock, NEW rw \in Row, NEW all, NEW new,
         CheckoutOK(r, p, lock, rw, all), Created(rw.sub, all),
         \A i \in SubIds : Later(all[i], new[i])
  PROVE  CheckoutOK(r, p, lock, rw, new) /\ Created(rw.sub, new)
<1>1. rw.sub \in SubIds \cup {NoSub} /\ r.sub \in SubIds \cup {NoSub} /\ r.mem.sub \in SubIds \cup {NoSub}
  BY DEF Request, Row
<1>2. r.pc = "adopt" => new[r.sub].setup
  <2> HAVE r.pc = "adopt"
  <2>1. r.sub = rw.sub /\ all[r.sub].setup /\ r.sub # NoSub
    BY DEF CheckoutOK, WellPlaced
  <2> QED
    BY <1>1, <2>1 DEF Created, Later
<1>3. Created(rw.sub, new)
  BY <1>1 DEF Created, Later
<1>4. OverAt(rw.sub, all) => OverAt(rw.sub, new)
  BY <1>1 DEF OverAt, Later
<1>5. Created(r.sub, all) => Created(r.sub, new)
  BY <1>1 DEF Created, Later
<1>6. Created(r.mem.sub, all) => Created(r.mem.sub, new)
  BY <1>1 DEF Created, Later
<1> QED
  BY <1>2, <1>3, <1>4, <1>5, <1>6 DEF CheckoutOK

\* What a step of one checkout leaves to the others: the row is locked by
\* whoever is inside, and an open payment goes out only for the row's own
\* subscription.
LockMoves(p) ==
    \/ rowLock' = rowLock
    \/ rowLock = NoProc /\ rowLock' = p
    \/ rowLock = p /\ rowLock' = NoProc
Shows(p) ==
    \/ /\ row' = row /\ shown' = shown
       /\ req'[p].pc = "respond" => req'[p].sub = row.sub
    \/ /\ row' = row /\ shown' = shown \cup {req[p].sub}
       /\ req[p].pc = "respond" /\ req'[p].pc = "idle"
    \/ /\ req[p].pc = "save" /\ shown' = shown /\ row'.sub = req[p].mem.sub
       /\ req'[p].pc = "respond" => req'[p].sub = row'.sub
Handoff(p) ==
    /\ \A q \in Procs : q # p => req'[q] = req[q]
    /\ LockMoves(p) /\ Shows(p)
    /\ CheckoutOK(req'[p], p, rowLock', row', subs')
AllCheckoutsOK == \A p \in Procs : CheckoutOK(req[p], p, rowLock, row, subs)

LEMMA HandoffOthers ==
  ASSUME IInv, IInv', Grows, HandedInv, AllCheckoutsOK, NEW p \in Procs, Handoff(p)
  PROVE  AllCheckoutsOK'
<1> SUFFICES ASSUME NEW q \in Procs PROVE CheckoutOK(req'[q], q, rowLock', row', subs')
  BY DEF AllCheckoutsOK
<1>1. CASE q = p
  BY <1>1 DEF Handoff
<1>2. CASE q # p
  <2>1. req'[q] = req[q] /\ req[q] \in Request /\ WellPlaced(req[q]) /\ row \in Row
        /\ CheckoutOK(req[q], q, rowLock, row, subs)
    BY <1>2, ReqOK DEF Handoff, IInv, RequestOK, RestInv, AllCheckoutsOK
  <2>2. CheckoutOK(req[q], q, rowLock, row, subs')
    BY <2>1, OlderCheckout DEF HandedInv, Grows
  <2>3. CheckoutOK(req[p], p, rowLock, row, subs) /\ p # NoProc /\ q # NoProc
    BY ProcsAssumption DEF AllCheckoutsOK
  <2>4. CASE req[q].pc \in Inside
    <3>1. rowLock = q
      BY <2>1, <2>4 DEF CheckoutOK
    <3>2. rowLock' = q /\ req[p].pc \notin Inside
      BY <3>1, <1>2, <2>3 DEF Handoff, LockMoves, CheckoutOK
    <3>3. row' = row
      BY <3>2 DEF Handoff, Shows, Inside
    <3> QED
      BY <2>1, <2>2, <3>1, <3>2, <3>3
  <2>5. CASE req[q].pc \notin Inside
    <3>1. req[q].pc \in {"idle", "hostLock", "rowLock", "respond", "load", "cancelAtStripe"}
      BY <2>1, <2>5 DEF Request, Locations, Inside
    <3> QED
      BY <2>1, <2>2, <3>1 DEF CheckoutOK, Inside
  <2> QED
    BY <2>4, <2>5
<1> QED
  BY <1>1, <1>2

LEMMA HandoffHanded ==
  ASSUME IInv, IInv', Grows, HandedInv, AllCheckoutsOK, NEW p \in Procs, Handoff(p)
  PROVE  HandedInv'
<1>1. \A i \in SubIds : Later(subs[i], subs'[i])
  BY DEF Grows
<1>2. /\ row \in Row /\ row' \in Row /\ shown \subseteq SubIds
      /\ \A q \in Procs : req[q] \in Request /\ WellPlaced(req[q])
  BY ReqOK DEF IInv, RestInv, RequestOK
<1>3. \A i \in SubIds : Handed(i) => subs[i].status # "none"
  <2> SUFFICES ASSUME NEW i \in SubIds, NEW q \in Procs, req[q].pc = "respond", req[q].sub = i
               PROVE  subs[i].status # "none"
    BY DEF Handed, HandedInv
  <2> QED
    BY <1>2 DEF AllCheckoutsOK, CheckoutOK, Created, WellPlaced
<1>4. \A i \in SubIds : /\ subs[i].status # "none" => subs'[i].status # "none"
                        /\ subs[i].status # "none" /\ IsOpenCheckout(subs'[i])
                             => IsOpenCheckout(subs[i])
  BY <1>1 DEF Later, Closed
<1>5. \A i \in SubIds : Handed(i)' => Handed(i) \/ (req'[p].pc = "respond" /\ i = req'[p].sub)
  <2>1. shown' \subseteq shown \/ (req[p].pc = "respond" /\ shown' = shown \cup {req[p].sub})
    BY DEF Handoff, Shows
  <2> QED
    BY <2>1 DEF Handoff, Handed
<1>6. \A i \in shown' : i \in SubIds /\ Handed(i)
  <2>1. req[p].pc = "respond" => req[p].sub \in SubIds
    BY <1>2 DEF WellPlaced, Request
  <2> QED
    BY <1>2, <2>1 DEF Handoff, Shows, Handed
<1>7. \A i \in shown' : subs'[i].status # "none"
  BY <1>3, <1>4, <1>6
<1>8. CASE row' = row
  <2>1. Created(row'.sub, subs')
    BY <1>2, <1>4, <1>8 DEF HandedInv, Created, Row
  <2>2. req'[p].pc = "respond" => \/ req'[p].sub = row.sub
                                  \/ req'[p].sub = row'.sub
    BY DEF Handoff, Shows
  <2>3. ASSUME NEW i \in SubIds, Handed(i)', IsOpenCheckout(subs'[i])
        PROVE  i = row'.sub
    BY <1>3, <1>4, <1>5, <1>8, <2>2, <2>3 DEF HandedInv
  <2> QED
    BY <1>7, <2>1, <2>3 DEF HandedInv
<1>9. CASE /\ req[p].pc = "save" /\ shown' = shown /\ row'.sub = req[p].mem.sub
           /\ req'[p].pc = "respond" => req'[p].sub = row'.sub
  <2>1. OverAt(row.sub, subs) /\ Created(req[p].mem.sub, subs)
    BY <1>9 DEF AllCheckoutsOK, CheckoutOK
  <2>2. Created(row'.sub, subs')
    BY <1>2, <1>4, <1>9, <2>1 DEF Created, Row
  <2>3. ASSUME NEW i \in SubIds, Handed(i)', IsOpenCheckout(subs'[i])
        PROVE  i = row'.sub
    <3>1. CASE Handed(i)
      <4>1. i = row.sub /\ IsOpenCheckout(subs[i])
        BY <1>3, <1>4, <2>3, <3>1 DEF HandedInv
      <4>2. i # NoSub
        BY BoundsAssumption DEF SubIds, NoSub
      <4> QED
        BY <2>1, <4>1, <4>2 DEF OverAt, Closed
    <3> QED
      BY <1>5, <1>9, <2>3, <3>1
  <2> QED
    BY <1>7, <2>2, <2>3 DEF HandedInv
<1> QED
  BY <1>8, <1>9 DEF Handoff, Shows

\* A checkout before its step, and as the step's subscriptions leave it.
LEMMA CheckoutBefore ==
  ASSUME IInv, Grows, HandedInv, AllCheckoutsOK, NEW p \in Procs
  PROVE  /\ req \in [Procs -> Request] /\ req[p] \in Request /\ WellPlaced(req[p]) /\ row \in Row
         /\ CheckoutOK(req[p], p, rowLock, row, subs)
         /\ CheckoutOK(req[p], p, rowLock, row, subs')
         /\ Created(row.sub, subs) /\ Created(row.sub, subs')
<1>1. req \in [Procs -> Request] /\ req[p] \in Request /\ WellPlaced(req[p]) /\ row \in Row
  BY ReqOK DEF IInv, RequestInv, RequestOK, RestInv
<1>2. CheckoutOK(req[p], p, rowLock, row, subs) /\ Created(row.sub, subs)
  BY DEF AllCheckoutsOK, HandedInv
<1> QED
  BY <1>1, <1>2, OlderCheckout DEF Grows

LEMMA EndHandoff ==
  ASSUME req \in [Procs -> Request], NEW p \in Procs, End(p), row' = row,
         \/ shown' = shown
         \/ shown' = shown \cup {req[p].sub} /\ req[p].pc = "respond"
  PROVE  Handoff(p)
<1>1. req'[p] = IdleRequest /\ \A q \in Procs : q # p => req'[q] = req[q]
  BY DEF End
<1>2. LockMoves(p)
  BY DEF End, ReleaseLocks, ReleaseRow, LockMoves
<1>3. IdleRequest.pc = "idle"
  BY DEF IdleRequest
<1> QED
  BY <1>1, <1>2, <1>3, IdleCheckout DEF Handoff, Shows

LEMMA MoveHandoff ==
  ASSUME req \in [Procs -> Request], NEW p \in Procs, NEW s, Continue(p, s),
         s.pc # "respond", row' = row, shown' = shown, CheckoutOK(s, p, rowLock, row, subs')
  PROVE  Handoff(p)
BY DEF Continue, lockVars, Handoff, LockMoves, Shows

LEMMA AfterSyncHandoff ==
  ASSUME req \in [Procs -> Request], NEW p \in Procs, AfterSync(p), req[p].kind = "checkout",
         row' = row, shown' = shown
  PROVE  Handoff(p)
BY EndHandoff DEF AfterSync

LEMMA TrialKnownHandoff ==
  ASSUME IInv, Grows, HandedInv, AllCheckoutsOK, NEW p \in Procs, NEW trial,
         TrialKnown(p, trial), req[p].pc \in {"trial", "trialSet"}, row' = row, shown' = shown
  PROVE  Handoff(p)
<1> DEFINE loc == IF req[p].mem.sub = NoSub THEN "create" ELSE "retrieve"
<1> DEFINE s == [req[p] EXCEPT !.trial = trial, !.pc = loc]
<1>1. /\ req[p] \in Request /\ CheckoutOK(req[p], p, rowLock, row, subs')
      /\ req \in [Procs -> Request]
  BY CheckoutBefore
<1>2. /\ req[p].kind = "checkout" /\ rowLock = p /\ req[p].row = row /\ req[p].mem = row
  BY <1>1 DEF CheckoutOK, Inside
<1>3. loc \in {"create", "retrieve"} /\ (loc = "create" => row.sub = NoSub)
  BY <1>2
<1>4. Continue(p, s)
  BY <1>2 DEF TrialKnown
<1> HIDE DEF loc
<1>5. s.pc = loc /\ s.kind = "checkout" /\ s.row = row /\ s.mem = row
  BY <1>1, <1>2 DEF Request
<1> HIDE DEF s
<1>6. CheckoutOK(s, p, rowLock, row, subs')
  BY <1>2, <1>3, <1>5 DEF CheckoutOK, OverAt, Inside
<1> QED
  BY <1>1, <1>3, <1>4, <1>5, <1>6, MoveHandoff

\* _start_checkout cancels, reuses or creates only what it may.
LEMMA CheckoutFromOK ==
  ASSUME NEW r \in Request, NEW rw \in Row, NEW p, NEW all, r.kind = "checkout",
         r.row = rw, r.sub = rw.sub,
         ~IsOpenCheckout(r.snap) => OverAt(rw.sub, all)
  PROVE  CheckoutOK(CheckoutFrom(r), p, p, rw, all) /\ CheckoutFrom(r).pc # "respond"
<1>1. PICK loc : /\ CheckoutFrom(r) = [r EXCEPT !.pc = loc]
                 /\ loc \in {"apply", "reuse", "cancelStale", "create"}
                 /\ loc = "apply" => GrantsAccess(r.snap)
                 /\ loc = "create" => ~IsOpenCheckout(r.snap)
  BY DEF CheckoutFrom
<1>2. GrantsAccess(r.snap) => ~IsOpenCheckout(r.snap)
  BY DEF GrantsAccess, IsOpenCheckout, Access
<1>3. /\ CheckoutFrom(r).pc = loc /\ CheckoutFrom(r).kind = "checkout"
      /\ CheckoutFrom(r).row = rw /\ CheckoutFrom(r).sub = rw.sub
      /\ CheckoutFrom(r).snap = r.snap
  BY <1>1 DEF Request
<1> QED
  BY <1>1, <1>2, <1>3 DEF CheckoutOK, Inside

LEMMA StartHandoff ==
  ASSUME IInv, Grows, HandedInv, AllCheckoutsOK, OnlyCheckouts, NEW p \in Procs, Start(p)
  PROVE  Handoff(p)
<1>1. PICK plan \in Plans : StartCheckout(p, plan)
  BY DEF Start, StartStatus, StartCancel, Deliver, OnlyCheckouts
<1> DEFINE s == [IdleRequest EXCEPT !.pc = "hostLock", !.kind = "checkout", !.plan = plan]
<1>2. s.pc = "hostLock" /\ s.kind = "checkout"
  BY DEF IdleRequest
<1>3. Continue(p, s) /\ row' = row /\ shown' = shown
  BY <1>1 DEF StartCheckout
<1> HIDE DEF s
<1>4. CheckoutOK(s, p, rowLock, row, subs')
  BY <1>2 DEF CheckoutOK, Inside
<1> QED
  BY <1>2, <1>3, <1>4, CheckoutBefore, MoveHandoff

LEMMA LockHandoff ==
  ASSUME IInv, Grows, HandedInv, AllCheckoutsOK, NEW p \in Procs,
         AcquireHostLock(p) \/ LockUser(p)
  PROVE  Handoff(p)
<1>1. /\ req[p] \in Request /\ CheckoutOK(req[p], p, rowLock, row, subs')
      /\ req \in [Procs -> Request] /\ row' = row /\ shown' = shown
      /\ req[p].pc \in {"hostLock", "rowLock"}
  BY CheckoutBefore DEF AcquireHostLock, LockUser, At
<1>2. req[p].kind = "checkout"
  BY <1>1 DEF CheckoutOK
<1>3. ASSUME NEW s, req' = [req EXCEPT ![p] = s], s.pc # "respond", LockMoves(p),
             CheckoutOK(s, p, rowLock', row, subs')
      PROVE  Handoff(p)
  BY <1>1, <1>3 DEF Handoff, Shows
<1>4. CASE AcquireHostLock(p)
  <2> DEFINE s == [req[p] EXCEPT !.pc = "rowLock"]
  <2>1. req' = [req EXCEPT ![p] = s] /\ rowLock' = rowLock
    BY <1>1, <1>4 DEF AcquireHostLock
  <2>2. s.pc = "rowLock" /\ s.kind = "checkout"
    BY <1>1, <1>2 DEF Request
  <2> HIDE DEF s
  <2> QED
    BY <1>3, <2>1, <2>2 DEF CheckoutOK, Inside, LockMoves
<1>5. CASE LockUser(p)
  <2> DEFINE s == [Loaded(p) EXCEPT !.pc = "trial"]
  <2>1. CASE End(p)
    BY <1>1, <2>1, EndHandoff
  <2>2. CASE rowLock' = p /\ req' = [req EXCEPT ![p] = s]
    <3>1. s.pc = "trial" /\ s.kind = "checkout" /\ s.row = row /\ s.mem = row
      BY <1>1, <1>2 DEF Request, Loaded
    <3>2. rowLock = NoProc
      BY <1>5 DEF LockUser, RowLockFree
    <3> HIDE DEF s
    <3>3. CheckoutOK(s, p, rowLock', row, subs')
      BY <2>2, <3>1 DEF CheckoutOK
    <3> QED
      BY <1>3, <2>2, <3>1, <3>2, <3>3 DEF LockMoves
  <2> QED
    BY <1>5, <2>1, <2>2 DEF LockUser
<1> QED
  BY <1>4, <1>5

LEMMA TrialHandoff ==
  ASSUME IInv, Grows, HandedInv, AllCheckoutsOK, NEW p \in Procs,
         TrialLookup(p) \/ TrialStore(p)
  PROVE  Handoff(p)
<1>1. /\ req[p] \in Request /\ CheckoutOK(req[p], p, rowLock, row, subs')
      /\ req \in [Procs -> Request] /\ row' = row /\ shown' = shown
      /\ req[p].pc \in {"trial", "trialSet"}
  BY CheckoutBefore DEF TrialLookup, TrialStore, At
<1>2. CASE \E trial : TrialKnown(p, trial)
  BY <1>1, <1>2, TrialKnownHandoff
<1>3. CASE Continue(p, [req[p] EXCEPT !.trial = ~SubscribedBefore, !.pc = "trialSet"])
  <2> DEFINE s == [req[p] EXCEPT !.trial = ~SubscribedBefore, !.pc = "trialSet"]
  <2>1. s.pc = "trialSet" /\ s.kind = req[p].kind /\ s.row = req[p].row /\ s.mem = req[p].mem
    BY <1>1 DEF Request
  <2>2. Continue(p, s)
    BY <1>3
  <2> HIDE DEF s
  <2>3. CheckoutOK(s, p, rowLock, row, subs')
    BY <1>1, <2>1 DEF CheckoutOK, Inside
  <2> QED
    BY <1>1, <2>1, <2>2, <2>3, MoveHandoff
<1> QED
  BY <1>2, <1>3 DEF TrialLookup, TrialStore

\* The user's own subscription, as the checkout sees it.
LEMMA RetrieveHandoff ==
  ASSUME IInv, Grows, HandedInv, AllCheckoutsOK, NEW p \in Procs, RetrieveOwn(p)
  PROVE  Handoff(p)
<1> DEFINE own == req[p].mem.sub
<1> DEFINE r == Seen(req[p], own, subs[own])
<1>1. /\ req[p] \in Request /\ WellPlaced(req[p]) /\ CheckoutOK(req[p], p, rowLock, row, subs)
      /\ req \in [Procs -> Request] /\ row' = row /\ shown' = shown /\ row \in Row
      /\ req[p].pc = "retrieve" /\ subs' = subs /\ Created(row.sub, subs)
  BY CheckoutBefore DEF RetrieveOwn, At, stripeVars
<1>2. /\ rowLock = p /\ req[p].row = row /\ req[p].mem = row /\ req[p].kind = "checkout"
      /\ own = row.sub /\ own # NoSub /\ own \in SubIds
  BY <1>1 DEF CheckoutOK, WellPlaced, Inside, Row
<1>3. subs[own] \in Subscription
  BY <1>2 DEF IInv, StripeInv
<1>4. r \in Request /\ r.kind = "checkout" /\ r.row = row /\ r.sub = row.sub /\ r.snap = subs[own]
  BY <1>1, <1>2, <1>3 DEF Seen, Request
<1>5. subs[row.sub].status # "none"
  BY <1>1, <1>2 DEF Created
<1> HIDE DEF r
<1>6. \/ Continue(p, CheckoutFrom(r))
      \/ IsOpenCheckout(r.snap) /\ r.snap.setup /\ Continue(p, [r EXCEPT !.pc = "adopt"])
  BY <1>2, <1>4 DEF RetrieveOwn, r
<1>7. CASE Continue(p, CheckoutFrom(r))
  <2>1. ~IsOpenCheckout(r.snap) => OverAt(row.sub, subs)
    BY <1>2, <1>4, <1>5 DEF OverAt, Closed
  <2>2. CheckoutOK(CheckoutFrom(r), p, p, row, subs) /\ CheckoutFrom(r).pc # "respond"
    BY <1>1, <1>4, <2>1, CheckoutFromOK
  <2> QED
    BY <1>1, <1>2, <1>7, <2>2, MoveHandoff
<1>8. CASE r.snap.setup /\ Continue(p, [r EXCEPT !.pc = "adopt"])
  <2> DEFINE s == [r EXCEPT !.pc = "adopt"]
  <2>1. s.pc = "adopt" /\ s.kind = "checkout" /\ s.row = row /\ s.sub = row.sub
    BY <1>4 DEF Request
  <2>2. Continue(p, s) /\ subs[row.sub].setup
    BY <1>2, <1>4, <1>8
  <2> HIDE DEF s
  <2>3. CheckoutOK(s, p, rowLock, row, subs)
    BY <1>2, <2>1, <2>2 DEF CheckoutOK
  <2> QED
    BY <1>1, <2>1, <2>2, <2>3, MoveHandoff
<1> QED
  BY <1>6, <1>7, <1>8

\* The trial's card is set, and the checkout goes on with what it saw.
LEMMA AdoptHandoff ==
  ASSUME IInv, Grows, HandedInv, AllCheckoutsOK, NEW p \in Procs,
         AdoptTrialCard(p) \/ AdoptRefused(p)
  PROVE  Handoff(p)
<1> DEFINE i == req[p].sub
<1> DEFINE adopted == [subs[i] EXCEPT !.card = TRUE]
<1> DEFINE r == [req[p] EXCEPT !.snap = adopted]
<1>1. /\ req[p] \in Request /\ WellPlaced(req[p]) /\ CheckoutOK(req[p], p, rowLock, row, subs)
      /\ req \in [Procs -> Request] /\ row' = row /\ shown' = shown /\ row \in Row
      /\ req[p].pc = "adopt" /\ Created(row.sub, subs)
  BY CheckoutBefore DEF AdoptTrialCard, AdoptRefused, At
<1>2. /\ rowLock = p /\ req[p].row = row /\ req[p].kind = "checkout"
      /\ i = row.sub /\ i \in SubIds /\ subs[i].setup /\ i # NoSub
  BY <1>1 DEF CheckoutOK, WellPlaced, Inside, Request
<1>3. CASE AdoptRefused(p)
  BY <1>1, <1>2, <1>3, AfterSyncHandoff DEF AdoptRefused
<1>4. CASE AdoptTrialCard(p)
  <2>1. /\ StripeChanges(i, adopted) /\ Continue(p, AfterAdopt(r)) /\ IsLive(subs[i])
    BY <1>2, <1>4 DEF AdoptTrialCard
  <2>2. subs[i] \in Subscription /\ subs'[i] = adopted
    BY <1>2, <2>1 DEF IInv, StripeInv, StripeChanges
  <2>3. adopted \in Subscription /\ adopted.status = subs[i].status
    BY <2>2 DEF Subscription
  <2> HIDE DEF adopted
  <2>4. r \in Request /\ r.kind = "checkout" /\ r.row = row /\ r.sub = row.sub /\ r.snap = adopted
    BY <1>1, <1>2, <2>3 DEF Request
  <2>5. ~IsOpenCheckout(r.snap) => OverAt(row.sub, subs')
    BY <1>2, <2>1, <2>2, <2>3, <2>4 DEF OverAt, Closed, IsLive
  <2> HIDE DEF r
  <2>6. CheckoutOK(CheckoutFrom(r), p, p, row, subs') /\ CheckoutFrom(r).pc # "respond"
    BY <1>1, <2>4, <2>5, CheckoutFromOK
  <2>7. AfterAdopt(r) = CheckoutFrom(r)
    BY <2>4 DEF AfterAdopt
  <2> QED
    BY <1>1, <1>2, <2>1, <2>6, <2>7, MoveHandoff
<1> QED
  BY <1>3, <1>4

LEMMA ApplyHandoff ==
  ASSUME IInv, Grows, HandedInv, AllCheckoutsOK, NEW p \in Procs, ApplySubscription(p)
  PROVE  Handoff(p)
<1> DEFINE s == [req[p] EXCEPT !.pc = "list"]
<1>1. /\ req[p] \in Request /\ CheckoutOK(req[p], p, rowLock, row, subs')
      /\ req \in [Procs -> Request] /\ row' = row /\ shown' = shown
      /\ req[p].pc = "apply"
  BY CheckoutBefore DEF ApplySubscription, At
<1>2. GrantsAccess(req[p].snap)
  BY <1>1 DEF CheckoutOK
<1>3. Continue(p, s)
  BY <1>2 DEF ApplySubscription, Goto
<1>4. /\ s.pc = "list" /\ s.kind = req[p].kind /\ s.row = req[p].row /\ s.sub = req[p].sub
      /\ s.snap = req[p].snap
  BY <1>1 DEF Request
<1> HIDE DEF s
<1>5. CheckoutOK(s, p, rowLock, row, subs')
  BY <1>1, <1>4 DEF CheckoutOK, Inside
<1> QED
  BY <1>1, <1>3, <1>4, <1>5, MoveHandoff

\* What it keeps exists: it gave access.
LEMMA KeepHandoff ==
  ASSUME IInv, UndoneInv, Grows, HandedInv, AllCheckoutsOK, NEW p \in Procs, KeepOne(p)
  PROVE  Handoff(p)
<1>1. PICK missed \in SUBSET Granting(subs) :
        LET paying == (Granting(subs) \ missed) \cup {req[p].sub}
            extras == paying \ {Kept(paying)}
        IN /\ At(p, "list")
           /\ Continue(p, [req[p] EXCEPT
                !.extras = extras,
                !.mem = [pro |-> TRUE, sub |-> Kept(paying)],
                !.pc = IF extras = {} THEN "save" ELSE "undo"])
           /\ UNCHANGED <<stripeVars, refunded, shown, row, trialCache, failures, undone>>
  BY DEF KeepOne
<1> DEFINE paying == (Granting(subs) \ missed) \cup {req[p].sub}
<1> DEFINE extras == paying \ {Kept(paying)}
<1> DEFINE mem == [pro |-> TRUE, sub |-> Kept(paying)]
<1> DEFINE loc == IF extras = {} THEN "save" ELSE "undo"
<1> DEFINE s == [req[p] EXCEPT !.extras = extras, !.mem = mem, !.pc = loc]
<1>2. /\ req[p] \in Request /\ CheckoutOK(req[p], p, rowLock, row, subs')
      /\ req \in [Procs -> Request] /\ row' = row /\ shown' = shown /\ subs' = subs
      /\ req[p].pc = "list" /\ RequestOK(req[p], everGranted)
  BY <1>1, CheckoutBefore, ReqOK DEF At, stripeVars, IInv
<1>3. paying \subseteq SubIds /\ paying \subseteq everGranted /\ paying # {}
  <2>1. req[p].sub \in SubIds /\ req[p].sub \in everGranted
    BY <1>2 DEF RequestOK, WellPlaced, Grounded, Request
  <2> QED
    BY <2>1 DEF IInv, StripeInv, Granting
<1> HIDE DEF paying
<1>4. subs[Kept(paying)].status # "none"
  BY <1>3, OldestIsLeast DEF Kept, UndoneInv
<1>5. mem.pro /\ mem.sub = Kept(paying) /\ loc \in {"save", "undo"}
  OBVIOUS
<1>6. Continue(p, s)
  BY <1>1 DEF paying
<1> HIDE DEF extras, mem, loc
<1>7. /\ s.pc = loc /\ s.kind = req[p].kind /\ s.row = req[p].row /\ s.sub = req[p].sub
      /\ s.snap = req[p].snap /\ s.mem = mem
  BY <1>2 DEF Request
<1> HIDE DEF s
<1>8. CheckoutOK(s, p, rowLock, row, subs')
  BY <1>2, <1>4, <1>5, <1>7 DEF CheckoutOK, Inside, Created
<1> QED
  BY <1>2, <1>5, <1>6, <1>7, <1>8, MoveHandoff

LEMMA UndoHandoff ==
  ASSUME IInv, Grows, HandedInv, AllCheckoutsOK, NEW p \in Procs,
         CancelExtra(p) \/ RefundExtra(p)
  PROVE  Handoff(p)
<1>1. /\ req[p] \in Request /\ CheckoutOK(req[p], p, rowLock, row, subs')
      /\ req \in [Procs -> Request] /\ row' = row /\ shown' = shown
      /\ req[p].pc \in {"undo", "refund"}
  BY CheckoutBefore DEF CancelExtra, RefundExtra, At
<1>2. ASSUME NEW left, NEW loc \in {"undo", "refund", "save"},
             Continue(p, [req[p] EXCEPT !.extras = left, !.pc = loc])
      PROVE  Handoff(p)
  <2> DEFINE s == [req[p] EXCEPT !.extras = left, !.pc = loc]
  <2>1. /\ s.pc = loc /\ s.kind = req[p].kind /\ s.row = req[p].row /\ s.sub = req[p].sub
        /\ s.snap = req[p].snap /\ s.mem = req[p].mem
    BY <1>1 DEF Request
  <2>2. Continue(p, s)
    BY <1>2
  <2> HIDE DEF s
  <2>3. CheckoutOK(s, p, rowLock, row, subs')
    BY <1>1, <2>1 DEF CheckoutOK, Inside
  <2> QED
    BY <1>1, <2>1, <2>2, <2>3, MoveHandoff
<1>3. CASE CancelExtra(p)
  <2>1. [req[p] EXCEPT !.pc = "refund"] = [req[p] EXCEPT !.extras = req[p].extras, !.pc = "refund"]
    BY <1>1 DEF Request
  <2> QED
    BY <1>2, <1>3, <2>1 DEF CancelExtra, Goto
<1>4. CASE RefundExtra(p)
  <2> DEFINE left == req[p].extras \ {Oldest(req[p].extras)}
  <2> DEFINE loc == IF left = {} THEN "save" ELSE "undo"
  <2>1. Continue(p, [req[p] EXCEPT !.extras = left, !.pc = loc]) /\ loc \in {"undo", "refund", "save"}
    BY <1>4 DEF RefundExtra
  <2> HIDE DEF left, loc
  <2> QED
    BY <1>2, <2>1
<1> QED
  BY <1>3, <1>4

\* The stale checkout is over once it is cancelled, or was already.
LEMMA StaleHandoff ==
  ASSUME IInv, Grows, HandedInv, AllCheckoutsOK, NEW p \in Procs, CancelStale(p)
  PROVE  Handoff(p)
<1> DEFINE i == req[p].sub
<1> DEFINE s == [req[p] EXCEPT !.pc = "create"]
<1>1. /\ req[p] \in Request /\ WellPlaced(req[p]) /\ CheckoutOK(req[p], p, rowLock, row, subs)
      /\ req \in [Procs -> Request] /\ row' = row /\ shown' = shown
      /\ req[p].pc = "cancelStale" /\ Created(row.sub, subs)
  BY CheckoutBefore DEF CancelStale, At
<1>2. /\ rowLock = p /\ req[p].row = row /\ req[p].kind = "checkout"
      /\ i = row.sub /\ i \in SubIds /\ i # NoSub /\ subs[i] \in Subscription
  BY <1>1 DEF CheckoutOK, WellPlaced, Inside, Request, IInv, StripeInv
<1>3. Closed(subs'[i])
  <2>1. CASE StripeChanges(i, [subs[i] EXCEPT !.status = "canceled"])
    <3>1. subs'[i] = [subs[i] EXCEPT !.status = "canceled"]
      BY <1>2, <2>1 DEF StripeChanges, IInv, StripeInv
    <3>2. subs'[i].status = "canceled"
      BY <1>2, <3>1 DEF Subscription
    <3> QED
      BY <3>2 DEF Closed, IsOpenCheckout
  <2>2. CASE ~IsLive(subs[i]) /\ UNCHANGED subs
    BY <1>1, <1>2, <2>2 DEF IsLive, Created, Closed, IsOpenCheckout, Ended
  <2> QED
    BY <2>1, <2>2 DEF CancelStale
<1>4. Continue(p, s)
  BY DEF CancelStale, Goto
<1>5. s.pc = "create" /\ s.kind = "checkout" /\ s.row = row
  BY <1>1, <1>2 DEF Request
<1> HIDE DEF s
<1>6. CheckoutOK(s, p, rowLock, row, subs')
  BY <1>2, <1>3, <1>5 DEF CheckoutOK, OverAt
<1> QED
  BY <1>1, <1>4, <1>5, <1>6, MoveHandoff

LEMMA CreateHandoff ==
  ASSUME IInv, Grows, HandedInv, AllCheckoutsOK, NEW p \in Procs,
         CreateSubscription(p) \/ CreateRefused(p)
  PROVE  Handoff(p)
<1> DEFINE new == [Uncreated EXCEPT !.plan = req[p].plan, !.trial = req[p].trial,
                      !.status = IF req[p].trial THEN "trialing" ELSE "incomplete"]
<1> DEFINE m == [req[p].mem EXCEPT !.sub = NextId]
<1> DEFINE s == [[Seen(req[p], NextId, new) EXCEPT !.mem = m] EXCEPT !.pc = "save"]
<1>1. /\ req[p] \in Request /\ CheckoutOK(req[p], p, rowLock, row, subs')
      /\ req \in [Procs -> Request] /\ row' = row /\ shown' = shown
      /\ req[p].pc = "create"
  BY CheckoutBefore DEF CreateSubscription, CreateRefused, At
<1>2. CASE End(p)
  BY <1>1, <1>2, EndHandoff
<1>3. CASE CreateSubscription(p) /\ Continue(p, [Seen(req[p], NextId, new) EXCEPT
                                     !.mem.sub = NextId, !.pc = "save"])
  <2>1. NextId \in SubIds /\ StripeChanges(NextId, new)
    BY <1>3, NextIdIsNew DEF IInv, CreateSubscription
  <2>2. subs'[NextId] = new
    BY <2>1 DEF StripeChanges, IInv, StripeInv
  <2>3. new.status \in {"trialing", "incomplete"}
    BY DEF Uncreated
  <2> HIDE DEF new
  <2>4. Continue(p, s)
    BY <1>1, <1>3 DEF Seen, Request
  <2>5. m.sub = NextId
    BY <1>1 DEF Request, Row
  <2> HIDE DEF m
  <2>6. /\ s.pc = "save" /\ s.kind = req[p].kind /\ s.row = req[p].row /\ s.sub = NextId
        /\ s.mem = m
    BY <1>1 DEF Request, Seen
  <2> HIDE DEF s
  <2>7. CheckoutOK(s, p, rowLock, row, subs')
    BY <1>1, <2>2, <2>3, <2>5, <2>6 DEF CheckoutOK, Inside, Created
  <2> QED
    BY <1>1, <2>4, <2>6, <2>7, MoveHandoff
<1> QED
  BY <1>2, <1>3 DEF CreateSubscription, CreateRefused

LEMMA RespondHandoff ==
  ASSUME IInv, Grows, HandedInv, AllCheckoutsOK, NEW p \in Procs,
         ReuseCheckout(p) \/ Respond(p)
  PROVE  Handoff(p)
<1>1. /\ req[p] \in Request /\ CheckoutOK(req[p], p, rowLock, row, subs')
      /\ req \in [Procs -> Request] /\ row' = row /\ Created(row.sub, subs')
  BY CheckoutBefore DEF ReuseCheckout, Respond
<1>2. CASE Respond(p)
  BY <1>1, <1>2, EndHandoff DEF Respond, At
<1>3. CASE ReuseCheckout(p)
  <2> DEFINE s == [req[p] EXCEPT !.pc = "respond"]
  <2>1. req' = [req EXCEPT ![p] = s] /\ ReleaseRow(p) /\ shown' = shown /\ req[p].pc = "reuse"
    BY <1>1, <1>3 DEF ReuseCheckout, At
  <2>2. /\ req[p].kind = "checkout" /\ req[p].sub = row.sub /\ req[p].row = row
    BY <1>1, <2>1 DEF CheckoutOK, Inside
  <2>3. s.pc = "respond" /\ s.kind = "checkout" /\ s.sub = row.sub
    BY <1>1, <2>2 DEF Request
  <2> HIDE DEF s
  <2>4. CheckoutOK(s, p, rowLock', row, subs')
    BY <1>1, <2>3 DEF CheckoutOK, Inside
  <2>5. req'[p] = s /\ LockMoves(p) /\ \A q \in Procs : q # p => req'[q] = req[q]
    BY <1>1, <2>1 DEF ReleaseRow, LockMoves
  <2> QED
    BY <1>1, <2>1, <2>3, <2>4, <2>5 DEF Handoff, Shows
<1> QED
  BY <1>2, <1>3

\* Under its lock, the row becomes what the checkout decided.
LEMMA CommitHandoff ==
  ASSUME IInv, Grows, HandedInv, AllCheckoutsOK, NEW p \in Procs, Commit(p)
  PROVE  Handoff(p)
<1>1. /\ req[p] \in Request /\ WellPlaced(req[p]) /\ CheckoutOK(req[p], p, rowLock, row, subs')
      /\ req \in [Procs -> Request] /\ shown' = shown /\ req[p].pc = "save" /\ row \in Row
  BY CheckoutBefore DEF Commit, At, stripeVars
<1>2. rowLock = p /\ req[p].row = row /\ req[p].kind = "checkout"
  BY <1>1 DEF CheckoutOK, Inside
<1>3. row'.sub = req[p].mem.sub
  BY <1>2 DEF Commit, Written
<1>4. CASE ~req[p].mem.pro /\ req' = [req EXCEPT ![p].pc = "respond"] /\ ReleaseRow(p)
  <2> DEFINE s == [req[p] EXCEPT !.pc = "respond"]
  <2>1. req' = [req EXCEPT ![p] = s]
    BY <1>1, <1>4
  <2>2. s.pc = "respond" /\ s.kind = "checkout" /\ s.sub = req[p].sub
    BY <1>1, <1>2 DEF Request
  <2>3. req[p].sub = req[p].mem.sub /\ Created(req[p].mem.sub, subs')
    BY <1>1, <1>4 DEF CheckoutOK
  <2> HIDE DEF s
  <2>4. CheckoutOK(s, p, rowLock', row', subs')
    BY <2>2, <2>3 DEF CheckoutOK, Inside
  <2>5. req'[p] = s /\ LockMoves(p) /\ \A q \in Procs : q # p => req'[q] = req[q]
    BY <1>1, <1>4, <2>1 DEF ReleaseRow, LockMoves
  <2> QED
    BY <1>1, <1>3, <2>2, <2>3, <2>4, <2>5 DEF Handoff, Shows
<1>5. CASE End(p)
  <2>1. req'[p] = IdleRequest /\ \A q \in Procs : q # p => req'[q] = req[q]
    BY <1>1, <1>5 DEF End
  <2>2. LockMoves(p)
    BY <1>5 DEF End, ReleaseLocks, ReleaseRow, LockMoves
  <2>3. IdleRequest.pc = "idle"
    BY DEF IdleRequest
  <2> QED
    BY <1>1, <1>3, <2>1, <2>2, <2>3, IdleCheckout DEF Handoff, Shows
<1> QED
  BY <1>2, <1>4, <1>5 DEF Commit, AfterSync

LEMMA ProceedHandoff ==
  ASSUME IInv, UndoneInv, Grows, HandedInv, AllCheckoutsOK, NEW p \in Procs, Proceed(p)
  PROVE  Handoff(p)
<1>1. ~LoadUser(p) /\ ~CancelAtStripe(p)
  BY CheckoutBefore DEF CheckoutOK, LoadUser, CancelAtStripe, At
<1> QED
  BY <1>1, LockHandoff, RespondHandoff, StaleHandoff, CreateHandoff, AdoptHandoff,
     ApplyHandoff, KeepHandoff, UndoHandoff, CommitHandoff, TrialHandoff, RetrieveHandoff
     DEF Proceed, Checkout, Sync

\* A step of Stripe or of the browser moves no request.
LEMMA StillHandoff ==
  ASSUME IInv, Grows, HandedInv, AllCheckoutsOK, UNCHANGED <<req, row, rowLock, shown>>
  PROVE  HandedInv' /\ AllCheckoutsOK'
<1>1. AllCheckoutsOK'
  <2> SUFFICES ASSUME NEW p \in Procs PROVE CheckoutOK(req'[p], p, rowLock', row', subs')
    BY DEF AllCheckoutsOK
  <2> QED
    BY CheckoutBefore
<1>2. /\ row.sub \in SubIds \cup {NoSub} /\ shown \subseteq SubIds
      /\ \A p \in Procs : req[p].pc = "respond" => req[p].sub \in SubIds
  BY ReqOK DEF IInv, RestInv, Row, RequestOK, WellPlaced, Request
<1>3. \A i \in SubIds : Handed(i) => subs[i].status # "none"
  <2> SUFFICES ASSUME NEW i \in SubIds, NEW p \in Procs, req[p].pc = "respond", req[p].sub = i
               PROVE  subs[i].status # "none"
    BY DEF Handed, HandedInv
  <2> QED
    BY ReqOK DEF AllCheckoutsOK, CheckoutOK, Created, IInv, RequestOK, WellPlaced
<1>4. \A i \in SubIds : /\ subs[i].status # "none" => subs'[i].status # "none"
                        /\ subs[i].status # "none" /\ IsOpenCheckout(subs'[i])
                             => IsOpenCheckout(subs[i])
  BY DEF Grows, Later, Closed
<1>5. \A i : Handed(i)' <=> Handed(i)
  BY DEF Handed
<1>6. HandedInv'
  BY <1>2, <1>3, <1>4, <1>5 DEF HandedInv, Created
<1> QED
  BY <1>1, <1>6

LEMMA CheckoutStep ==
  ASSUME OnlyCheckouts, IInv, UndoneInv, CheckoutInv, [Next]_vars
  PROVE  CheckoutInv'
<1> SUFFICES ASSUME failures' = MaxFailures PROVE HandedInv' /\ AllCheckoutsOK'
  BY DEF CheckoutInv, AllCheckoutsOK
<1>1. HandedInv /\ AllCheckoutsOK /\ ~\E p \in Procs : Fail(p)
  BY FailuresFall DEF CheckoutInv, AllCheckoutsOK
<1>2. Grows /\ IInv'
  BY NextLives, NextIInv DEF Lives
<1>3. ASSUME NEW p \in Procs, Start(p) \/ Proceed(p) PROVE HandedInv' /\ AllCheckoutsOK'
  <2>1. Handoff(p)
    BY <1>1, <1>2, <1>3, StartHandoff, ProceedHandoff
  <2> QED
    BY <1>1, <1>2, <2>1, HandoffOthers, HandoffHanded
<1>4. CASE \/ \E i \in SubIds : World(i)
           \/ CacheExpires \/ UNCHANGED vars
  <2>1. UNCHANGED <<req, row, rowLock, shown>>
    BY <1>4 DEF World, FirstPayment, ConfirmTrialCard, TrialEnds, RenewalFails,
       RetriesExhausted, LatePayment, CheckoutExpires, StopsPaying, OnlyStripe, CacheExpires,
       vars, lockVars
  <2> QED
    BY <1>1, <1>2, <2>1, StillHandoff
<1> QED
  BY <1>1, <1>3, <1>4 DEF Next

LEMMA InitCheckout == Init => CheckoutInv
<1> SUFFICES ASSUME Init PROVE HandedInv /\ AllCheckoutsOK
  BY DEF CheckoutInv, AllCheckoutsOK
<1>1. AllCheckoutsOK
  BY IdleCheckout DEF Init, AllCheckoutsOK
<1>2. HandedInv
  BY DEF Init, HandedInv, Handed, Created, FreeRow, IdleRequest
<1> QED
  BY <1>1, <1>2

\* However many checkouts run at once, in however many workers, for whatever
\* plans and trials: as long as every call is answered, no two of the
\* payments shown to the user can both be confirmed.
THEOREM OneCheckoutOpen == OnlyCheckouts => (Spec => []OneOpenCheckout)
<1> SUFFICES ASSUME OnlyCheckouts PROVE Spec => []OneOpenCheckout
  OBVIOUS
<1> DEFINE Inv == DoneInv /\ CheckoutInv
<1>1. Init => Inv
  BY InitDone, InitCheckout
<1>2. Inv /\ [Next]_vars => Inv'
  BY NextIInv, UndoneStep, OwedStep, CheckoutStep DEF DoneInv
<1>3. Inv => OneOpenCheckout
  <2> SUFFICES ASSUME Inv, failures = MaxFailures
               PROVE  Cardinality({i \in shown : IsOpenCheckout(subs[i])}) <= 1
    BY DEF OneOpenCheckout
  <2> DEFINE Open == {i \in shown : IsOpenCheckout(subs[i])}
  <2>1. Open \in SUBSET {row.sub}
    BY DEF CheckoutInv, HandedInv, Handed, DoneInv, IInv, RestInv
  <2>2. IsFiniteSet({row.sub}) /\ Cardinality({row.sub}) = 1
    BY FS_Singleton
  <2> HIDE DEF Open
  <2>3. IsFiniteSet(Open) /\ Cardinality(Open) <= 1
    BY <2>1, <2>2, FS_Subset
  <2> QED
    BY <2>3 DEF Open
<1> QED
  BY <1>1, <1>2, <1>3, PTL DEF Spec

-----------------------------------------------------------------------------
(* One request at a time: the plan is the one Stripe bills *)

LEMMA IdleSerial ==
  \A rw, g, all, ev : SerialOK(IdleRequest, rw, g) /\ StepOK(IdleRequest, rw, all, ev)
BY DEF SerialOK, StepOK, IdleRequest, KindAt, Fresh, Unchanged, FreeRow

\* Told changes at Stripe leave what a request knows as sound as it was.
LEMMA OlderStep ==
  ASSUME NEW r \in Request, NEW rw, NEW all, NEW new, NEW ev, NEW after, ev \subseteq after,
         StepOK(r, rw, all, ev), r.mem.pro => r.mem.sub \in SubIds,
         \A i \in SubIds : (GrantsAccess(all[i]) # GrantsAccess(new[i])) => i \in after
  PROVE  StepOK(r, rw, new, after)
<1>1. ASSUME r.sub # NoSub, GrantsAccess(r.snap) # GrantsAccess(new[r.sub])
      PROVE  r.sub \in after
  <2>1. r.sub \in SubIds
    BY <1>1 DEF Request
  <2> QED
    BY <1>1, <2>1 DEF StepOK
<1>2. ASSUME r.pc \in {"undo", "refund", "save"}, r.mem.pro
      PROVE  Keeps(r, new, after)
  <2>1. Keeps(r, all, ev) /\ r.mem.sub \in SubIds
    BY <1>2 DEF StepOK
  <2>2. GrantsAccess(new[r.mem.sub]) \/ r.mem.sub \in after
    BY <2>1 DEF Keeps
  <2>3. ASSUME ~ListingLags, NEW i \in Granting(new)
        PROVE  i = r.mem.sub \/ i \in after \/ i \in StillDuplicates(r)
    BY <2>1, <2>3 DEF Keeps, Granting
  <2> QED
    BY <2>1, <2>2, <2>3 DEF Keeps
<1> QED
  BY <1>1, <1>2 DEF StepOK

LEMMA SerialGrows ==
  ASSUME NEW r, NEW rw, NEW g, NEW h, g \subseteq h, SerialOK(r, rw, g)
  PROVE  SerialOK(r, rw, h)
BY DEF SerialOK

\* The one request before its step, and as the step's subscriptions leave it.
LEMMA SerialBefore ==
  ASSUME IInv, IInv', Lives, EarnedInv, PlanInv, NEW p \in Procs
  PROVE  /\ req \in [Procs -> Request] /\ req[p] \in Request /\ WellPlaced(req[p])
         /\ RequestOK(req[p], everGranted) /\ row \in Row
         /\ SerialOK(req[p], row, everGranted) /\ SerialOK(req[p], row, everGranted')
         /\ StepOK(req[p], row, subs, events)
         /\ events \subseteq events' => StepOK(req[p], row, subs', events')
         /\ everGranted \subseteq SubIds /\ everGranted \subseteq everGranted'
<1>1. /\ req \in [Procs -> Request] /\ req[p] \in Request /\ WellPlaced(req[p])
      /\ RequestOK(req[p], everGranted) /\ row \in Row
      /\ everGranted \subseteq SubIds /\ everGranted \subseteq everGranted'
  BY ReqOK DEF IInv, RequestInv, RequestOK, RestInv, StripeInv, Lives, Grants
<1>2. /\ SerialOK(req[p], row, everGranted) /\ SerialOK(req[p], row, everGranted')
      /\ StepOK(req[p], row, subs, events)
  BY <1>1, SerialGrows DEF EarnedInv, PlanInv
<1>3. req[p].mem.pro => req[p].mem.sub \in SubIds
  BY <1>1, <1>2 DEF SerialOK
<1>4. ASSUME events \subseteq events' PROVE StepOK(req[p], row, subs', events')
  BY <1>1, <1>2, <1>3, <1>4, OlderStep DEF Lives, Told
<1> QED
  BY <1>1, <1>2, <1>4

SerialStep(p) ==
    /\ SerialOK(req'[p], row', everGranted') /\ StepOK(req'[p], row', subs', events')
    /\ (row'.pro => row'.sub \in everGranted') /\ PlanRow'

LEMMA SerialSteps ==
  ASSUME Serial, NEW p \in Procs, SerialStep(p)
  PROVE  EarnedInv' /\ PlanInv'
<1>1. \A q \in Procs : q = p
  BY DEF Serial
<1> QED
  BY <1>1 DEF SerialStep, EarnedInv, EarnedRow, PlanInv

\* Nothing is left to tell of a subscription without access that isn't the row's.
Settled(i) == ~GrantsAccess(subs'[i]) /\ ~(row.pro /\ row.sub = i)

LEMMA RowStays ==
  ASSUME Serial, IInv, Lives, EarnedInv, PlanInv, NEW p \in Procs, row' = row,
         \A i \in SubIds : i \in events \/ Handling(p, i)
                             => i \in events' \/ Handling(p, i)' \/ Settled(i)
  PROVE  (row'.pro => row'.sub \in everGranted') /\ PlanRow'
<1>1. everGranted \subseteq everGranted' /\ everGranted \subseteq SubIds
  BY DEF Lives, Grants, IInv, StripeInv
<1>2. \A i \in SubIds : Pending(i) => Pending(i)' \/ Settled(i)
  BY DEF Serial, Pending
<1>3. \A i \in SubIds : (GrantsAccess(subs[i]) # GrantsAccess(subs'[i])) => Pending(i)'
  BY DEF Lives, Told, Pending
<1>4. row.pro => row.sub \in everGranted
  BY DEF EarnedInv, EarnedRow
<1>5. ASSUME ~ListingLags, NEW i \in SubIds, GrantsAccess(subs'[i])
      PROVE  (row'.pro /\ row'.sub = i) \/ Pending(i)'
  <2>1. CASE ~GrantsAccess(subs[i])
    BY <1>3, <1>5, <2>1
  <2>2. CASE GrantsAccess(subs[i])
    <3>1. (row.pro /\ row.sub = i) \/ Pending(i)
      BY <1>5, <2>2, Zenon DEF PlanInv, PlanRow, Granting
    <3> QED
      BY <1>2, <1>5, <3>1 DEF Settled
  <2> QED
    BY <2>1, <2>2
<1>6. ASSUME row'.pro PROVE (GrantsAccess(subs[row.sub]) \/ Pending(row.sub))'
  <2>1. GrantsAccess(subs[row.sub]) \/ Pending(row.sub)
    BY <1>6, Zenon DEF PlanInv, PlanRow
  <2> DEFINE i == row.sub
  <2>2. i \in SubIds /\ row.pro
    BY <1>1, <1>4, <1>6
  <2>3. Pending(i) => Pending(i)'
    BY <1>2, <2>2 DEF Settled
  <2> QED
    BY <1>3, <2>1, <2>2, <2>3
<1>7. (row'.pro => row'.sub \in everGranted')
  BY <1>1, <1>4
<1>8. PlanRow'
  BY <1>5, <1>6, Zenon DEF PlanRow, Granting
<1> QED
  BY <1>7, <1>8

LEMMA MoveSerial ==
  ASSUME Serial, IInv, Lives, EarnedInv, PlanInv, NEW p \in Procs, NEW s,
         req' = [req EXCEPT ![p] = s], row' = row, events \subseteq events',
         req[p].kind = "event" => s.kind = "event" /\ s.sub = req[p].sub,
         SerialOK(s, row, everGranted'), StepOK(s, row, subs', events')
  PROVE  SerialStep(p)
<1>1. req'[p] = s
  BY DEF IInv, RequestInv
<1>2. \A i \in SubIds : i \in events \/ Handling(p, i) => i \in events' \/ Handling(p, i)'
  BY <1>1 DEF Handling
<1> QED
  BY <1>1, <1>2, RowStays DEF SerialStep

LEMMA EndSerial ==
  ASSUME Serial, IInv, Lives, EarnedInv, PlanInv, NEW p \in Procs, End(p), row' = row,
         events \subseteq events',
         req[p].kind = "event" => req[p].sub \in events' \/ Settled(req[p].sub)
  PROVE  SerialStep(p)
<1>1. req'[p] = IdleRequest
  BY DEF IInv, RequestInv, End
<1>2. \A i \in SubIds : i \in events \/ Handling(p, i) => i \in events' \/ Settled(i)
  BY DEF Handling
<1> QED
  BY <1>1, <1>2, RowStays, IdleSerial DEF SerialStep

\* Only a delivery takes an event away.
LEMMA EventsStay ==
  ASSUME NEW p \in Procs, Proceed(p) \/ Fail(p)
  PROVE  events \subseteq events'
<1>1. \A i, s : StripeChanges(i, s) => events \subseteq events'
  BY DEF StripeChanges
<1>2. RetryEvent(p) => events \subseteq events'
  BY DEF RetryEvent
<1>3. CASE Checkout(p)
  BY <1>1, <1>3 DEF Checkout, AcquireHostLock, LockUser, ReuseCheckout, CancelStale,
     CreateSubscription, CreateRefused, Respond, stripeVars
<1>4. CASE Sync(p)
  BY <1>1, <1>4 DEF Sync, AdoptTrialCard, ApplySubscription, KeepOne, CancelExtra,
     RefundExtra, Commit, stripeVars
<1>5. CASE \/ AdoptRefused(p) \/ TrialLookup(p) \/ TrialStore(p) \/ RetrieveOwn(p)
           \/ CancelAtStripe(p) \/ LoadUser(p)
  BY <1>1, <1>2, <1>5 DEF AdoptRefused, TrialLookup, TrialStore, RetrieveOwn,
     CancelAtStripe, LoadUser, stripeVars
<1>6. CASE Fail(p)
  BY <1>2, <1>6 DEF Fail, RequestFails, RefreshFails, TrialLookupFails, CancelStaleFails,
     stripeVars
<1> QED
  BY <1>3, <1>4, <1>5, <1>6 DEF Proceed

\* A request that looks at nothing new, and has nothing to save.
LEMMA SameSeen ==
  ASSUME NEW r, NEW s, NEW rw, NEW all, NEW ev, StepOK(r, rw, all, ev),
         s.sub = r.sub, s.snap = r.snap, s.pc \notin {"undo", "refund", "save"}
  PROVE  StepOK(s, rw, all, ev)
BY DEF StepOK

\* On its way to the steps that read only Stripe, it keeps the row it loaded.
LEMMA RouteSerial ==
  ASSUME NEW r \in Request, NEW rw, NEW g, NEW loc, r.row = rw, r.mem = rw,
         rw.pro => rw.sub \in g, r.kind = "checkout" => ~rw.pro,
         \/ loc \in {"adopt", "apply"}
         \/ loc \in {"reuse", "cancelStale", "create"} /\ r.kind = "checkout"
  PROVE  SerialOK([r EXCEPT !.pc = loc], rw, g)
<1> DEFINE s == [r EXCEPT !.pc = loc]
<1>1. s.pc = loc /\ s.kind = r.kind /\ s.row = rw /\ s.mem = rw
  BY DEF Request
<1> HIDE DEF s
<1>2. SerialOK(s, rw, g)
  BY <1>1 DEF SerialOK, KindAt, Fresh, Unchanged
<1> QED
  BY <1>2 DEF s

LEMMA RoutesSerial ==
  ASSUME NEW r \in Request, NEW rw, NEW g, r.row = rw, r.mem = rw,
         rw.pro => rw.sub \in g, r.kind = "checkout" => ~rw.pro
  PROVE  /\ SerialOK([r EXCEPT !.pc = "adopt"], rw, g)
         /\ SerialOK(SyncFrom(r), rw, g)
         /\ r.kind = "checkout" => SerialOK(CheckoutFrom(r), rw, g)
         /\ SerialOK(AfterAdopt(r), rw, g)
<1>1. SerialOK(SyncFrom(r), rw, g)
  BY RouteSerial DEF SyncFrom
<1>2. r.kind = "checkout" => SerialOK(CheckoutFrom(r), rw, g)
  BY RouteSerial DEF CheckoutFrom
<1> QED
  BY <1>1, <1>2, RouteSerial DEF AfterAdopt

\* Wherever it goes on, it knows what it has just seen at Stripe.
LEMMA RoutesSeen ==
  ASSUME NEW r \in Request, NEW rw, NEW all, NEW ev,
         GrantsAccess(r.snap) = GrantsAccess(all[r.sub])
  PROVE  /\ StepOK([r EXCEPT !.pc = "adopt"], rw, all, ev)
         /\ StepOK(SyncFrom(r), rw, all, ev)
         /\ StepOK(CheckoutFrom(r), rw, all, ev)
         /\ StepOK(AfterAdopt(r), rw, all, ev)
<1>1. ASSUME NEW loc \in {"adopt", "apply", "reuse", "cancelStale", "create"}
      PROVE  StepOK([r EXCEPT !.pc = loc], rw, all, ev)
  <2> DEFINE s == [r EXCEPT !.pc = loc]
  <2>1. s.pc = loc /\ s.sub = r.sub /\ s.snap = r.snap
    BY DEF Request
  <2> HIDE DEF s
  <2>2. StepOK(s, rw, all, ev)
    BY <2>1 DEF StepOK
  <2> QED
    BY <2>2 DEF s
<1>2. StepOK(SyncFrom(r), rw, all, ev)
  BY <1>1 DEF SyncFrom
<1>3. StepOK(CheckoutFrom(r), rw, all, ev)
  BY <1>1 DEF CheckoutFrom
<1> QED
  BY <1>1, <1>2, <1>3 DEF AfterAdopt

LEMMA RoutesKind ==
  ASSUME NEW r \in Request
  PROVE  /\ SyncFrom(r).kind = r.kind /\ SyncFrom(r).sub = r.sub
         /\ CheckoutFrom(r).kind = r.kind /\ CheckoutFrom(r).sub = r.sub
         /\ AfterAdopt(r).kind = r.kind /\ AfterAdopt(r).sub = r.sub
<1>1. \A loc : [r EXCEPT !.pc = loc].kind = r.kind /\ [r EXCEPT !.pc = loc].sub = r.sub
  BY DEF Request
<1>2. SyncFrom(r).kind = r.kind /\ SyncFrom(r).sub = r.sub
  BY <1>1 DEF SyncFrom
<1>3. CheckoutFrom(r).kind = r.kind /\ CheckoutFrom(r).sub = r.sub
  BY <1>1 DEF CheckoutFrom
<1> QED
  BY <1>2, <1>3 DEF AfterAdopt

\* Between requests and where none is loaded yet, there is nothing to know.
LEMMA StartSerial ==
  ASSUME Serial, IInv, IInv', Lives, EarnedInv, PlanInv, NEW p \in Procs, Start(p)
  PROVE  SerialStep(p)
<1>1. /\ req \in [Procs -> Request] /\ req[p] \in Request /\ row \in Row
      /\ SerialOK(req[p], row, everGranted') /\ StepOK(req[p], row, subs, events)
      /\ req[p].pc = "idle" /\ row' = row /\ subs' = subs
      /\ row.pro => row.sub \in everGranted'
  <2>1. row.pro => row.sub \in everGranted
    BY DEF EarnedInv, EarnedRow
  <2> QED
    BY <2>1, SerialBefore DEF Start, StartCheckout, StartStatus, StartCancel, Deliver, At,
       stripeVars
<1>2. req[p].kind = "none"
  BY <1>1 DEF SerialOK, KindAt
<1>3. ASSUME NEW plan, StartCheckout(p, plan) PROVE SerialStep(p)
  <2> DEFINE s == [IdleRequest EXCEPT !.pc = "hostLock", !.kind = "checkout", !.plan = plan]
  <2>1. /\ s.pc = "hostLock" /\ s.kind = "checkout" /\ s.mem.pro = FALSE /\ s.sub = NoSub
    BY DEF IdleRequest, FreeRow
  <2>2. req' = [req EXCEPT ![p] = s] /\ events' = events
    BY <1>3 DEF StartCheckout, Continue, stripeVars
  <2> HIDE DEF s
  <2>3. SerialOK(s, row, everGranted') /\ StepOK(s, row, subs', events')
    BY <2>1 DEF SerialOK, KindAt, Fresh, Unchanged, StepOK
  <2> QED
    BY <1>1, <1>2, <2>2, <2>3, MoveSerial
<1>4. ASSUME NEW kind \in {"status", "cancel"}, NEW loc \in {"trial", "retrieve", "cancelAtStripe"},
             loc = "cancelAtStripe" <=> kind = "cancel", events' = events,
             Continue(p, [Loaded(p) EXCEPT !.kind = kind, !.pc = loc])
      PROVE  SerialStep(p)
  <2> DEFINE s == [Loaded(p) EXCEPT !.kind = kind, !.pc = loc]
  <2>1. /\ s.pc = loc /\ s.kind = kind /\ s.mem = row /\ s.row = row
        /\ s.sub = req[p].sub /\ s.snap = req[p].snap
    BY <1>1 DEF Loaded, Request
  <2>2. req' = [req EXCEPT ![p] = s]
    BY <1>4 DEF Continue
  <2> HIDE DEF s
  <2>3. SerialOK(s, row, everGranted')
    BY <1>1, <1>4, <2>1 DEF SerialOK, KindAt, Fresh, Unchanged
  <2>4. StepOK(s, row, subs', events')
    BY <1>1, <1>4, <2>1, SameSeen
  <2> QED
    BY <1>1, <1>2, <1>4, <2>2, <2>3, <2>4, MoveSerial
<1>5. ASSUME NEW refresh, StartStatus(p, refresh) PROVE SerialStep(p)
  <2> DEFINE loc == IF refresh /\ row.sub # NoSub THEN "retrieve" ELSE "trial"
  <2>1. Continue(p, [Loaded(p) EXCEPT !.kind = "status", !.pc = loc]) /\ events' = events
    BY <1>5 DEF StartStatus, stripeVars
  <2>2. loc \in {"trial", "retrieve", "cancelAtStripe"} /\ loc # "cancelAtStripe"
    OBVIOUS
  <2> HIDE DEF loc
  <2> QED
    BY <1>4, <2>1, <2>2
<1>6. ASSUME StartCancel(p) PROVE SerialStep(p)
  BY <1>4, <1>6 DEF StartCancel, stripeVars
<1>7. ASSUME NEW i \in SubIds, Deliver(p, i) PROVE SerialStep(p)
  <2> DEFINE s == [Seen(IdleRequest, i, subs[i]) EXCEPT !.kind = "event", !.pc = "load"]
  <2>1. s.pc = "load" /\ s.kind = "event" /\ s.sub = i /\ s.snap = subs[i] /\ s.mem.pro = FALSE
    BY DEF IdleRequest, FreeRow, Seen
  <2>2. req' = [req EXCEPT ![p] = s] /\ events \ {i} \subseteq events'
    BY <1>7 DEF Deliver, Continue
  <2> HIDE DEF s
  <2>3. SerialOK(s, row, everGranted') /\ StepOK(s, row, subs', events')
    BY <1>1, <2>1 DEF SerialOK, KindAt, Fresh, Unchanged, StepOK
  <2>4. req'[p] = s
    BY <1>1, <2>2
  <2>5. \A j \in SubIds : j \in events \/ Handling(p, j) => j \in events' \/ Handling(p, j)'
    BY <1>2, <2>1, <2>2, <2>4 DEF Handling
  <2> QED
    BY <1>1, <2>3, <2>4, <2>5, RowStays DEF SerialStep
<1> QED
  BY <1>3, <1>5, <1>6, <1>7 DEF Start

\* The end of what it knows of the row, on the way to the trial's answer.
LEMMA AfterSyncSerial ==
  ASSUME Serial, IInv, IInv', Lives, EarnedInv, PlanInv, NEW p \in Procs, AfterSync(p),
         row' = row, events \subseteq events', KindAt(req[p]),
         req[p].kind = "event" => req[p].sub \in events' \/ Settled(req[p].sub)
  PROVE  SerialStep(p)
<1>1. /\ req \in [Procs -> Request] /\ req[p] \in Request
      /\ SerialOK(req[p], row, everGranted') /\ StepOK(req[p], row, subs', events')
  BY SerialBefore
<1>2. CASE End(p)
  BY <1>2, EndSerial
<1>3. CASE req[p].kind = "status" /\ Goto(p, "trial")
  <2> DEFINE s == [req[p] EXCEPT !.pc = "trial"]
  <2>1. /\ s.pc = "trial" /\ s.kind = "status" /\ s.mem = req[p].mem
        /\ s.sub = req[p].sub /\ s.snap = req[p].snap
    BY <1>1, <1>3 DEF Request
  <2>2. req' = [req EXCEPT ![p] = s]
    BY <1>3 DEF Goto, Continue
  <2> HIDE DEF s
  <2>3. SerialOK(s, row, everGranted')
    BY <1>1, <2>1 DEF SerialOK, KindAt, Fresh, Unchanged
  <2>4. StepOK(s, row, subs', events')
    BY <1>1, <2>1, SameSeen
  <2> QED
    BY <1>3, <2>2, <2>3, <2>4, MoveSerial
<1> QED
  BY <1>2, <1>3 DEF AfterSync

LEMMA TrialKnownSerial ==
  ASSUME Serial, IInv, IInv', Lives, EarnedInv, PlanInv, NEW p \in Procs, NEW trial,
         TrialKnown(p, trial), req[p].pc \in {"trial", "trialSet"},
         row' = row, events \subseteq events'
  PROVE  SerialStep(p)
<1> DEFINE loc == IF req[p].mem.sub = NoSub THEN "create" ELSE "retrieve"
<1> DEFINE s == [req[p] EXCEPT !.trial = trial, !.pc = loc]
<1>1. /\ req \in [Procs -> Request] /\ req[p] \in Request
      /\ SerialOK(req[p], row, everGranted') /\ StepOK(req[p], row, subs', events')
  BY SerialBefore
<1>2. CASE req[p].kind = "status" /\ End(p)
  BY <1>2, EndSerial
<1>3. CASE req[p].kind = "checkout" /\ Continue(p, s)
  <2>1. loc \in {"create", "retrieve"} /\ req' = [req EXCEPT ![p] = s]
    BY <1>3 DEF Continue
  <2> HIDE DEF loc
  <2>2. /\ s.pc = loc /\ s.kind = "checkout" /\ s.mem = req[p].mem /\ s.row = req[p].row
        /\ s.sub = req[p].sub /\ s.snap = req[p].snap
    BY <1>1, <1>3 DEF Request
  <2> HIDE DEF s
  <2>3. SerialOK(s, row, everGranted')
    BY <1>1, <1>3, <2>1, <2>2 DEF SerialOK, KindAt, Fresh, Unchanged
  <2>4. StepOK(s, row, subs', events')
    BY <1>1, <2>1, <2>2, SameSeen
  <2> QED
    BY <1>3, <2>1, <2>3, <2>4, MoveSerial
<1> QED
  BY <1>2, <1>3 DEF TrialKnown

\* A request that only goes from one place to the next.
LEMMA GotoSerial ==
  ASSUME Serial, IInv, IInv', Lives, EarnedInv, PlanInv, NEW p \in Procs,
         NEW loc \in {"rowLock", "list", "create", "respond", "trialSet"}, NEW trial,
         loc = "rowLock" => req[p].pc = "hostLock",
         loc = "list" => req[p].pc = "apply",
         loc = "create" => req[p].pc = "cancelStale",
         loc = "respond" => req[p].pc = "reuse",
         loc = "trialSet" => req[p].pc = "trial",
         req' = [req EXCEPT ![p] = [req[p] EXCEPT !.trial = trial, !.pc = loc]],
         row' = row, events \subseteq events'
  PROVE  SerialStep(p)
<1> DEFINE s == [req[p] EXCEPT !.trial = trial, !.pc = loc]
<1>1. /\ req \in [Procs -> Request] /\ req[p] \in Request
      /\ SerialOK(req[p], row, everGranted') /\ StepOK(req[p], row, subs', events')
  BY SerialBefore
<1>2. /\ s.pc = loc /\ s.kind = req[p].kind /\ s.mem = req[p].mem /\ s.row = req[p].row
      /\ s.sub = req[p].sub /\ s.snap = req[p].snap
  BY <1>1 DEF Request
<1>3. req' = [req EXCEPT ![p] = s]
  OBVIOUS
<1> HIDE DEF s
<1>4. SerialOK(s, row, everGranted')
  BY <1>1, <1>2 DEF SerialOK, KindAt, Fresh, Unchanged
<1>5. StepOK(s, row, subs', events')
  BY <1>1, <1>2, SameSeen
<1> QED
  BY <1>2, <1>3, <1>4, <1>5, MoveSerial

LEMMA GotosSerial ==
  ASSUME Serial, IInv, IInv', Lives, EarnedInv, PlanInv, NEW p \in Procs,
         AcquireHostLock(p) \/ CancelStale(p) \/ CancelStaleFails(p) \/ ReuseCheckout(p)
  PROVE  SerialStep(p)
<1>1. req \in [Procs -> Request] /\ req[p] \in Request
  BY SerialBefore
<1>2. events \subseteq events'
  BY EventsStay DEF Proceed, Checkout, Fail
<1>3. \A loc : [req[p] EXCEPT !.pc = loc] = [req[p] EXCEPT !.trial = req[p].trial, !.pc = loc]
  BY <1>1 DEF Request
<1>4. row' = row
  BY DEF AcquireHostLock, CancelStale, CancelStaleFails, ReuseCheckout
<1>5. CASE AcquireHostLock(p)
  <2>1. req' = [req EXCEPT ![p] = [req[p] EXCEPT !.pc = "rowLock"]] /\ req[p].pc = "hostLock"
    BY <1>1, <1>5 DEF AcquireHostLock, At
  <2> QED
    BY <1>2, <1>3, <1>4, <2>1, GotoSerial
<1>6. CASE CancelStale(p) \/ CancelStaleFails(p)
  <2>1. req' = [req EXCEPT ![p] = [req[p] EXCEPT !.pc = "create"]] /\ req[p].pc = "cancelStale"
    BY <1>6 DEF CancelStale, CancelStaleFails, Goto, Continue, At
  <2> QED
    BY <1>2, <1>3, <1>4, <2>1, GotoSerial
<1>7. CASE ReuseCheckout(p)
  <2>1. req' = [req EXCEPT ![p] = [req[p] EXCEPT !.pc = "respond"]] /\ req[p].pc = "reuse"
    BY <1>1, <1>7 DEF ReuseCheckout, At
  <2> QED
    BY <1>2, <1>3, <1>4, <2>1, GotoSerial
<1> QED
  BY <1>5, <1>6, <1>7

LEMMA TrialSerial ==
  ASSUME Serial, IInv, IInv', Lives, EarnedInv, PlanInv, NEW p \in Procs,
         TrialLookup(p) \/ TrialStore(p) \/ TrialLookupFails(p)
  PROVE  SerialStep(p)
<1>1. row' = row /\ events' = events /\ req[p].pc \in {"trial", "trialSet"}
  BY DEF TrialLookup, TrialStore, TrialLookupFails, stripeVars, At
<1>2. CASE \E trial : TrialKnown(p, trial)
  BY <1>1, <1>2, TrialKnownSerial
<1>3. CASE At(p, "trial") /\ Continue(p, [req[p] EXCEPT !.trial = ~SubscribedBefore, !.pc = "trialSet"])
  BY <1>1, <1>3, GotoSerial DEF Continue, At
<1> QED
  BY <1>2, <1>3 DEF TrialLookup, TrialStore, TrialLookupFails

LEMMA LockUserSerial ==
  ASSUME Serial, IInv, IInv', Lives, EarnedInv, PlanInv, NEW p \in Procs, LockUser(p)
  PROVE  SerialStep(p)
<1>1. /\ req \in [Procs -> Request] /\ req[p] \in Request /\ row \in Row
      /\ SerialOK(req[p], row, everGranted') /\ events' = events
      /\ StepOK(req[p], row, subs', events') /\ req[p].pc = "rowLock" /\ row' = row
  BY SerialBefore DEF LockUser, At, stripeVars
<1>2. req[p].kind = "checkout"
  BY <1>1 DEF SerialOK, KindAt
<1>3. CASE End(p)
  BY <1>1, <1>2, <1>3, EndSerial
<1>4. CASE ~row.pro /\ req' = [req EXCEPT ![p] = [Loaded(p) EXCEPT !.pc = "trial"]]
  <2> DEFINE s == [Loaded(p) EXCEPT !.pc = "trial"]
  <2>1. /\ s.pc = "trial" /\ s.kind = "checkout" /\ s.mem = row /\ s.row = row
        /\ s.sub = req[p].sub /\ s.snap = req[p].snap
    BY <1>1, <1>2 DEF Loaded, Request
  <2>2. req' = [req EXCEPT ![p] = s]
    BY <1>4
  <2> HIDE DEF s
  <2>3. SerialOK(s, row, everGranted')
    BY <1>4, <2>1 DEF SerialOK, KindAt, Fresh, Unchanged
  <2>4. StepOK(s, row, subs', events')
    BY <1>1, <2>1, SameSeen
  <2> QED
    BY <1>1, <1>2, <2>2, <2>3, <2>4, MoveSerial
<1> QED
  BY <1>3, <1>4 DEF LockUser

\* What Stripe has just said of a subscription is true of it.
LEMMA SeenSerial ==
  ASSUME Serial, IInv, IInv', Lives, EarnedInv, PlanInv, NEW p \in Procs,
         NEW i \in SubIds, NEW r \in Request, NEW s,
         r.row = row, r.mem = row, r.sub = i, r.kind = req[p].kind,
         r.kind = "checkout" => ~row.pro, r.kind = "event" => req[p].sub = i,
         GrantsAccess(r.snap) = GrantsAccess(subs'[i]),
         \/ s = [r EXCEPT !.pc = "adopt"]
         \/ s = SyncFrom(r) \/ s = AfterAdopt(r)
         \/ r.kind = "checkout" /\ s = CheckoutFrom(r),
         Continue(p, s), row' = row, events \subseteq events'
  PROVE  SerialStep(p)
<1>1. row.pro => row.sub \in everGranted'
  BY DEF EarnedInv, EarnedRow, Lives, Grants
<1>2. SerialOK(s, row, everGranted')
  <2>1. /\ SerialOK([r EXCEPT !.pc = "adopt"], row, everGranted')
        /\ SerialOK(SyncFrom(r), row, everGranted')
        /\ r.kind = "checkout" => SerialOK(CheckoutFrom(r), row, everGranted')
        /\ SerialOK(AfterAdopt(r), row, everGranted')
    BY <1>1, RoutesSerial
  <2> QED
    BY <2>1, Zenon
<1>3. StepOK(s, row, subs', events')
  <2>1. /\ StepOK([r EXCEPT !.pc = "adopt"], row, subs', events')
        /\ StepOK(SyncFrom(r), row, subs', events')
        /\ StepOK(CheckoutFrom(r), row, subs', events')
        /\ StepOK(AfterAdopt(r), row, subs', events')
    BY RoutesSeen
  <2> QED
    BY <2>1, Zenon
<1>4. s.kind = r.kind /\ s.sub = i
  <2>1. [r EXCEPT !.pc = "adopt"].kind = r.kind /\ [r EXCEPT !.pc = "adopt"].sub = r.sub
    BY DEF Request
  <2> QED
    BY <2>1, RoutesKind
<1>5. req' = [req EXCEPT ![p] = s]
  BY DEF Continue
<1> QED
  BY <1>2, <1>3, <1>4, <1>5, MoveSerial

LEMMA RetrieveSerial ==
  ASSUME Serial, IInv, IInv', Lives, EarnedInv, PlanInv, NEW p \in Procs, RetrieveOwn(p)
  PROVE  SerialStep(p)
<1> DEFINE own == req[p].mem.sub
<1> DEFINE r == Seen(req[p], own, subs[own])
<1>1. /\ req[p] \in Request /\ WellPlaced(req[p]) /\ SerialOK(req[p], row, everGranted)
      /\ row' = row /\ subs' = subs /\ events' = events /\ req[p].pc = "retrieve"
  BY SerialBefore DEF RetrieveOwn, At, stripeVars
<1>2. /\ own \in SubIds /\ req[p].row = row /\ req[p].mem = row
      /\ req[p].kind \in {"status", "checkout"} /\ (req[p].kind = "checkout" => ~row.pro)
  BY <1>1 DEF WellPlaced, Request, Row, SerialOK, KindAt, Fresh, Unchanged
<1>3. subs[own] \in Subscription
  BY <1>2 DEF IInv, StripeInv
<1>4. /\ r \in Request /\ r.row = row /\ r.mem = row /\ r.sub = own /\ r.kind = req[p].kind
      /\ r.snap = subs[own]
  BY <1>1, <1>2, <1>3 DEF Seen, Request
<1> HIDE DEF r
<1>5. PICK s : /\ Continue(p, s)
               /\ \/ s = [r EXCEPT !.pc = "adopt"] \/ s = SyncFrom(r)
                  \/ r.kind = "checkout" /\ s = CheckoutFrom(r)
  BY DEF RetrieveOwn, r
<1> HIDE DEF own
<1> QED
  BY <1>1, <1>2, <1>4, <1>5, SeenSerial

LEMMA AdoptSerial ==
  ASSUME Serial, IInv, IInv', Lives, EarnedInv, PlanInv, NEW p \in Procs,
         AdoptTrialCard(p) \/ AdoptRefused(p)
  PROVE  SerialStep(p)
<1> DEFINE i == req[p].sub
<1> DEFINE adopted == [subs[i] EXCEPT !.card = TRUE]
<1> DEFINE r == [req[p] EXCEPT !.snap = adopted]
<1>1. /\ req[p] \in Request /\ WellPlaced(req[p]) /\ SerialOK(req[p], row, everGranted)
      /\ row' = row /\ req[p].pc = "adopt" /\ req \in [Procs -> Request]
  BY SerialBefore DEF AdoptTrialCard, AdoptRefused, At
<1>2. /\ i \in SubIds /\ req[p].row = row /\ req[p].mem = row
      /\ (req[p].kind = "checkout" => ~row.pro) /\ KindAt(req[p])
  BY <1>1 DEF WellPlaced, Request, SerialOK, Fresh, Unchanged
<1>3. events \subseteq events'
  BY EventsStay DEF Proceed, Sync
<1>4. StepOK(req[p], row, subs', events') /\ SerialOK(req[p], row, everGranted')
  BY <1>3, SerialBefore
<1>5. CASE AdoptRefused(p)
  <2>1. AfterSync(p) /\ (req[p].kind = "event" => req[p].sub \in events')
    BY <1>5 DEF AdoptRefused, RetryEvent
  <2> QED
    BY <1>1, <1>2, <1>3, <2>1, AfterSyncSerial
<1>6. CASE StripeChanges(i, adopted) /\ Continue(p, AfterAdopt(r))
  <2>1. subs[i] \in Subscription /\ subs'[i] = adopted
    BY <1>2, <1>6 DEF IInv, StripeInv, StripeChanges
  <2>2. adopted \in Subscription
    BY <2>1 DEF Subscription
  <2> HIDE DEF adopted
  <2>3. /\ r \in Request /\ r.row = row /\ r.mem = row /\ r.sub = i /\ r.kind = req[p].kind
        /\ r.snap = adopted
    BY <1>1, <1>2, <2>2 DEF Request
  <2>4. GrantsAccess(r.snap) = GrantsAccess(subs'[i])
    BY <2>1, <2>3
  <2>5. Continue(p, AfterAdopt(r))
    BY <1>6
  <2> HIDE DEF r
  <2> QED
    BY <1>1, <1>2, <1>3, <2>3, <2>4, <2>5, SeenSerial
<1>7. CASE Goto(p, "apply")
  <2> DEFINE s == [req[p] EXCEPT !.pc = "apply"]
  <2>1. /\ s.pc = "apply" /\ s.kind = req[p].kind /\ s.mem = row /\ s.row = row
        /\ s.sub = req[p].sub /\ s.snap = req[p].snap
    BY <1>1, <1>2 DEF Request
  <2>2. req' = [req EXCEPT ![p] = s]
    BY <1>7 DEF Goto, Continue
  <2> HIDE DEF s
  <2>3. SerialOK(s, row, everGranted')
    BY <1>1, <1>2, <1>4, <2>1 DEF SerialOK, KindAt, Fresh, Unchanged
  <2>4. StepOK(s, row, subs', events')
    BY <1>4, <2>1, SameSeen
  <2> QED
    BY <1>1, <1>3, <2>1, <2>2, <2>3, <2>4, MoveSerial
<1> QED
  BY <1>5, <1>6, <1>7 DEF AdoptTrialCard

LEMMA CancelSerial ==
  ASSUME Serial, IInv, IInv', Lives, EarnedInv, PlanInv, NEW p \in Procs, CancelAtStripe(p)
  PROVE  SerialStep(p)
<1> DEFINE i == req[p].mem.sub
<1>1. /\ req[p] \in Request /\ WellPlaced(req[p]) /\ SerialOK(req[p], row, everGranted)
      /\ row' = row /\ req[p].pc = "cancelAtStripe"
  BY SerialBefore DEF CancelAtStripe, At
<1>2. /\ i \in SubIds /\ req[p].row = row /\ req[p].mem = row /\ req[p].kind = "cancel"
  BY <1>1 DEF WellPlaced, Request, Row, SerialOK, KindAt, Fresh, Unchanged
<1>3. events \subseteq events'
  BY EventsStay DEF Proceed
<1>4. CASE End(p)
  BY <1>1, <1>2, <1>3, <1>4, EndSerial
<1>5. ASSUME NEW t, t \in {subs[i], [subs[i] EXCEPT !.status = "canceled"]},
             StripeChanges(i, t), Continue(p, SyncFrom(Seen(req[p], i, t)))
      PROVE  SerialStep(p)
  <2> DEFINE r == Seen(req[p], i, t)
  <2>1. t \in Subscription /\ subs'[i] = t
    BY <1>2, <1>5 DEF IInv, StripeInv, StripeChanges, Subscription, Statuses
  <2>2. /\ r \in Request /\ r.row = row /\ r.mem = row /\ r.sub = i /\ r.kind = "cancel"
        /\ r.snap = t
    BY <1>1, <1>2, <2>1 DEF Seen, Request
  <2>3. Continue(p, SyncFrom(r))
    BY <1>5
  <2> HIDE DEF r
  <2> QED
    BY <1>1, <1>2, <1>3, <2>1, <2>2, <2>3, SeenSerial
<1> QED
  BY <1>4, <1>5 DEF CancelAtStripe

\* The webhook read the subscription before the user; what changed since is
\* told by the next one.
LEMMA LoadSerial ==
  ASSUME Serial, IInv, IInv', Lives, EarnedInv, PlanInv, NEW p \in Procs, LoadUser(p)
  PROVE  SerialStep(p)
<1> DEFINE r == Loaded(p)
<1>1. /\ req[p] \in Request /\ WellPlaced(req[p]) /\ SerialOK(req[p], row, everGranted)
      /\ StepOK(req[p], row, subs', events') /\ row \in Row
      /\ row' = row /\ subs' = subs /\ events' = events /\ req[p].pc = "load"
      /\ Continue(p, SyncFrom(r))
  BY SerialBefore DEF LoadUser, At, stripeVars
<1>2. /\ r \in Request /\ r.row = row /\ r.mem = row /\ r.sub = req[p].sub
      /\ r.kind = "event" /\ r.snap = req[p].snap /\ req[p].kind = "event"
  BY <1>1 DEF Loaded, Request, SerialOK, KindAt
<1> HIDE DEF r
<1>3. PICK loc \in {"adopt", "apply"} : SyncFrom(r) = [r EXCEPT !.pc = loc]
  BY DEF SyncFrom
<1> DEFINE s == [r EXCEPT !.pc = loc]
<1>4. /\ s.pc = loc /\ s.kind = "event" /\ s.sub = req[p].sub /\ s.snap = req[p].snap
  BY <1>2 DEF Request
<1>5. SerialOK(s, row, everGranted')
  <2>1. row.pro => row.sub \in everGranted'
    BY DEF EarnedInv, EarnedRow, Lives, Grants
  <2> QED
    BY <1>2, <2>1, RouteSerial
<1>6. req' = [req EXCEPT ![p] = s]
  BY <1>1, <1>3 DEF Continue
<1> HIDE DEF s
<1>7. StepOK(s, row, subs', events')
  BY <1>1, <1>4, SameSeen
<1> QED
  BY <1>1, <1>2, <1>4, <1>5, <1>6, <1>7, MoveSerial

LEMMA CreateSerial ==
  ASSUME Serial, IInv, IInv', Lives, EarnedInv, PlanInv, NEW p \in Procs,
         CreateSubscription(p) \/ CreateRefused(p) \/ Respond(p)
  PROVE  SerialStep(p)
<1> DEFINE new == [Uncreated EXCEPT !.plan = req[p].plan, !.trial = req[p].trial,
                      !.status = IF req[p].trial THEN "trialing" ELSE "incomplete"]
<1> DEFINE m == [req[p].mem EXCEPT !.sub = NextId]
<1> DEFINE s == [[Seen(req[p], NextId, new) EXCEPT !.mem = m] EXCEPT !.pc = "save"]
<1>1. /\ req[p] \in Request /\ SerialOK(req[p], row, everGranted)
      /\ req \in [Procs -> Request] /\ row' = row
      /\ req[p].pc \in {"create", "respond"}
  BY SerialBefore DEF CreateSubscription, CreateRefused, Respond, At
<1>2. events \subseteq events' /\ req[p].kind = "checkout"
  BY <1>1, EventsStay DEF Proceed, Checkout, SerialOK, KindAt
<1>3. CASE End(p)
  BY <1>1, <1>2, <1>3, EndSerial
<1>4. CASE CreateSubscription(p) /\ Continue(p, [Seen(req[p], NextId, new) EXCEPT
                                     !.mem.sub = NextId, !.pc = "save"])
  <2>1. /\ NextId \in SubIds /\ StripeChanges(NextId, new) /\ req[p].pc = "create"
    BY <1>4, NextIdIsNew DEF IInv, CreateSubscription, At
  <2>2. subs'[NextId] = new
    BY <2>1 DEF StripeChanges, IInv, StripeInv
  <2>3. ~GrantsAccess(new)
    BY DEF Uncreated, GrantsAccess, Access
  <2> HIDE DEF new
  <2>4. Continue(p, s)
    BY <1>1, <1>4 DEF Seen, Request
  <2>5. ~row.pro /\ req[p].mem = row /\ req[p].row = row
    BY <1>1, <1>2, <2>1 DEF SerialOK, Fresh, Unchanged
  <2>6. m.pro = row.pro
    BY <1>1, <2>5 DEF Request, Row
  <2> HIDE DEF m
  <2>7. /\ s.pc = "save" /\ s.kind = "checkout" /\ s.row = row /\ s.sub = NextId
        /\ s.mem = m /\ s.snap = new
    BY <1>1, <1>2, <2>5 DEF Request, Seen
  <2>8. req' = [req EXCEPT ![p] = s]
    BY <2>4 DEF Continue
  <2> HIDE DEF s
  <2>9. SerialOK(s, row, everGranted')
    BY <2>5, <2>6, <2>7 DEF SerialOK, KindAt, Fresh, Unchanged
  <2>10. StepOK(s, row, subs', events')
    BY <2>2, <2>3, <2>5, <2>6, <2>7 DEF StepOK
  <2> QED
    BY <1>1, <1>2, <2>8, <2>9, <2>10, MoveSerial
<1> QED
  BY <1>3, <1>4 DEF CreateSubscription, CreateRefused, Respond

\* The plan is taken away for the row's own subscription only.
LEMMA ApplySerial ==
  ASSUME Serial, IInv, IInv', Lives, EarnedInv, PlanInv, NEW p \in Procs, ApplySubscription(p)
  PROVE  SerialStep(p)
<1> DEFINE sub == IF req[p].snap.status \in Ended THEN NoSub ELSE req[p].sub
<1> DEFINE lost == [pro |-> FALSE, sub |-> sub]
<1>1. /\ req[p] \in Request /\ WellPlaced(req[p]) /\ SerialOK(req[p], row, everGranted)
      /\ SerialOK(req[p], row, everGranted') /\ StepOK(req[p], row, subs', events')
      /\ req \in [Procs -> Request] /\ row' = row /\ subs' = subs /\ events' = events
      /\ req[p].pc = "apply"
  BY SerialBefore DEF ApplySubscription, At, stripeVars
<1>2. /\ req[p].sub \in SubIds /\ req[p].sub # NoSub /\ req[p].row = row /\ req[p].mem = row
      /\ KindAt(req[p])
  BY <1>1 DEF WellPlaced, Request, SerialOK, Fresh, Unchanged
<1>3. CASE Goto(p, "list")
  <2>1. [req[p] EXCEPT !.pc = "list"] = [req[p] EXCEPT !.trial = req[p].trial, !.pc = "list"]
    BY <1>1 DEF Request
  <2>2. req' = [req EXCEPT ![p] = [req[p] EXCEPT !.pc = "list"]]
    BY <1>3 DEF Goto, Continue
  <2> QED
    BY <1>1, <2>1, <2>2, GotoSerial
<1>4. CASE /\ ~GrantsAccess(req[p].snap) /\ req[p].sub = req[p].mem.sub
           /\ Continue(p, [req[p] EXCEPT !.mem = lost, !.pc = "save"])
  <2> DEFINE s == [req[p] EXCEPT !.mem = lost, !.pc = "save"]
  <2>1. lost.pro = FALSE
    OBVIOUS
  <2> HIDE DEF lost
  <2>2. /\ s.pc = "save" /\ s.kind = req[p].kind /\ s.row = row /\ s.sub = req[p].sub
        /\ s.mem = lost /\ s.snap = req[p].snap
    BY <1>1, <1>2 DEF Request
  <2>3. req' = [req EXCEPT ![p] = s]
    BY <1>4 DEF Continue
  <2> HIDE DEF s
  <2>4. SerialOK(s, row, everGranted')
    BY <1>1, <2>1, <2>2 DEF SerialOK, KindAt, Fresh, Unchanged
  <2>5. StepOK(s, row, subs', events')
    BY <1>1, <1>2, <1>4, <2>1, <2>2 DEF StepOK
  <2> QED
    BY <1>1, <2>2, <2>3, <2>4, <2>5, MoveSerial
<1>5. CASE ~GrantsAccess(req[p].snap) /\ req[p].sub # req[p].mem.sub /\ AfterSync(p)
  <2>1. req[p].sub \in events' \/ Settled(req[p].sub)
    BY <1>1, <1>2, <1>5 DEF StepOK, Settled
  <2> QED
    BY <1>1, <1>2, <1>5, <2>1, AfterSyncSerial
<1> QED
  BY <1>3, <1>4, <1>5 DEF ApplySubscription, IsOwn

\* All that give access are listed: what isn't kept is undone, and what
\* comes or goes meanwhile is told again.
LEMMA KeepSerial ==
  ASSUME Serial, IInv, IInv', Lives, EarnedInv, PlanInv, NEW p \in Procs, KeepOne(p)
  PROVE  SerialStep(p)
<1>1. PICK missed \in SUBSET Granting(subs) :
        LET paying == (Granting(subs) \ missed) \cup {req[p].sub}
            extras == paying \ {Kept(paying)}
        IN /\ ListingLags \/ missed = {}
           /\ At(p, "list")
           /\ Continue(p, [req[p] EXCEPT
                !.extras = extras,
                !.mem = [pro |-> TRUE, sub |-> Kept(paying)],
                !.pc = IF extras = {} THEN "save" ELSE "undo"])
           /\ UNCHANGED <<stripeVars, refunded, shown, row, trialCache, failures, undone>>
  BY DEF KeepOne
<1> DEFINE paying == (Granting(subs) \ missed) \cup {req[p].sub}
<1> DEFINE extras == paying \ {Kept(paying)}
<1> DEFINE mem == [pro |-> TRUE, sub |-> Kept(paying)]
<1> DEFINE loc == IF extras = {} THEN "save" ELSE "undo"
<1> DEFINE s == [req[p] EXCEPT !.extras = extras, !.mem = mem, !.pc = loc]
<1>2. /\ req[p] \in Request /\ RequestOK(req[p], everGranted) /\ SerialOK(req[p], row, everGranted)
      /\ StepOK(req[p], row, subs, events) /\ everGranted \subseteq everGranted'
      /\ row' = row /\ subs' = subs /\ events' = events /\ req[p].pc = "list"
  BY <1>1, SerialBefore DEF At, stripeVars
<1>3. /\ req[p].sub \in SubIds /\ req[p].sub # NoSub /\ req[p].sub \in everGranted
      /\ GrantsAccess(req[p].snap)
  BY <1>2 DEF RequestOK, WellPlaced, Grounded, Request
<1>4. paying \subseteq SubIds /\ paying \subseteq everGranted /\ paying # {}
  BY <1>3 DEF IInv, StripeInv, Granting
<1>5. \A i \in paying : GrantsAccess(subs[i]) \/ i \in events
  BY <1>2, <1>3 DEF Granting, StepOK
<1>6. ListingLags \/ Granting(subs) \subseteq paying
  BY <1>1, Zenon
<1> HIDE DEF paying
<1>7. Kept(paying) \in paying
  BY <1>4, OldestIsLeast DEF Kept
<1>8. /\ mem.pro = TRUE /\ mem.sub = Kept(paying) /\ loc \in {"save", "undo"}
      /\ extras = paying \ {Kept(paying)} /\ (loc = "save" => extras = {})
  OBVIOUS
<1>9. Continue(p, s)
  BY <1>1 DEF paying
<1> HIDE DEF extras, mem, loc
<1>10. /\ s.pc = loc /\ s.kind = req[p].kind /\ s.row = req[p].row /\ s.sub = req[p].sub
       /\ s.snap = req[p].snap /\ s.mem = mem /\ s.extras = extras
  BY <1>2 DEF Request
<1>11. req' = [req EXCEPT ![p] = s]
  BY <1>9 DEF Continue
<1> HIDE DEF s
<1>12. SerialOK(s, row, everGranted')
  BY <1>2, <1>4, <1>7, <1>8, <1>10 DEF SerialOK, KindAt, Fresh, Unchanged
<1>13. Keeps(s, subs, events)
  <2>1. GrantsAccess(subs[s.mem.sub]) \/ s.mem.sub \in events
    BY <1>5, <1>7, <1>8, <1>10
  <2>2. s.mem.sub \notin s.extras
    BY <1>8, <1>10
  <2>3. ASSUME ~ListingLags, NEW i \in Granting(subs)
        PROVE  i = s.mem.sub \/ i \in StillDuplicates(s)
    <3>1. i \in paying
      BY <1>6, <2>3, Zenon
    <3>2. i = s.mem.sub \/ i \in extras
      BY <1>8, <1>10, <3>1
    <3>3. loc = "undo" => StillDuplicates(s) = extras
      BY <1>10 DEF StillDuplicates
    <3> QED
      BY <1>8, <3>2, <3>3
  <2> QED
    BY <2>1, <2>2, <2>3, Zenon DEF Keeps
<1>14. StepOK(s, row, subs', events')
  BY <1>2, <1>8, <1>10, <1>13 DEF StepOK
<1> QED
  BY <1>2, <1>10, <1>11, <1>12, <1>14, MoveSerial

\* One duplicate less, and the kept one is none of them.
LEMMA UndoSerial ==
  ASSUME Serial, IInv, IInv', Lives, EarnedInv, PlanInv, NEW p \in Procs,
         CancelExtra(p) \/ RefundExtra(p)
  PROVE  SerialStep(p)
<1> DEFINE i == Oldest(req[p].extras)
<1> DEFINE left == req[p].extras \ {i}
<1>1. /\ req[p] \in Request /\ WellPlaced(req[p]) /\ SerialOK(req[p], row, everGranted')
      /\ req \in [Procs -> Request] /\ row' = row /\ req[p].pc \in {"undo", "refund"}
  BY SerialBefore DEF CancelExtra, RefundExtra, At
<1>2. events \subseteq events'
  BY EventsStay DEF Proceed, Sync
<1>3. StepOK(req[p], row, subs', events') /\ req[p].mem.pro
  BY <1>1, <1>2, SerialBefore DEF SerialOK
<1>4. Keeps(req[p], subs', events')
  BY <1>1, <1>3 DEF StepOK
<1>5. ASSUME NEW ext, NEW loc \in {"undo", "refund", "save"},
             req' = [req EXCEPT ![p] = [req[p] EXCEPT !.extras = ext, !.pc = loc]],
             ext \subseteq req[p].extras,
             ListingLags \/ \A j \in Granting(subs') : j \in StillDuplicates(req[p]) =>
                 \/ loc = "undo" /\ j \in ext
                 \/ loc = "refund" /\ j \in ext \ {Oldest(ext)}
      PROVE  SerialStep(p)
  <2> DEFINE s == [req[p] EXCEPT !.extras = ext, !.pc = loc]
  <2>1. /\ s.pc = loc /\ s.kind = req[p].kind /\ s.row = req[p].row /\ s.sub = req[p].sub
        /\ s.snap = req[p].snap /\ s.mem = req[p].mem /\ s.extras = ext
    BY <1>1 DEF Request
  <2>2. req' = [req EXCEPT ![p] = s]
    BY <1>5
  <2> HIDE DEF s
  <2>3. SerialOK(s, row, everGranted')
    BY <1>1, <1>3, <2>1 DEF SerialOK, KindAt, Fresh, Unchanged
  <2>4. Keeps(s, subs', events')
    <3>1. GrantsAccess(subs'[s.mem.sub]) \/ s.mem.sub \in events'
      BY <1>4, <2>1 DEF Keeps
    <3>2. s.mem.sub \notin s.extras
      BY <1>4, <1>5, <2>1 DEF Keeps
    <3>3. ASSUME ~ListingLags, NEW j \in Granting(subs')
          PROVE  j = s.mem.sub \/ j \in events' \/ j \in StillDuplicates(s)
      <4>1. j = req[p].mem.sub \/ j \in events' \/ j \in StillDuplicates(req[p])
        BY <1>4, <3>3, Zenon DEF Keeps
      <4>2. j \in StillDuplicates(req[p]) =>
                 \/ loc = "undo" /\ j \in ext
                 \/ loc = "refund" /\ j \in ext \ {Oldest(ext)}
        BY <1>5, <3>3, Zenon
      <4>3. (loc = "undo" => StillDuplicates(s) = ext)
            /\ (loc = "refund" => StillDuplicates(s) = ext \ {Oldest(ext)})
        BY <2>1 DEF StillDuplicates
      <4> QED
        BY <2>1, <4>1, <4>2, <4>3
    <3> QED
      BY <3>1, <3>2, <3>3, Zenon DEF Keeps
  <2>5. StepOK(s, row, subs', events')
    BY <1>3, <2>1, <2>4 DEF StepOK
  <2> QED
    BY <1>1, <1>2, <2>1, <2>2, <2>3, <2>5, MoveSerial
<1>6. CASE CancelExtra(p)
  <2>1. [req[p] EXCEPT !.pc = "refund"] = [req[p] EXCEPT !.extras = req[p].extras, !.pc = "refund"]
    BY <1>1 DEF Request
  <2>2. req' = [req EXCEPT ![p] = [req[p] EXCEPT !.pc = "refund"]] /\ req[p].pc = "undo"
    BY <1>6 DEF CancelExtra, Goto, Continue, At
  <2>3. StillDuplicates(req[p]) = req[p].extras
    BY <2>2 DEF StillDuplicates
  <2>4. i \in SubIds
    BY <1>1, <2>2, OldestIsLeast DEF WellPlaced, Request
  <2>5. ~GrantsAccess(subs'[i])
    <3>1. subs[i] \in Subscription
      BY <2>4 DEF IInv, StripeInv
    <3>2. CASE StripeChanges(i, [subs[i] EXCEPT !.status = "canceled"])
      <4>1. subs'[i] = [subs[i] EXCEPT !.status = "canceled"]
        BY <2>4, <3>2 DEF StripeChanges, IInv, StripeInv
      <4>2. subs'[i].status = "canceled"
        BY <3>1, <4>1 DEF Subscription
      <4> QED
        BY <4>2 DEF GrantsAccess, Access
    <3>3. CASE ~IsLive(subs[i]) /\ UNCHANGED subs
      BY <3>1, <3>3 DEF IsLive, GrantsAccess, Access, Ended
    <3> QED
      BY <1>6, <3>2, <3>3 DEF CancelExtra
  <2>6. \A j \in Granting(subs') : j \in req[p].extras => j \in req[p].extras \ {i}
    BY <2>5 DEF Granting
  <2> QED
    BY <1>5, <2>1, <2>2, <2>3, <2>6
<1>7. CASE RefundExtra(p)
  <2> DEFINE loc == IF left = {} THEN "save" ELSE "undo"
  <2>1. req' = [req EXCEPT ![p] = [req[p] EXCEPT !.extras = left, !.pc = loc]] /\ req[p].pc = "refund"
    BY <1>7 DEF RefundExtra, Continue, At
  <2>2. loc \in {"undo", "refund", "save"} /\ (left # {} => loc = "undo")
    OBVIOUS
  <2>3. StillDuplicates(req[p]) = left /\ left \subseteq req[p].extras
    BY <2>1 DEF StillDuplicates
  <2> HIDE DEF left, loc
  <2>4. \A j : j \in StillDuplicates(req[p]) => loc = "undo" /\ j \in left
    BY <2>2, <2>3
  <2> QED
    BY <1>5, <2>1, <2>2, <2>3, <2>4
<1> QED
  BY <1>6, <1>7

\* The row becomes what the request decided: the one kept, or none that pays.
LEMMA CommitSerial ==
  ASSUME Serial, IInv, IInv', Lives, EarnedInv, PlanInv, NEW p \in Procs, Commit(p)
  PROVE  SerialStep(p)
<1>1. /\ req[p] \in Request /\ WellPlaced(req[p]) /\ SerialOK(req[p], row, everGranted)
      /\ SerialOK(req[p], row, everGranted') /\ StepOK(req[p], row, subs, events)
      /\ req \in [Procs -> Request] /\ row \in Row /\ subs' = subs /\ events' = events
      /\ req[p].pc = "save"
  BY SerialBefore DEF Commit, At, stripeVars
<1>2. req[p].row = row /\ KindAt(req[p])
  BY <1>1 DEF SerialOK, Fresh
<1>3. row'.pro = req[p].mem.pro /\ row'.sub = req[p].mem.sub
  BY <1>2 DEF Commit, Written
<1>4. row'.pro => row'.sub \in everGranted'
  BY <1>1, <1>3 DEF SerialOK
<1>5. req[p].sub \in SubIds /\ req[p].sub # NoSub
  BY <1>1 DEF WellPlaced, Request
<1>6. PlanRow'
  <2>1. ASSUME ~ListingLags, NEW i \in Granting(subs')
        PROVE  (row'.pro /\ row'.sub = i) \/ i \in events'
    <3>1. CASE req[p].mem.pro
      <4>1. Keeps(req[p], subs, events) /\ StillDuplicates(req[p]) = {}
        BY <1>1, <3>1 DEF StepOK, StillDuplicates
      <4>2. i = req[p].mem.sub \/ i \in events
        BY <1>1, <2>1, <4>1, Zenon DEF Keeps
      <4> QED
        BY <1>1, <1>3, <3>1, <4>2
    <3>2. CASE ~req[p].mem.pro
      <4>1. ~GrantsAccess(req[p].snap) /\ (row.pro => row.sub = req[p].sub)
        BY <1>1, <3>2 DEF StepOK
      <4>2. (row.pro /\ row.sub = i) \/ i \in events \/ \E q \in Procs : Handling(q, i)
        BY <1>1, <2>1, Zenon DEF PlanInv, PlanRow, Pending
      <4>3. i = req[p].sub \/ i \in events
        BY <4>1, <4>2 DEF Serial, Handling
      <4>4. GrantsAccess(subs[i])
        BY <1>1, <2>1 DEF Granting
      <4> QED
        BY <1>1, <1>5, <4>1, <4>3, <4>4 DEF StepOK
    <3> QED
      BY <3>1, <3>2
  <2>2. ASSUME row'.pro PROVE GrantsAccess(subs'[row'.sub]) \/ row'.sub \in events'
    BY <1>1, <1>3, <2>2 DEF StepOK, Keeps
  <2> QED
    BY <2>1, <2>2, Zenon DEF PlanRow, Pending
<1>7. CASE req[p].kind = "checkout" /\ ~req[p].mem.pro /\ req' = [req EXCEPT ![p].pc = "respond"]
  <2> DEFINE s == [req[p] EXCEPT !.pc = "respond"]
  <2>1. req'[p] = s
    BY <1>1, <1>7
  <2>2. /\ s.pc = "respond" /\ s.kind = "checkout" /\ s.sub = req[p].sub
        /\ s.snap = req[p].snap /\ s.mem = req[p].mem
    BY <1>1, <1>7 DEF Request
  <2> HIDE DEF s
  <2>3. SerialOK(s, row', everGranted') /\ StepOK(s, row', subs', events')
    BY <1>1, <1>7, <2>2 DEF SerialOK, KindAt, Fresh, Unchanged, StepOK
  <2> QED
    BY <1>4, <1>6, <2>1, <2>3 DEF SerialStep
<1>8. CASE End(p)
  <2>1. req'[p] = IdleRequest
    BY <1>1, <1>8 DEF End
  <2> QED
    BY <1>4, <1>6, <2>1, IdleSerial DEF SerialStep
<1>9. CASE req[p].kind = "status" /\ Goto(p, "trial")
  <2> DEFINE s == [req[p] EXCEPT !.pc = "trial"]
  <2>1. req'[p] = s
    BY <1>1, <1>9 DEF Goto, Continue
  <2>2. /\ s.pc = "trial" /\ s.kind = "status" /\ s.sub = req[p].sub
        /\ s.snap = req[p].snap /\ s.mem = req[p].mem
    BY <1>1, <1>9 DEF Request
  <2> HIDE DEF s
  <2>3. SerialOK(s, row', everGranted') /\ StepOK(s, row', subs', events')
    BY <1>1, <2>2 DEF SerialOK, KindAt, Fresh, Unchanged, StepOK
  <2> QED
    BY <1>4, <1>6, <2>1, <2>3 DEF SerialStep
<1> QED
  BY <1>7, <1>8, <1>9 DEF Commit, AfterSync

\* A webhook that fails is delivered again, and a refresh that fails keeps
\* the row as it was read.
LEMMA FailSerial ==
  ASSUME Serial, IInv, IInv', Lives, EarnedInv, PlanInv, NEW p \in Procs,
         RequestFails(p) \/ RefreshFails(p)
  PROVE  SerialStep(p)
<1>1. /\ req[p] \in Request /\ SerialOK(req[p], row, everGranted')
      /\ req \in [Procs -> Request] /\ row' = row
  BY SerialBefore DEF RequestFails, RefreshFails
<1>2. events \subseteq events'
  BY EventsStay DEF Fail
<1>3. StepOK(req[p], row, subs', events')
  BY <1>2, SerialBefore
<1>4. CASE RequestFails(p)
  <2>1. End(p) /\ (req[p].kind = "event" => req[p].sub \in events')
    BY <1>4 DEF RequestFails, RetryEvent
  <2> QED
    BY <1>1, <1>2, <2>1, EndSerial
<1>5. CASE RefreshFails(p)
  <2> DEFINE s == [req[p] EXCEPT !.mem = req[p].row, !.pc = "trial"]
  <2>1. /\ req[p].pc \in {"retrieve", "adopt", "list", "undo", "refund"}
        /\ req[p].kind = "status" /\ req' = [req EXCEPT ![p] = s]
    BY <1>5 DEF RefreshFails, Continue
  <2>2. req[p].row = row
    BY <1>1, <2>1 DEF SerialOK, Fresh
  <2>3. /\ s.pc = "trial" /\ s.kind = "status" /\ s.mem = row
        /\ s.sub = req[p].sub /\ s.snap = req[p].snap
    BY <1>1, <2>1, <2>2 DEF Request
  <2> HIDE DEF s
  <2>4. row.pro => row.sub \in everGranted'
    BY DEF EarnedInv, EarnedRow, Lives, Grants
  <2>5. SerialOK(s, row, everGranted')
    BY <2>3, <2>4 DEF SerialOK, KindAt, Fresh, Unchanged
  <2>6. StepOK(s, row, subs', events')
    BY <1>3, <2>3, SameSeen
  <2> QED
    BY <1>1, <1>2, <2>1, <2>5, <2>6, MoveSerial
<1> QED
  BY <1>4, <1>5

\* Stripe and the browser move no request, and tell of every change.
LEMMA StillSerial ==
  ASSUME Serial, IInv, IInv', Lives, EarnedInv, PlanInv,
         UNCHANGED <<req, row>>, events \subseteq events'
  PROVE  EarnedInv' /\ PlanInv'
<1>1. ASSUME NEW p \in Procs PROVE SerialStep(p)
  <2>1. SerialOK(req[p], row, everGranted') /\ StepOK(req[p], row, subs', events')
    BY SerialBefore
  <2>2. \A i \in SubIds : i \in events \/ Handling(p, i) => i \in events' \/ Handling(p, i)'
    BY DEF Handling
  <2> QED
    BY <2>1, <2>2, RowStays DEF SerialStep
<1>2. CASE Procs = {}
  <2>1. \A i \in SubIds : Pending(i) <=> i \in events
    BY <1>2 DEF Pending
  <2>2. \A i \in SubIds : Pending(i)' <=> i \in events'
    BY <1>2 DEF Pending
  <2>3. row.pro => row.sub \in everGranted /\ row.sub \in SubIds
    BY DEF EarnedInv, EarnedRow, IInv, StripeInv
  <2>4. EarnedInv'
    BY <1>2, <2>3 DEF EarnedInv, EarnedRow, Lives, Grants
  <2>5. ASSUME ~ListingLags, NEW i \in Granting(subs')
        PROVE  ((row.pro /\ row.sub = i) \/ Pending(i))'
    <3>1. i \in SubIds /\ GrantsAccess(subs'[i])
      BY <2>5 DEF Granting
    <3>2. CASE GrantsAccess(subs[i])
      <4>1. (row.pro /\ row.sub = i) \/ Pending(i)
        BY <2>5, <3>1, <3>2, Zenon DEF PlanInv, PlanRow, Granting
      <4> QED
        BY <2>1, <2>2, <3>1, <4>1
    <3>3. CASE ~GrantsAccess(subs[i])
      BY <2>2, <3>1, <3>3 DEF Lives, Told
    <3> QED
      BY <3>2, <3>3
  <2>6. ASSUME row'.pro PROVE (GrantsAccess(subs[row.sub]) \/ Pending(row.sub))'
    <3>1. GrantsAccess(subs[row.sub]) \/ Pending(row.sub)
      BY <2>6, Zenon DEF PlanInv, PlanRow
    <3> QED
      BY <2>1, <2>2, <2>3, <2>6, <3>1 DEF Lives, Told
  <2>7. PlanRow'
    BY <2>5, <2>6, Zenon DEF PlanRow
  <2> QED
    BY <1>2, <2>4, <2>7 DEF PlanInv
<1>3. CASE Procs # {}
  BY <1>1, <1>3, SerialSteps
<1> QED
  BY <1>2, <1>3

LEMMA SerialInvStep ==
  ASSUME Serial, IInv, EarnedInv, PlanInv, [Next]_vars
  PROVE  EarnedInv' /\ PlanInv'
<1>1. IInv' /\ Lives
  BY NextIInv, NextLives
<1>2. ASSUME NEW p \in Procs, Start(p) \/ Proceed(p) \/ Fail(p) PROVE SerialStep(p)
  <2>1. CASE Start(p)
    BY <1>1, <2>1, StartSerial
  <2>2. CASE Checkout(p)
    BY <1>1, <2>2, GotosSerial, LockUserSerial, CreateSerial DEF Checkout
  <2>3. CASE Sync(p)
    BY <1>1, <2>3, AdoptSerial, ApplySerial, KeepSerial, UndoSerial, CommitSerial DEF Sync
  <2>4. CASE \/ AdoptRefused(p) \/ TrialLookup(p) \/ TrialStore(p) \/ RetrieveOwn(p)
             \/ CancelAtStripe(p) \/ LoadUser(p)
    BY <1>1, <2>4, AdoptSerial, TrialSerial, RetrieveSerial, CancelSerial, LoadSerial
  <2>5. CASE Fail(p)
    BY <1>1, <2>5, FailSerial, TrialSerial, GotosSerial DEF Fail
  <2> QED
    BY <1>2, <2>1, <2>2, <2>3, <2>4, <2>5 DEF Proceed
<1>3. CASE \/ \E i \in SubIds : World(i)
           \/ CacheExpires \/ UNCHANGED vars
  <2>1. \A i, s : StripeChanges(i, s) => events \subseteq events'
    BY DEF StripeChanges
  <2>2. UNCHANGED <<req, row>> /\ events \subseteq events'
    BY <1>3, <2>1 DEF World, FirstPayment, ConfirmTrialCard, TrialEnds, RenewalFails,
       RetriesExhausted, LatePayment, CheckoutExpires, StopsPaying, OnlyStripe, Moves,
       CacheExpires, vars, stripeVars
  <2> QED
    BY <1>1, <2>2, StillSerial
<1> QED
  BY <1>1, <1>2, <1>3, SerialSteps DEF Next

LEMMA InitSerial == Init => EarnedInv /\ PlanInv
<1> SUFFICES ASSUME Init PROVE EarnedInv /\ PlanInv
  OBVIOUS
<1>1. row.pro = FALSE /\ \A p \in Procs : req[p] = IdleRequest
  BY DEF Init, FreeRow
<1>2. Granting(subs) = {}
  BY ConstantTypes DEF Init, Granting
<1> QED
  BY <1>1, <1>2, IdleSerial, Zenon DEF EarnedInv, EarnedRow, PlanInv, PlanRow

LEMMA SerialInvariance == Serial => (Spec => [](IInv /\ EarnedInv /\ PlanInv))
<1> SUFFICES ASSUME Serial PROVE Spec => [](IInv /\ EarnedInv /\ PlanInv)
  OBVIOUS
<1> DEFINE Inv == IInv /\ EarnedInv /\ PlanInv
<1>1. Init => Inv
  BY InitIInv, InitSerial
<1>2. Inv /\ [Next]_vars => Inv'
  BY NextIInv, SerialInvStep
<1> QED
  BY <1>1, <1>2, PTL DEF Spec

\* One request at a time, whatever fails, lags or changes at Stripe: nobody
\* is Pro for a subscription that never gave access.
THEOREM ProIsEarned == Serial => (Spec => []ProWasEarned)
<1>1. EarnedInv => ProWasEarned
  BY DEF EarnedInv, EarnedRow, ProWasEarned
<1> QED
  BY <1>1, SerialInvariance, PTL

\* One request at a time, and a listing that misses nothing: whenever every
\* webhook was handled, the plan in Postgres is the one Stripe bills, for any
\* number of subscriptions and failures, whatever the requests were.
THEOREM PlanFollowsStripe == Serial /\ ~ListingLags => (Spec => []InStep)
<1> SUFFICES ASSUME Serial, ~ListingLags PROVE Spec => []InStep
  OBVIOUS
<1>1. IInv /\ EarnedInv /\ PlanInv => InStep
  <2> SUFFICES ASSUME IInv, EarnedInv, PlanInv, Quiescent
               PROVE  row.pro <=> Granting(subs) # {}
    BY DEF InStep
  <2>1. \A i : ~Pending(i)
    <3>1. \A p \in Procs : req[p].kind = "none"
      BY DEF Quiescent, At, EarnedInv, SerialOK, KindAt
    <3> QED
      BY <3>1 DEF Quiescent, Pending, Handling
  <2>2. row.pro => row.sub \in SubIds /\ GrantsAccess(subs[row.sub])
    <3>1. row.pro => GrantsAccess(subs[row.sub]) \/ Pending(row.sub)
      BY Zenon DEF PlanInv, PlanRow
    <3> QED
      BY <2>1, <3>1 DEF EarnedInv, EarnedRow, IInv, StripeInv
  <2>3. ASSUME NEW i \in Granting(subs) PROVE row.pro
    BY <2>1, <2>3, Zenon DEF PlanInv, PlanRow
  <2> QED
    BY <2>2, <2>3 DEF Granting
<1> QED
  BY <1>1, SerialInvariance, PTL

=============================================================================
