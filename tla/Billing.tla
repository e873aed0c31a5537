------------------------------ MODULE Billing ------------------------------
(***************************************************************************)
(* The Pro subscription of one user: the checkout, the billing status, the *)
(* cancellation and the Stripe webhook of                                  *)
(* app/modules/billing/services/stripe_service.py, run by several worker   *)
(* processes at once, against Stripe, the user's row and the Redis key of  *)
(* the free trial.  A request keeps its own copy of the row (expire on     *)
(* commit is off) and writes only the columns it changed; nothing but the  *)
(* checkout locks the row.                                                 *)
(*                                                                         *)
(* The user's Stripe customer exists from the start: it is created once,   *)
(* under an idempotency key, and never changes.  Subscriptions are         *)
(* numbered in the order Stripe creates them.                              *)
(***************************************************************************)
EXTENDS Integers, FiniteSets

CONSTANTS Procs,        \* requests that can run at the same time
          Hosts,        \* worker processes (an asyncio lock is local to one)
          HostOf,       \* the worker that serves each request
          NoProc,       \* nobody holds the lock
          MaxSubs,      \* bound: subscriptions ever created
          Plans,        \* a price with its promotion code, as asked at checkout
          Kinds,        \* the requests this instance receives
          TrialOn,      \* PRO_TRIAL_DAYS > 0
          MaxFailures,  \* bound: failed Stripe calls and dying requests
          ListingLags   \* Stripe's listing may miss a recent subscription

ASSUME ProcsAssumption == NoProc \notin Procs
ASSUME HostAssumption == HostOf \in [Procs -> Hosts]
ASSUME BoundsAssumption == MaxSubs \in Nat /\ MaxFailures \in Nat
ASSUME KindsAssumption == Kinds \subseteq {"checkout", "status", "cancel", "event"}
ASSUME PlansAssumption == Plans # {}
ASSUME SwitchAssumption == TrialOn \in BOOLEAN /\ ListingLags \in BOOLEAN

VARIABLES subs,        \* Stripe: every subscription of the customer
          charged,     \* Stripe: subscriptions that charged the card
          refunded,    \* Stripe: subscriptions whose charge was refunded
          events,      \* Stripe: subscriptions with a webhook to deliver
          shown,       \* browser: subscriptions whose payment secret it holds
          row,         \* Postgres: the committed plan columns of the user
          rowLock,     \* Postgres: who holds SELECT ... FOR UPDATE
          hostLock,    \* each worker: _checkout_locks[user.id]
          trialCache,  \* Redis: billing:trial:<user>
          req,         \* the request each process is serving
          failures,    \* failures still to come
          everGranted, \* history: subscriptions that ever gave access
          undone       \* history: subscriptions cancelled as duplicates

stripeVars == <<subs, charged, events, everGranted>>
lockVars == <<rowLock, hostLock>>
vars == <<subs, charged, refunded, events, shown, row, rowLock, hostLock,
          trialCache, req, failures, everGranted, undone>>

SubIds == 1..MaxSubs
NoSub == 0
Statuses == {"none", "incomplete", "trialing", "active", "past_due", "unpaid",
             "canceled", "incomplete_expired"}
Ended == {"canceled", "incomplete_expired"}
Access == {"active", "trialing", "past_due"}

Subscription == [status : Statuses, card : BOOLEAN, trial : BOOLEAN,
                 setup : BOOLEAN, plan : Plans]
AnyPlan == CHOOSE plan \in Plans : TRUE
Uncreated == [status |-> "none", card |-> FALSE, trial |-> FALSE,
              setup |-> FALSE, plan |-> AnyPlan]
Row == [pro : BOOLEAN, sub : SubIds \cup {NoSub}]
FreeRow == [pro |-> FALSE, sub |-> NoSub]

Locations == {"idle", "hostLock", "rowLock", "trial", "trialSet", "retrieve",
              "adopt", "reuse", "cancelStale", "create", "respond",
              "cancelAtStripe", "load", "apply", "list", "undo", "refund", "save"}
Request == [pc : Locations, kind : {"none", "checkout", "status", "cancel", "event"},
            plan : Plans, trial : BOOLEAN,
            row : Row,              \* the user as loaded
            mem : Row,              \* the user as changed in memory
            sub : SubIds \cup {NoSub},
            snap : Subscription,    \* what Stripe said about sub
            extras : SUBSET SubIds] \* duplicates still to undo
IdleRequest == [pc |-> "idle", kind |-> "none", plan |-> AnyPlan, trial |-> FALSE,
                row |-> FreeRow, mem |-> FreeRow, sub |-> NoSub,
                snap |-> Uncreated, extras |-> {}]

\* plans.grants_access: a trial counts once its card is on file.
GrantsAccess(s) == s.status \in Access /\ (s.status = "trialing" => s.card)

\* Waiting for its first payment, or for the card of a free trial.
IsOpenCheckout(s) ==
    s.status = "incomplete" \/ (s.status = "trialing" /\ ~GrantsAccess(s))

IsReusableCheckout(s, plan, trial) ==
    IsOpenCheckout(s) /\ s.plan = plan /\ s.trial = trial

\* What Stripe still lets one modify or cancel.
IsLive(s) == s.status \notin Ended \cup {"none"}

Granting(all) == {i \in SubIds : GrantsAccess(all[i])}
SubscribedBefore ==
    \E i \in SubIds : subs[i].card \/ subs[i].status \in {"active", "past_due", "unpaid"}
Oldest(ids) == CHOOSE i \in ids : \A j \in ids : i <= j

TypeOK ==
    /\ subs \in [SubIds -> Subscription]
    /\ charged \subseteq SubIds /\ refunded \subseteq SubIds
    /\ events \subseteq SubIds /\ shown \subseteq SubIds
    /\ everGranted \subseteq SubIds /\ undone \subseteq SubIds
    /\ row \in Row
    /\ rowLock \in Procs \cup {NoProc}
    /\ hostLock \in [Hosts -> Procs \cup {NoProc}]
    /\ trialCache \in {"none", "days", "zero"}
    /\ req \in [Procs -> Request]
    /\ failures \in 0..MaxFailures

Init ==
    /\ subs = [i \in SubIds |-> Uncreated]
    /\ charged = {} /\ refunded = {} /\ events = {} /\ shown = {}
    /\ row = FreeRow
    /\ rowLock = NoProc
    /\ hostLock = [h \in Hosts |-> NoProc]
    /\ trialCache = "none"
    /\ req = [p \in Procs |-> IdleRequest]
    /\ failures = MaxFailures
    /\ everGranted = {} /\ undone = {}

-----------------------------------------------------------------------------
(* Building blocks of the requests *)

At(p, location) == req[p].pc = location

\* One subscription changes at Stripe; it notifies the webhook.
StripeChanges(i, s) ==
    /\ subs' = [subs EXCEPT ![i] = s]
    /\ events' = events \cup {i}
    /\ everGranted' = everGranted \cup (IF GrantsAccess(s) THEN {i} ELSE {})

\* Slip: the session stays open and keeps the row.
KeepRow(p) == UNCHANGED rowLock

\* The end of a request: the session closes and the locks are free again.
ReleaseRow(p) == rowLock' = IF rowLock = p THEN NoProc ELSE rowLock
ReleaseLocks(p) ==
    /\ ReleaseRow(p)
    /\ hostLock' = [h \in Hosts |-> IF hostLock[h] = p THEN NoProc ELSE hostLock[h]]
End(p) == req' = [req EXCEPT ![p] = IdleRequest] /\ ReleaseLocks(p)

Continue(p, changes) == req' = [req EXCEPT ![p] = changes] /\ UNCHANGED lockVars
Goto(p, location) == Continue(p, [req[p] EXCEPT !.pc = location])

Loaded(p) == [req[p] EXCEPT !.row = row, !.mem = row]
Seen(r, i, s) == [r EXCEPT !.sub = i, !.snap = s]

\* sync_subscription first gives a trial without a card the confirmed one.
SyncFrom(r) ==
    [r EXCEPT !.pc = IF r.snap.status = "trialing" /\ ~r.snap.card
                     THEN "adopt" ELSE "apply"]

\* _start_checkout, once it knows the state of the user's own subscription.
CheckoutFrom(r) ==
    [r EXCEPT !.pc =
        CASE GrantsAccess(r.snap) -> "apply"
          [] IsReusableCheckout(r.snap, r.plan, r.trial) -> "reuse"
          [] IsOpenCheckout(r.snap) /\ ~IsReusableCheckout(r.snap, r.plan, r.trial)
               -> "cancelStale"
          [] OTHER -> "create"]

\* A status request ends by telling the trial the user could get.
AfterSync(p) ==
    \/ req[p].kind = "status" /\ Goto(p, "trial")
    \/ req[p].kind # "status" /\ End(p)

-----------------------------------------------------------------------------
(* POST /subscribe: one checkout at a time, in this process and across them *)

StartCheckout(p, plan) ==
    /\ "checkout" \in Kinds /\ At(p, "idle")
    /\ Continue(p, [IdleRequest EXCEPT !.pc = "hostLock", !.kind = "checkout", !.plan = plan])
    /\ UNCHANGED <<stripeVars, refunded, shown, row, trialCache, failures, undone>>

HostLockFree(p) == hostLock[HostOf[p]] = NoProc

AcquireHostLock(p) ==
    /\ At(p, "hostLock") /\ HostLockFree(p)
    /\ hostLock' = [hostLock EXCEPT ![HostOf[p]] = p]
    /\ req' = [req EXCEPT ![p].pc = "rowLock"]
    /\ UNCHANGED <<stripeVars, refunded, shown, row, rowLock, trialCache, failures, undone>>

\* Slip: the checkout relies on its worker's lock alone.
NoRowLock(p) == TRUE

RowLockFree(p) == rowLock = NoProc

\* Slip: nobody is turned away.
LockAnyUser(p) ==
    /\ At(p, "rowLock") /\ RowLockFree(p)
    /\ rowLock' = p
    /\ req' = [req EXCEPT ![p] = [Loaded(p) EXCEPT !.pc = "trial"]]
    /\ UNCHANGED hostLock
    /\ UNCHANGED <<stripeVars, refunded, shown, row, trialCache, failures, undone>>

\* _lock_user reads the row again under its lock; a Pro user is turned away.
LockUser(p) ==
    /\ At(p, "rowLock") /\ RowLockFree(p)
    /\ \/ row.pro /\ End(p)
       \/ /\ ~row.pro
          /\ rowLock' = p
          /\ req' = [req EXCEPT ![p] = [Loaded(p) EXCEPT !.pc = "trial"]]
          /\ UNCHANGED hostLock
    /\ UNCHANGED <<stripeVars, refunded, shown, row, trialCache, failures, undone>>

\* trial_days_for has its answer.
TrialKnown(p, trial) ==
    \/ req[p].kind = "status" /\ End(p)
    \/ /\ req[p].kind = "checkout"
       /\ Continue(p, [req[p] EXCEPT !.trial = trial,
            !.pc = IF req[p].mem.sub = NoSub THEN "create" ELSE "retrieve"])

\* No trial to look up, or the cached answer; otherwise Stripe's listing.
TrialLookup(p) ==
    /\ At(p, "trial")
    /\ \/ (~TrialOn \/ req[p].mem.pro) /\ TrialKnown(p, FALSE)
       \/ /\ TrialOn /\ ~req[p].mem.pro /\ trialCache # "none"
          /\ TrialKnown(p, trialCache = "days")
       \/ /\ TrialOn /\ ~req[p].mem.pro /\ trialCache = "none"
          /\ Continue(p, [req[p] EXCEPT !.trial = ~SubscribedBefore, !.pc = "trialSet"])
    /\ UNCHANGED <<stripeVars, refunded, shown, row, trialCache, failures, undone>>

TrialStore(p) ==
    /\ At(p, "trialSet")
    /\ trialCache' = IF req[p].trial THEN "days" ELSE "zero"
    /\ TrialKnown(p, req[p].trial)
    /\ UNCHANGED <<stripeVars, refunded, shown, row, failures, undone>>

\* The user's own subscription, read for the checkout or for a refresh.
RetrieveOwn(p) ==
    LET own == req[p].mem.sub
        r == Seen(req[p], own, subs[own])
    IN /\ At(p, "retrieve")
       /\ \/ /\ r.kind = "status"
             /\ Continue(p, SyncFrom(r))
          \/ /\ r.kind = "checkout"
             /\ Continue(p, IF IsOpenCheckout(r.snap) /\ r.snap.trial /\ r.snap.setup
                            THEN [r EXCEPT !.pc = "adopt"] ELSE CheckoutFrom(r))
       /\ UNCHANGED <<stripeVars, refunded, shown, row, trialCache, failures, undone>>

AfterAdopt(r) == IF r.kind = "checkout" THEN CheckoutFrom(r) ELSE SyncFrom(r)

\* _adopt_trial_card: the card confirmed for the trial becomes the
\* subscription's.  Nothing confirmed: the subscription stays as it was seen.
AdoptTrialCard(p) ==
    LET i == req[p].sub
        adopted == [subs[i] EXCEPT !.card = TRUE]
    IN /\ At(p, "adopt")
       /\ \/ /\ subs[i].setup /\ IsLive(subs[i])
             /\ StripeChanges(i, adopted)
             /\ Continue(p, AfterAdopt([req[p] EXCEPT !.snap = adopted]))
          \/ /\ ~subs[i].setup
             /\ Goto(p, "apply")
             /\ UNCHANGED stripeVars
       /\ UNCHANGED <<charged, refunded, shown, row, trialCache, failures, undone>>

\* The same payment as before: the commit frees the row, the secret goes out.
ReuseCheckout(p) ==
    /\ At(p, "reuse")
    /\ ReleaseRow(p)
    /\ req' = [req EXCEPT ![p].pc = "respond"]
    /\ UNCHANGED <<stripeVars, refunded, shown, row, hostLock, trialCache, failures, undone>>

\* A checkout for another plan: cancelled, unless it is over already.
CancelStale(p) ==
    LET i == req[p].sub
    IN /\ At(p, "cancelStale")
       /\ Goto(p, "create")
       /\ \/ IsLive(subs[i]) /\ StripeChanges(i, [subs[i] EXCEPT !.status = "canceled"])
          \/ ~IsLive(subs[i]) /\ UNCHANGED <<subs, events, everGranted>>
       /\ UNCHANGED <<charged, refunded, shown, row, trialCache, failures, undone>>

NextId == CHOOSE i \in SubIds : /\ subs[i].status = "none"
                                /\ \A j \in SubIds : subs[j].status = "none" => i <= j
CanCreate == \E i \in SubIds : subs[i].status = "none"

\* Subscription.create answers with the secret of the first payment, or
\* without one: the answer is an error and the new subscription is not kept.
CreateSubscription(p) ==
    LET new == [Uncreated EXCEPT !.plan = req[p].plan, !.trial = req[p].trial,
                    !.status = IF req[p].trial THEN "trialing" ELSE "incomplete"]
        r == Seen(req[p], NextId, new)
    IN /\ At(p, "create") /\ CanCreate
       /\ StripeChanges(NextId, new)
       /\ \/ Continue(p, [r EXCEPT !.mem.sub = NextId, !.pc = "save"])
          \/ End(p)
       /\ UNCHANGED <<charged, refunded, shown, row, trialCache, failures, undone>>

\* Stripe refuses it (a code that doesn't apply): the row is committed as it was.
CreateRefused(p) ==
    /\ At(p, "create")
    /\ End(p)
    /\ UNCHANGED <<stripeVars, refunded, shown, row, trialCache, failures, undone>>

\* The response reaches the browser; only then is the worker's lock free.
Respond(p) ==
    /\ At(p, "respond")
    /\ shown' = shown \cup {req[p].sub}
    /\ End(p)
    /\ UNCHANGED <<stripeVars, refunded, row, trialCache, failures, undone>>

-----------------------------------------------------------------------------
(* GET /status, POST /cancel and the webhook, up to sync_subscription *)

StartStatus(p, refresh) ==
    /\ "status" \in Kinds /\ At(p, "idle")
    /\ Continue(p, [Loaded(p) EXCEPT !.kind = "status",
            !.pc = IF refresh /\ row.sub # NoSub THEN "retrieve" ELSE "trial"])
    /\ UNCHANGED <<stripeVars, refunded, shown, row, trialCache, failures, undone>>

StartCancel(p) ==
    /\ "cancel" \in Kinds /\ At(p, "idle") /\ row.sub # NoSub
    /\ Continue(p, [Loaded(p) EXCEPT !.kind = "cancel", !.pc = "cancelAtStripe"])
    /\ UNCHANGED <<stripeVars, refunded, shown, row, trialCache, failures, undone>>

\* At the end of the period (Stripe does it later, see StopsPaying) or now;
\* what is over already, Stripe refuses to cancel.
CancelAtStripe(p) ==
    LET i == req[p].mem.sub
    IN /\ At(p, "cancelAtStripe")
       /\ \/ \E s \in {subs[i], [subs[i] EXCEPT !.status = "canceled"]} :
                /\ IsLive(subs[i])
                /\ StripeChanges(i, s)
                /\ Continue(p, SyncFrom(Seen(req[p], i, s)))
          \/ ~IsLive(subs[i]) /\ End(p) /\ UNCHANGED <<subs, events, everGranted>>
       /\ UNCHANGED <<charged, refunded, shown, row, trialCache, failures, undone>>

\* handle_event reads the subscription fresh from Stripe.  Stripe may deliver
\* the same event again, or another event of the same subscription.
Deliver(p, i) ==
    /\ "event" \in Kinds /\ At(p, "idle") /\ i \in events
    /\ events' \in {events, events \ {i}}
    /\ Continue(p, [Seen(IdleRequest, i, subs[i]) EXCEPT !.kind = "event", !.pc = "load"])
    /\ UNCHANGED <<subs, everGranted, charged, refunded, shown, row, trialCache,
                   failures, undone>>

\* Then it looks for the user.
LoadUser(p) ==
    /\ At(p, "load")
    /\ Continue(p, SyncFrom(Loaded(p)))
    /\ UNCHANGED <<stripeVars, refunded, shown, row, trialCache, failures, undone>>

-----------------------------------------------------------------------------
(* sync_subscription: the plan mirrors what Stripe said *)

\* Slip: any subscription that ends takes the plan away.
AnyIsOwn(r) == TRUE

IsOwn(r) == r.sub = r.mem.sub

\* The cached trial is dropped.  Access goes on to look for duplicates; the
\* user's own subscription without access ends the plan; any other
\* subscription changes nothing, and nothing is committed.
ApplySubscription(p) ==
    LET s == req[p].snap
        own == IsOwn(req[p])
        lost == [pro |-> FALSE, sub |-> IF s.status \in Ended THEN NoSub ELSE req[p].sub]
    IN /\ At(p, "apply")
       /\ trialCache' = "none"
       /\ \/ GrantsAccess(s) /\ Goto(p, "list")
          \/ /\ ~GrantsAccess(s) /\ own
             /\ Continue(p, [req[p] EXCEPT !.mem = lost, !.pc = "save"])
          \/ ~GrantsAccess(s) /\ ~own /\ AfterSync(p)
       /\ UNCHANGED <<stripeVars, refunded, shown, row, failures, undone>>

\* Slip: the newest stays.
KeptNewest(paying) == CHOOSE i \in paying : \A j \in paying : j <= i

\* Slip: the second in line stays.
KeptNext(paying) == Oldest(paying) + 1

\* Of the subscriptions that pay, the oldest stays.
Kept(paying) == Oldest(paying)

\* Slip: the one at hand stays and no other is looked for.
KeepAll(p) ==
    /\ At(p, "list")
    /\ Continue(p, [req[p] EXCEPT !.mem = [pro |-> TRUE, sub |-> req[p].sub], !.pc = "save"])
    /\ UNCHANGED <<stripeVars, refunded, shown, row, trialCache, failures, undone>>

\* _keep_one_subscription: the listing may miss some, never the one at hand.
KeepOne(p) ==
    \E missed \in IF ListingLags THEN SUBSET Granting(subs) ELSE {{}} :
        LET paying == (Granting(subs) \ missed) \cup {req[p].sub}
            extras == paying \ {Kept(paying)}
        IN /\ At(p, "list")
           /\ Continue(p, [req[p] EXCEPT
                !.extras = extras,
                !.mem = [pro |-> TRUE, sub |-> Kept(paying)],
                !.pc = IF extras = {} THEN "save" ELSE "undo"])
           /\ UNCHANGED <<stripeVars, refunded, shown, row, trialCache, failures, undone>>

\* Slip: cancelled, and the refund left for later.
CancelExtraOnly(p) ==
    LET i == Oldest(req[p].extras)
    IN /\ At(p, "undo")
       /\ undone' = undone \cup {i}
       /\ Continue(p, [req[p] EXCEPT !.extras = {}, !.pc = "save"])
       /\ StripeChanges(i, [subs[i] EXCEPT !.status = "canceled"])
       /\ UNCHANGED <<charged, refunded, shown, row, trialCache, failures>>

\* _undo_duplicate, first half; what is cancelled already is not an error.
CancelExtra(p) ==
    LET i == Oldest(req[p].extras)
    IN /\ At(p, "undo")
       /\ undone' = undone \cup {i}
       /\ Goto(p, "refund")
       /\ \/ IsLive(subs[i]) /\ StripeChanges(i, [subs[i] EXCEPT !.status = "canceled"])
          \/ ~IsLive(subs[i]) /\ UNCHANGED <<subs, events, everGranted>>
       /\ UNCHANGED <<charged, refunded, shown, row, trialCache, failures>>

\* Second half: its paid invoices are refunded, once by idempotency key.
RefundExtra(p) ==
    LET i == Oldest(req[p].extras)
        left == req[p].extras \ {i}
    IN /\ At(p, "refund")
       /\ refunded' = refunded \cup (charged \cap {i})
       /\ Continue(p, [req[p] EXCEPT !.extras = left,
                            !.pc = IF left = {} THEN "save" ELSE "undo"])
       /\ UNCHANGED <<stripeVars, shown, row, trialCache, failures, undone>>

\* UPDATE writes only the columns whose value is not the one loaded ...
Dirty(p) == req[p].mem # req[p].row
Written(p) ==
    [pro |-> IF req[p].mem.pro # req[p].row.pro THEN req[p].mem.pro ELSE row.pro,
     sub |-> IF req[p].mem.sub # req[p].row.sub THEN req[p].mem.sub ELSE row.sub]

\* ... and waits for whoever has the row locked.  A checkout that was paid
\* meanwhile is answered with 409; the others go on with their response.
Commit(p) ==
    /\ At(p, "save")
    /\ Dirty(p) => rowLock \in {NoProc, p}
    /\ row' = Written(p)
    /\ \/ /\ req[p].kind = "checkout" /\ ~req[p].mem.pro
          /\ req' = [req EXCEPT ![p].pc = "respond"]
          /\ ReleaseRow(p) /\ UNCHANGED hostLock
       \/ /\ req[p].kind = "checkout" => req[p].mem.pro
          /\ AfterSync(p)
    /\ UNCHANGED <<stripeVars, refunded, shown, trialCache, failures, undone>>

-----------------------------------------------------------------------------
(* What goes wrong on the way *)

\* Stripe delivers a failed event again.
RetryEvent(p) ==
    events' = IF req[p].kind = "event" THEN events \cup {req[p].sub} ELSE events

\* An exception, a timeout or the death of the worker at any point: the
\* session rolls back and what was done at Stripe stays done.
RequestFails(p) ==
    /\ ~At(p, "idle") /\ failures > 0
    /\ failures' = failures - 1
    /\ RetryEvent(p)
    /\ End(p)
    /\ UNCHANGED <<subs, everGranted, charged, refunded, shown, row, trialCache, undone>>

\* A status request answers with what it knows when Stripe is down: the plan
\* is only changed once the duplicates are undone.
RefreshFails(p) ==
    /\ req[p].pc \in {"retrieve", "adopt", "list", "undo", "refund"}
    /\ req[p].kind = "status" /\ failures > 0
    /\ failures' = failures - 1
    /\ Continue(p, [req[p] EXCEPT !.mem = req[p].row, !.pc = "trial"])
    /\ UNCHANGED <<stripeVars, refunded, shown, row, trialCache, undone>>

\* Unknown: better no trial than a second one.
TrialLookupFails(p) ==
    /\ At(p, "trial") /\ TrialOn /\ ~req[p].mem.pro /\ trialCache = "none"
    /\ failures > 0 /\ failures' = failures - 1
    /\ TrialKnown(p, FALSE)
    /\ UNCHANGED <<stripeVars, refunded, shown, row, trialCache, undone>>

\* The stale checkout could not be cancelled: the new one is created anyway.
CancelStaleFails(p) ==
    /\ At(p, "cancelStale")
    /\ failures > 0 /\ failures' = failures - 1
    /\ Goto(p, "create")
    /\ UNCHANGED <<stripeVars, refunded, shown, row, trialCache, undone>>

\* The subscription ended before its card could be set: Stripe refuses.
AdoptRefused(p) ==
    /\ At(p, "adopt")
    /\ subs[req[p].sub].setup /\ ~IsLive(subs[req[p].sub])
    /\ RetryEvent(p)
    /\ AfterSync(p)
    /\ UNCHANGED <<subs, everGranted, charged, refunded, shown, row, trialCache,
                   failures, undone>>

-----------------------------------------------------------------------------
(* Stripe and the browser *)

Moves(i, status) == StripeChanges(i, [subs[i] EXCEPT !.status = status])
OnlyStripe == UNCHANGED <<refunded, shown, row, lockVars, trialCache, req, failures, undone>>

\* The browser confirms the first payment: the card becomes the default one.
FirstPayment(i) ==
    /\ i \in shown /\ subs[i].status = "incomplete"
    /\ StripeChanges(i, [subs[i] EXCEPT !.status = "active", !.card = TRUE])
    /\ charged' = charged \cup {i}
    /\ OnlyStripe

\* It confirms the card of a trial; the subscription itself doesn't change.
ConfirmTrialCard(i) ==
    /\ i \in shown /\ subs[i].status = "trialing" /\ ~subs[i].setup
    /\ subs' = [subs EXCEPT ![i].setup = TRUE]
    /\ UNCHANGED <<events, everGranted, charged>>
    /\ OnlyStripe

\* The trial ends: the card pays, or without one the subscription is over.
TrialEnds(i) ==
    /\ subs[i].status = "trialing"
    /\ \/ subs[i].card /\ Moves(i, "active") /\ charged' = charged \cup {i}
       \/ ~subs[i].card /\ Moves(i, "canceled") /\ UNCHANGED charged
    /\ OnlyStripe

RenewalFails(i) ==
    /\ subs[i].status = "active" /\ Moves(i, "past_due")
    /\ UNCHANGED charged /\ OnlyStripe

RetriesExhausted(i) ==
    /\ subs[i].status = "past_due" /\ Moves(i, "unpaid")
    /\ UNCHANGED charged /\ OnlyStripe

LatePayment(i) ==
    /\ subs[i].status \in {"past_due", "unpaid"} /\ Moves(i, "active")
    /\ charged' = charged \cup {i} /\ OnlyStripe

CheckoutExpires(i) ==
    /\ subs[i].status = "incomplete" /\ Moves(i, "incomplete_expired")
    /\ UNCHANGED charged /\ OnlyStripe

\* The end of a cancelled period, or the customer portal.
StopsPaying(i) ==
    /\ subs[i].status \in {"active", "past_due", "unpaid"} /\ Moves(i, "canceled")
    /\ UNCHANGED charged /\ OnlyStripe

\* TRIAL_CACHE_SECONDS.
CacheExpires ==
    /\ trialCache # "none" /\ trialCache' = "none"
    /\ UNCHANGED <<stripeVars, refunded, shown, row, lockVars, req, failures, undone>>

Checkout(p) ==
    \/ AcquireHostLock(p) \/ LockUser(p) \/ ReuseCheckout(p) \/ CancelStale(p)
    \/ CreateSubscription(p) \/ CreateRefused(p) \/ Respond(p)
Sync(p) ==
    \/ AdoptTrialCard(p) \/ ApplySubscription(p) \/ KeepOne(p)
    \/ CancelExtra(p) \/ RefundExtra(p) \/ Commit(p)
Proceed(p) ==
    \/ Checkout(p) \/ Sync(p) \/ AdoptRefused(p)
    \/ TrialLookup(p) \/ TrialStore(p) \/ RetrieveOwn(p)
    \/ CancelAtStripe(p) \/ LoadUser(p)
Start(p) ==
    \/ \E plan \in Plans : StartCheckout(p, plan)
    \/ \E refresh \in BOOLEAN : StartStatus(p, refresh)
    \/ StartCancel(p)
    \/ \E i \in SubIds : Deliver(p, i)
Fail(p) ==
    RequestFails(p) \/ RefreshFails(p) \/ TrialLookupFails(p) \/ CancelStaleFails(p)
World(i) ==
    \/ FirstPayment(i) \/ ConfirmTrialCard(i) \/ TrialEnds(i) \/ RenewalFails(i)
    \/ RetriesExhausted(i) \/ LatePayment(i) \/ CheckoutExpires(i) \/ StopsPaying(i)

Next ==
    \/ \E p \in Procs : Start(p) \/ Proceed(p) \/ Fail(p)
    \/ \E i \in SubIds : World(i)
    \/ CacheExpires

Spec == Init /\ [][Next]_vars

-----------------------------------------------------------------------------
(* Properties *)

Quiescent == events = {} /\ \A p \in Procs : At(p, "idle")

\* Once every webhook was handled, the plan in Postgres is the one Stripe
\* bills: handle_event "keeps the user's plan in step with Stripe".
InStep == Quiescent => (row.pro <=> Granting(subs) # {})

\* Nobody is Pro for a subscription that never gave access: the subscription
\* recorded beside the plan is one that was paid (or has a trial card).
ProWasEarned == row.pro => row.sub \in everGranted

\* Only duplicates are refunded: when a charge is given back, an older
\* subscription of the same customer had given access (_keep_one_subscription).
RefundOnlyDuplicates ==
    \A i \in refunded : \E j \in everGranted : j < i

\* Whatever was cancelled as a duplicate and had charged is refunded by the
\* time nothing is left to do (_undo_duplicate: "still refund below").
DuplicatesRefunded == Quiescent => undone \cap charged \subseteq refunded

\* As long as every call is answered, the browsers of one user never hold two
\* checkouts that can both be paid (create_subscription: "one PaymentIntent,
\* however many clicks or tabs").
OneOpenCheckout ==
    failures = MaxFailures =>
        Cardinality({i \in shown : IsOpenCheckout(subs[i])}) <= 1

\* A checkout gives the row back, whatever the others do: it never waits for
\* a lock whose owner waits for the row.
RowIsReleased == \A p \in Procs : rowLock = p ~> rowLock # p

\* A customer never keeps paying for two subscriptions: whenever two of them
\* give access, the webhooks bring them down to one (or none), failures or not.
DuplicatesEnd == Cardinality(Granting(subs)) > 1 ~> Cardinality(Granting(subs)) <= 1

\* A request that started goes on, and Stripe delivers a pending event again
\* and again until it is handled; the browser, the subscriptions' own changes,
\* new requests and failures are free.
Fairness ==
    /\ \A p \in Procs : WF_vars(Proceed(p))
    /\ \A i \in SubIds : SF_vars(\E p \in Procs : Deliver(p, i))
FairSpec == Spec /\ Fairness
=============================================================================
