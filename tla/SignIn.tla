------------------------------- MODULE SignIn -------------------------------
(***************************************************************************)
(* Signing in (modules/auth): links by email and Google, the two tokens of *)
(* a session, the limits on how often one may try (routes/rate_limit.py)   *)
(* and the access tokens of Google that are kept in Redis.  What signing   *)
(* in does to the user's row is module Accounts'; an email stands for it.  *)
(***************************************************************************)
EXTENDS Integers, FiniteSets

CONSTANTS Clients,     \* browsers, each with an address of its own
          Emails,
          AccessLife, RefreshLife, LinkLife,  \* 15 minutes, 7 days, 15 minutes
          Limit, Window,  \* of each scope: so many requests in so much time
          Lives,       \* how long the tokens that Google gives may last
          Early,       \* before it ends, a token leaves Redis: 300 s
          Margin,      \* and is no longer given out: 60 s
          End,         \* bound: the last instant
          MaxRequests, \* bound
          MaxFaults,   \* bound: mails that do not leave, answers that fail, outages
          Nil

VARIABLES clock,
          known,   \* Postgres: who has an account
          grant,   \* Postgres: googleRefreshToken: which connection it is of
          jar,     \* each browser's cookies
          links,   \* links that were sent
          hits,    \* Redis: ratelimit:<scope>:<subject>
          kept,    \* Redis: google:access:<user>:<hash>
          redis,   \* whether it answers
          task,    \* what each client's request is doing
          grants,  \* the last connection to Google
          passed,  \* history: when each scope and subject was let through, and how
           \* many hits its window had by then
          seen,    \* history: who got a session last, and when
          given,   \* history: the token of Google each client was given
          left, faults

vars == <<clock, known, grant, jar, links, hits, kept, redis, task, grants, passed, seen, given,
          left, faults>>
accounts == <<known, grant, grants>>
sessions == <<jar, seen>>
limiter == <<hits, passed>>
google == <<kept, given>>

Scopes == {"google-login", "magic-link-ip", "magic-link-email", "magic-verify"}
Keys == (Scopes \ {"magic-link-email"}) \X Clients \cup {"magic-link-email"} \X Emails

Idle == [step |-> "idle", email |-> Nil, connection |-> 0]
Empty == [access |-> Nil, refresh |-> Nil]
NotSeen == [email |-> Nil, at |-> 0]

\* session_claims; type is Nil for one issued before tokens said it.
Token(type, email, iat, life) == [type |-> type, email |-> email, iat |-> iat, exp |-> iat + life]

TypeOK ==
    /\ clock \in 0..End /\ known \subseteq Emails /\ redis \in BOOLEAN
    /\ grant \in [Emails -> 0..grants]
    /\ \A c \in Clients :
        /\ \A kind \in {"access", "refresh"} :
            jar[c][kind] # Nil => jar[c][kind].email \in Emails /\ jar[c][kind].exp > clock
        /\ task[c].step \in {"idle", "email", "send", "exchange", "find", "match", "create", "save", "issue",
                             "user", "google"}
        /\ task[c].email \in Emails \cup {Nil}
    /\ \A l \in links : l.email \in Emails /\ l.exp <= End + LinkLife
    /\ \A k \in Keys : hits[k] # Nil => hits[k].n > 0

\* Accounts that are connected to Google, and sessions of before the release that
\* gave tokens a type.
Init ==
    /\ clock = 0 /\ known \in SUBSET Emails
    /\ grant = [e \in Emails |-> IF e \in known THEN 1 ELSE 0] /\ grants = 1
    /\ \E old \in [Clients -> known \cup {Nil}] :
        /\ jar = [c \in Clients |-> IF old[c] = Nil THEN Empty
                                    ELSE [access |-> Token(Nil, old[c], 0, AccessLife),
                                          refresh |-> Token(Nil, old[c], 0, RefreshLife)]]
        /\ seen = [c \in Clients |-> [email |-> old[c], at |-> 0]]
    /\ links = {} /\ hits = [k \in Keys |-> Nil] /\ kept = {} /\ redis = TRUE
    /\ task = [c \in Clients |-> Idle] /\ passed = [k \in Keys |-> {}]
    /\ given = [c \in Clients |-> Nil] /\ left = MaxRequests /\ faults = MaxFaults

At(c, step) == task[c].step = step
Set(c, r) == task' = [task EXCEPT ![c] = r]
Go(c, step) == Set(c, [task[c] EXCEPT !.step = step])
Ask == left > 0 /\ left' = left - 1
Fault == faults > 0 /\ faults' = faults - 1

-----------------------------------------------------------------------------
(* rate_limit.enforce *)

\* The hits in the window that is under way.
Hits(k) == IF hits[k] # Nil /\ hits[k].until > clock THEN hits[k].n ELSE 0

\* Slip: every hit starts the window anew.
Extended(k) == [n |-> Hits(k) + 1, until |-> clock + Window[k[1]]]

\* count_in_window: SET NX EX, then INCR, in one transaction.
Counted(k) ==
    [n |-> Hits(k) + 1, until |-> IF Hits(k) = 0 THEN clock + Window[k[1]] ELSE hits[k].until]

\* Counted or not, and let through or refused (429); without Redis all go through.
Passes(k) == ~redis \/ Hits(k) < Limit[k[1]]
Enforce(k) ==
    /\ hits' = IF redis THEN [hits EXCEPT ![k] = Counted(k)] ELSE hits
    /\ passed' = IF redis /\ Passes(k) THEN [passed EXCEPT ![k] = @ \cup {<<clock, Hits(k)>>}]
                 ELSE passed

-----------------------------------------------------------------------------
(* Tokens *)

\* One that does not say its type is known by how long it lasts.
TokenType(t) ==
    IF t.type # Nil THEN t.type
    ELSE IF t.exp - t.iat \in 1..AccessLife THEN "access" ELSE "refresh"

\* session_user_id.  One without a subject, as a link is, is nobody's; a link has a
\* purpose instead, which is checked where it is used (verify_magic_link_token), so
\* neither passes for the other and neither is presented as it here.
SessionUser(t, type) ==
    IF t # Nil /\ t.exp > clock /\ TokenType(t) = type THEN t.email ELSE Nil

\* Whom a request may speak for: by the cookie, else by a token in its header.
Users(c, type) ==
    LET presented == IF jar[c][type] # Nil THEN {jar[c][type]}
                     ELSE {jar[c].access, jar[c].refresh}
    IN {SessionUser(t, type) : t \in presented} \ {Nil}

\* generate_jwt and set_auth_cookies
Issue(c) ==
    /\ At(c, "issue")
    /\ jar' = [jar EXCEPT ![c] =
                 [access |-> Token("access", task[c].email, clock, AccessLife),
                  refresh |-> Token("refresh", task[c].email, clock, RefreshLife)]]
    /\ seen' = [seen EXCEPT ![c] = [email |-> task[c].email, at |-> clock]]
    /\ Set(c, Idle)
    /\ UNCHANGED <<clock, accounts, links, limiter, google, redis, left, faults>>

\* POST /auth/refresh: the user is the token's.
Refresh(c) ==
    /\ At(c, "idle") /\ Ask
    /\ \E e \in Users(c, "refresh") : Set(c, [Idle EXCEPT !.step = "user", !.email = e])
    /\ UNCHANGED <<clock, accounts, sessions, links, limiter, google, redis, faults>>

\* refresh_session ("User not found")
Load(c) ==
    /\ At(c, "user")
    /\ IF task[c].email \in known THEN Go(c, "issue") ELSE Set(c, Idle)
    /\ UNCHANGED <<clock, accounts, sessions, links, limiter, google, redis, left, faults>>

Logout(c) ==
    /\ At(c, "idle") /\ jar[c] # Empty
    /\ jar' = [jar EXCEPT ![c] = Empty]
    /\ seen' = [seen EXCEPT ![c] = NotSeen]
    /\ UNCHANGED <<clock, accounts, links, limiter, google, redis, task, left, faults>>

-----------------------------------------------------------------------------
(* A link by email *)

\* POST /auth/magic-link: by the client's address, then by the email's.
RequestLink(c) ==
    /\ At(c, "idle") /\ Ask
    /\ Enforce(<<"magic-link-ip", c>>)
    /\ \E e \in Emails :
        Set(c, IF Passes(<<"magic-link-ip", c>>) THEN [Idle EXCEPT !.step = "email", !.email = e]
               ELSE Idle)
    /\ UNCHANGED <<clock, accounts, sessions, links, google, redis, faults>>

LimitEmail(c) ==
    LET k == <<"magic-link-email", task[c].email>> IN
    /\ At(c, "email")
    /\ Enforce(k)
    /\ IF Passes(k) THEN Go(c, "send") ELSE Set(c, Idle)
    /\ UNCHANGED <<clock, accounts, sessions, links, google, redis, left, faults>>

\* send_magic_link: sent, or not (503).
SendLink(c) ==
    /\ At(c, "send")
    /\ \/ /\ links' = links \cup {[email |-> task[c].email, exp |-> clock + LinkLife]}
          /\ UNCHANGED faults
       \/ Fault /\ UNCHANGED links
    /\ Set(c, Idle)
    /\ UNCHANGED <<clock, accounts, sessions, limiter, google, redis, left>>

\* POST /auth/magic-link/verify; a link can be used for as long as it lasts.
Verify(c) ==
    LET k == <<"magic-verify", c>> IN
    /\ At(c, "idle") /\ Ask
    /\ Enforce(k)
    /\ \E l \in links :
        Set(c, IF Passes(k) /\ l.exp > clock THEN [Idle EXCEPT !.step = "find", !.email = l.email]
               ELSE Idle)
    /\ UNCHANGED <<clock, accounts, sessions, links, google, redis, faults>>

-----------------------------------------------------------------------------
(* Google *)

\* POST /auth/google
LoginGoogle(c) ==
    LET k == <<"google-login", c>> IN
    /\ At(c, "idle") /\ Ask
    /\ Enforce(k)
    /\ \E e \in Emails :
        Set(c, IF Passes(k) THEN [Idle EXCEPT !.step = "exchange", !.email = e] ELSE Idle)
    /\ UNCHANGED <<clock, accounts, sessions, links, google, redis, faults>>

\* The code for tokens: with a refresh token if the user is asked for consent.
Exchange(c) ==
    /\ At(c, "exchange")
    /\ \/ \E n \in {0, grants + 1} :
            /\ grants' = IF n = 0 THEN grants ELSE n
            /\ Set(c, [task[c] EXCEPT !.step = "match", !.connection = n])
            /\ UNCHANGED faults
       \/ Fault /\ Set(c, Idle) /\ UNCHANGED grants
    /\ UNCHANGED <<clock, known, grant, sessions, links, limiter, google, redis, left>>

\* get_by_email; whom Google knows is saved, with a new refresh token or without.
Find(c) ==
    /\ At(c, "find") \/ At(c, "match")
    /\ Go(c, IF task[c].email \notin known THEN "create"
             ELSE IF At(c, "match") THEN "save" ELSE "issue")
    /\ UNCHANGED <<clock, accounts, sessions, links, limiter, google, redis, left, faults>>

\* A new account; the email is unique, so one of two that create it fails.
Create(c) ==
    LET e == task[c].email IN
    /\ At(c, "create")
    /\ IF e \in known THEN Set(c, Idle) /\ UNCHANGED <<known, grant>>
       ELSE /\ known' = known \cup {e}
            /\ grant' = [grant EXCEPT ![e] = task[c].connection]
            /\ Go(c, "issue")
    /\ UNCHANGED <<clock, grants, sessions, links, limiter, google, redis, left, faults>>

\* The row of an account deleted meanwhile is inserted again if it was a copy, with
\* the refresh token of the copy (module Accounts); else its UPDATE is refused, and
\* without a new refresh token there is nothing to update.
SaveGrant(c) ==
    LET e == task[c].email
        n == task[c].connection
        written == IF n # 0 THEN {n} ELSE IF e \in known THEN {grant[e]} ELSE 0..grants
    IN /\ At(c, "save")
       /\ \/ /\ known' = known \cup {e}
             /\ \E w \in written : grant' = [grant EXCEPT ![e] = w]
             /\ Go(c, "issue")
          \/ /\ e \notin known /\ UNCHANGED <<known, grant>>
             /\ IF n = 0 THEN Go(c, "issue") ELSE Set(c, Idle)
       /\ UNCHANGED <<clock, grants, sessions, links, limiter, google, redis, left, faults>>

\* google:access:<user>:<hash of the refresh token>, until it expires in Redis.
Kept(e, connection) == {t \in kept : t.email = e /\ t.connection = connection /\ t.until > clock}

Give(c, connection, exp, fresh) ==
    given' = [given EXCEPT ![c] = [asked |-> task[c].connection, connection |-> connection,
                                   exp |-> exp, at |-> clock, fresh |-> fresh]]

\* refresh_google_access_token: the refresh token of the user's row ...
AskGoogle(c) ==
    /\ At(c, "idle") /\ Ask
    /\ \E e \in Users(c, "access") \cap known :
        /\ grant[e] # 0
        /\ Set(c, [Idle EXCEPT !.step = "google", !.email = e, !.connection = grant[e]])
    /\ UNCHANGED <<clock, accounts, sessions, links, limiter, google, redis, faults>>

\* ... then the token in Redis, if it lasts a while yet ...
Reusable(c) == IF redis THEN {t \in Kept(task[c].email, task[c].connection) : t.exp > clock + Margin}
               ELSE {}
ReuseToken(c) ==
    /\ At(c, "google")
    /\ \E t \in Reusable(c) : Give(c, t.connection, t.exp, FALSE)
    /\ Set(c, Idle)
    /\ UNCHANGED <<clock, accounts, sessions, links, limiter, kept, redis, left, faults>>

\* ... or a new one, which is kept until a while before it ends.
NewToken(c) ==
    LET r == task[c] IN
    /\ At(c, "google") /\ Reusable(c) = {}
    /\ \/ \E life \in Lives :
            /\ Give(c, r.connection, clock + life, TRUE)
            /\ kept' = IF redis /\ life > Early
                       THEN (kept \ Kept(r.email, r.connection))
                            \cup {[email |-> r.email, connection |-> r.connection,
                                   exp |-> clock + life, until |-> clock + life - Early]}
                       ELSE kept
            /\ UNCHANGED faults
       \/ Fault /\ UNCHANGED google
    /\ Set(c, Idle)
    /\ UNCHANGED <<clock, accounts, sessions, links, limiter, redis, left>>

-----------------------------------------------------------------------------
(* The world *)

\* The account is deleted (module Accounts).
DeleteAccount(e) ==
    /\ e \in known /\ Ask
    /\ known' = known \ {e} /\ grant' = [grant EXCEPT ![e] = 0]
    /\ UNCHANGED <<clock, grants, sessions, links, limiter, google, redis, task, faults>>

\* A browser drops a cookie, and Redis a key, that is over; the histories drop what
\* no property looks back at.
Tick ==
    /\ clock < End /\ clock' = clock + 1
    /\ jar' = [c \in Clients |-> [kind \in DOMAIN jar[c] |->
                 IF jar[c][kind] # Nil /\ jar[c][kind].exp <= clock' THEN Nil ELSE jar[c][kind]]]
    /\ kept' = {t \in kept : t.until > clock'}
    /\ hits' = [k \in Keys |-> IF hits[k] # Nil /\ hits[k].until <= clock' THEN Nil ELSE hits[k]]
    /\ passed' = [k \in Keys |-> {x \in passed[k] : x[1] > clock' - Window[k[1]]}]
    /\ given' = [c \in Clients |-> Nil]
    /\ UNCHANGED <<accounts, seen, links, redis, task, left, faults>>

\* Redis stops answering, with or without losing what it holds.
RedisGoes ==
    /\ redis /\ Fault /\ redis' = FALSE
    /\ \/ UNCHANGED <<limiter, kept>>
       \/ hits' = [k \in Keys |-> Nil] /\ passed' = [k \in Keys |-> {}] /\ kept' = {}
    /\ UNCHANGED <<clock, accounts, sessions, links, given, task, left>>

RedisReturns ==
    /\ ~redis /\ redis' = TRUE
    /\ UNCHANGED <<clock, accounts, sessions, links, limiter, google, task, left, faults>>

Next ==
    \/ \E c \in Clients :
        \/ Issue(c) \/ Refresh(c) \/ Load(c) \/ Logout(c) \/ RequestLink(c) \/ LimitEmail(c)
        \/ SendLink(c) \/ Verify(c) \/ LoginGoogle(c) \/ Exchange(c) \/ Find(c) \/ Create(c)
        \/ SaveGrant(c) \/ AskGoogle(c) \/ ReuseToken(c) \/ NewToken(c)
    \/ \E e \in Emails : DeleteAccount(e)
    \/ Tick \/ RedisGoes \/ RedisReturns

Spec == Init /\ [][Next]_vars

-----------------------------------------------------------------------------
(* Properties *)

Within(k, from, to) == Cardinality({x \in passed[k] : x[1] \in from..to})

\* A limiter refuses only who has been let through as often as its limit in the
\* last window, however often they were refused since; and in as much time, which
\* two windows may share, fewer are let through than both of them allow ("a broken
\* limiter must never lock everyone out of signing in").
LimitsHold ==
    \A k \in Keys :
        LET w == Window[k[1]] IN
        /\ ~Passes(k) => Within(k, clock - w + 1, clock) >= Limit[k[1]]
        /\ Within(k, clock - w + 1, clock) < 2 * Limit[k[1]]

\* Nobody can call the API for longer than an access token lasts, or stay signed
\* in for longer than a refresh token does, after they last signed in or
\* refreshed; and only as who they signed in ("neither can stand in for the
\* other"), old tokens without a type included.
SessionsEnd ==
    \A c \in Clients :
        /\ \A e \in Users(c, "access") : e = seen[c].email /\ clock - seen[c].at < AccessLife
        /\ \A e \in Users(c, "refresh") : e = seen[c].email /\ clock - seen[c].at < RefreshLife

\* A token of Google that is given out again still works for a while, and it is
\* of the connection the request found ("connecting Google again starts a new
\* entry").
GoogleTokenWorks ==
    \A c \in Clients : given[c] # Nil =>
        /\ given[c].connection = given[c].asked
        /\ given[c].fresh \/ given[c].exp > given[c].at + Margin

\* What signing in promises, at any moment of requests that overlap.
SignInHolds == LimitsHold /\ SessionsEnd /\ GoogleTokenWorks
=============================================================================
