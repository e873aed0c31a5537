---------------------------- MODULE TypesProofs ----------------------------
(***************************************************************************)
(* Every service keeps the types of what it stores and holds.  For all but *)
(* signing in, the invariants of their own proofs say so.                  *)
(***************************************************************************)
EXTENDS JobsProofs, PlannerProofs, ServicesProofs, TLAPS

-----------------------------------------------------------------------------
(* Signing in: its rows, tokens, links and requests *)

Steps == {"idle", "email", "send", "exchange", "find", "match", "create", "save", "issue", "user",
          "google"}
Visit(n) == [step : Steps, email : Emails \cup {Nil}, connection : 0..n]
Named(r) == r.step # "idle" => r.email \in Emails
Valid(x) == x # Nil => x.email \in Emails /\ x.exp \in Int /\ x.exp > minute
Jars == \A c \in Procs : Valid(jar[c].access) /\ Valid(jar[c].refresh)
Link == [email : Emails, exp : 0..(LastMinute + LinkLife)]
SignTyped ==
    /\ minute \in 0..LastMinute /\ known \subseteq Emails /\ answers \in BOOLEAN
    /\ grants \in Nat /\ grant \in [Emails -> 0..grants]
    /\ visit \in [Procs -> Visit(grants)] /\ \A c \in Procs : Named(visit[c])
    /\ Jars /\ links \subseteq Link

\* A request that goes on with values of the right types.
LEMMA VisitGoes ==
    ASSUME NEW n \in Nat, visit \in [Procs -> Visit(n)], \A d \in Procs : Named(visit[d]),
           NEW c \in Procs, NEW r \in Visit(n), Named(r), I!Set(c, r)
    PROVE  visit' \in [Procs -> Visit(n)] /\ \A d \in Procs : Named(visit'[d])
<1>1. visit' = [visit EXCEPT ![c] = r]
  BY DEF I!Set
<1> QED
  BY <1>1

\* One that is over, or goes to its next step.
LEMMA IdleVisit ==
    ASSUME NEW n \in Nat
    PROVE  I!Idle \in Visit(n) /\ Named(I!Idle)
BY DEF I!Idle, Visit, Steps, Named
LEMMA NewVisit ==
    ASSUME NEW n \in Nat, NEW x \in Visit(n), NEW e \in Emails, NEW s \in Steps, NEW m \in 0..n
    PROVE  /\ [x EXCEPT !.step = s, !.email = e] \in Visit(n)
           /\ [x EXCEPT !.step = s, !.email = e, !.connection = m] \in Visit(n)
           /\ Named([x EXCEPT !.step = s, !.email = e])
           /\ Named([x EXCEPT !.step = s, !.email = e, !.connection = m])
BY DEF Visit, Named
LEMMA NextVisit ==
    ASSUME NEW n \in Nat, NEW r \in Visit(n), Named(r), r.step # "idle", NEW s \in Steps
    PROVE  [r EXCEPT !.step = s] \in Visit(n) /\ Named([r EXCEPT !.step = s])
BY DEF Visit, Named

\* A token that counts names an account.
LEMMA UsersAreEmails ==
    ASSUME SignTyped, SignInv, NEW c \in Procs, NEW kind \in {"access", "refresh"}
    PROVE  I!Users(c, kind) \subseteq Emails
<1>1. Valid(jar[c].access) /\ Valid(jar[c].refresh)
  BY DEF SignTyped, Jars
<1>2. ASSUME NEW x, Valid(x), I!SessionUser(x, kind) # Nil PROVE I!SessionUser(x, kind) \in Emails
  BY <1>2 DEF Valid, I!SessionUser
<1>3. jar[c][kind] \in {jar[c].access, jar[c].refresh}
  OBVIOUS
<1> QED
  BY <1>1, <1>2, <1>3 DEF I!Users

\* What a request leaves alone.
LEMMA JarsRest ==
    ASSUME Jars, UNCHANGED <<minute, jar>>
    PROVE  Jars'
BY DEF Jars, Valid

\* The steps of a request that see to its own state only.
LEMMA VisitTyped ==
    ASSUME SignTyped, SignInv, NEW c \in Procs,
           \/ I!Refresh(c) \/ I!Load(c) \/ I!RequestLink(c) \/ I!LimitEmail(c) \/ I!Verify(c)
           \/ I!LoginGoogle(c) \/ I!Find(c) \/ I!AskGoogle(c) \/ I!ReuseToken(c) \/ I!NewToken(c)
    PROVE  SignTyped'
<1>1. UNCHANGED <<minute, known, grant, grants, jar, links, answers>>
  BY DEF I!Refresh, I!Load, I!RequestLink, I!LimitEmail, I!Verify, I!LoginGoogle, I!Find, I!AskGoogle,
     I!ReuseToken, I!NewToken, I!accounts, I!sessions
<1> DEFINE ok(r) == r \in Visit(grants) /\ Named(r)
<1>2. grants \in Nat /\ ok(visit[c])
  BY DEF SignTyped
<1>3. ok(I!Idle)
  BY <1>2, IdleVisit
<1>4. ASSUME NEW e \in Emails, NEW s \in Steps, NEW m \in 0..grants
      PROVE  ok([I!Idle EXCEPT !.step = s, !.email = e, !.connection = m])
  BY <1>2, <1>3, NewVisit
<1>5. ASSUME NEW e \in Emails, NEW s \in Steps
      PROVE  ok([I!Idle EXCEPT !.step = s, !.email = e])
  <2>1. 0 \in 0..grants
    BY <1>2
  <2> QED
    BY <1>2, <1>3, <2>1, NewVisit
<1>6. ASSUME visit[c].step # "idle", NEW s \in Steps PROVE ok([visit[c] EXCEPT !.step = s])
  BY <1>2, <1>6, NextVisit
<1>7. \E r : ok(r) /\ I!Set(c, r)
  <2> HIDE DEF ok
  <2>1. CASE I!Refresh(c)
    BY <2>1, <1>5, UsersAreEmails DEF I!Refresh, Steps
  <2>2. CASE I!Load(c)
    BY <2>2, <1>3, <1>6 DEF I!Load, I!Go, I!At, Steps
  <2>3. CASE I!RequestLink(c)
    BY <2>3, <1>3, <1>5 DEF I!RequestLink, Steps
  <2>4. CASE I!LimitEmail(c)
    BY <2>4, <1>3, <1>6 DEF I!LimitEmail, I!Go, I!At, Steps
  <2>5. CASE I!Verify(c)
    <3>1. PICK l \in links :
            I!Set(c, IF I!Passes(<<"magic-verify", c>>) /\ l.exp > minute
                     THEN [I!Idle EXCEPT !.step = "find", !.email = l.email] ELSE I!Idle)
      BY <2>5 DEF I!Verify
    <3>2. l.email \in Emails
      BY DEF SignTyped, Link
    <3> QED
      BY <3>1, <3>2, <1>3, <1>5 DEF Steps
  <2>6. CASE I!LoginGoogle(c)
    BY <2>6, <1>3, <1>5 DEF I!LoginGoogle, Steps
  <2>7. CASE I!Find(c)
    BY <2>7, <1>6 DEF I!Find, I!Go, I!At, Steps
  <2>8. CASE I!AskGoogle(c)
    <3>1. PICK e \in I!Users(c, "access") \cap known :
            I!Set(c, [I!Idle EXCEPT !.step = "google", !.email = e, !.connection = grant[e]])
      BY <2>8 DEF I!AskGoogle
    <3>2. e \in Emails /\ grant[e] \in 0..grants
      BY DEF SignTyped
    <3> QED
      BY <3>1, <3>2, <1>4 DEF Steps
  <2>9. CASE I!ReuseToken(c) \/ I!NewToken(c)
    BY <2>9, <1>3 DEF I!ReuseToken, I!NewToken
  <2> QED
    BY <2>1, <2>2, <2>3, <2>4, <2>5, <2>6, <2>7, <2>8, <2>9
<1>8. visit' \in [Procs -> Visit(grants)] /\ \A d \in Procs : Named(visit'[d])
  BY <1>2, <1>7, VisitGoes DEF SignTyped
<1> QED
  BY <1>1, <1>8, JarsRest DEF SignTyped

\* A session starts or ends.
LEMMA SessionTyped ==
    ASSUME SignTyped, SignInv, NEW c \in Procs, I!Issue(c) \/ I!Logout(c)
    PROVE  SignTyped'
<1>1. UNCHANGED <<minute, known, grant, grants, links, answers>>
  BY DEF I!Issue, I!Logout, I!accounts
<1>2. minute \in Int /\ grants \in Nat
  BY DEF SignTyped
<1>3. visit' \in [Procs -> Visit(grants)] /\ \A d \in Procs : Named(visit'[d])
  <2>1. visit' = visit \/ I!Set(c, I!Idle)
    BY DEF I!Issue, I!Logout
  <2> QED
    BY <1>2, <2>1, IdleVisit, VisitGoes DEF SignTyped
<1>4. ASSUME NEW d \in Procs PROVE (Valid(jar[d].access) /\ Valid(jar[d].refresh))'
  <2>1. CASE d # c
    BY <1>1, <2>1 DEF SignTyped, SignInv, Jars, Valid, I!Issue, I!Logout
  <2>2. CASE d = c /\ I!Logout(c)
    BY <2>2 DEF SignInv, I!Logout, I!Empty, Valid
  <2>3. CASE d = c /\ I!Issue(c)
    <3>1. visit[c].email \in Emails
      BY <2>3 DEF SignTyped, Named, I!Issue, I!At
    <3>2. /\ jar'[c].access = I!Token("access", visit[c].email, minute, AccessLife)
          /\ jar'[c].refresh = I!Token("refresh", visit[c].email, minute, RefreshLife)
      BY <2>3 DEF SignInv, I!Issue
    <3> QED
      BY <1>1, <1>2, <2>3, <3>1, <3>2, SignInAssumption DEF Valid, I!Token
  <2> QED
    BY <2>1, <2>2, <2>3
<1> QED
  BY <1>1, <1>3, <1>4 DEF SignTyped, Jars

\* A link leaves.
LEMMA LinkTyped ==
    ASSUME SignTyped, NEW c \in Procs, I!SendLink(c)
    PROVE  SignTyped'
<1>1. UNCHANGED <<minute, known, grant, grants, jar, answers>> /\ I!Set(c, I!Idle)
  BY DEF I!SendLink, I!accounts, I!sessions
<1>2. visit' \in [Procs -> Visit(grants)] /\ \A d \in Procs : Named(visit'[d])
  BY <1>1, IdleVisit, VisitGoes DEF SignTyped
<1>3. visit[c].email \in Emails /\ minute \in 0..LastMinute
  BY DEF SignTyped, Named, I!SendLink, I!At
<1>4. [email |-> visit[c].email, exp |-> minute + LinkLife] \in Link
  BY <1>3, SignInAssumption DEF Link
<1>5. links' \subseteq Link
  BY <1>4 DEF SignTyped, I!SendLink
<1> QED
  BY <1>1, <1>2, <1>5, JarsRest DEF SignTyped

\* The code of Google's for tokens: a connection more, or none.
LEMMA ExchangeTyped ==
    ASSUME SignTyped, NEW c \in Procs, I!Exchange(c)
    PROVE  SignTyped'
<1>1. UNCHANGED <<minute, known, grant, jar, links, answers>>
  BY DEF I!Exchange, I!sessions
<1>2. grants \in Nat /\ grants' \in Nat /\ grants <= grants'
  BY DEF SignTyped, I!Exchange
<1>3. /\ Visit(grants) \subseteq Visit(grants') /\ 0..grants \subseteq 0..grants'
  BY <1>2 DEF Visit
<1>4. visit[c] \in Visit(grants) /\ visit[c].email \in Emails
  BY DEF SignTyped, Named, I!Exchange, I!At
<1>5. \E r : r \in Visit(grants') /\ Named(r) /\ I!Set(c, r)
  <2>1. CASE I!Set(c, I!Idle)
    BY <1>2, <2>1, IdleVisit
  <2>2. ASSUME NEW n \in {0, grants + 1}, grants' = IF n = 0 THEN grants ELSE n,
               I!Set(c, [visit[c] EXCEPT !.step = "match", !.connection = n])
        PROVE  \E r : r \in Visit(grants') /\ Named(r) /\ I!Set(c, r)
    <3>1. n \in 0..grants'
      BY <1>2, <2>2
    <3>2. [visit[c] EXCEPT !.step = "match", !.connection = n] \in Visit(grants')
      BY <1>4, <3>1 DEF Visit, Steps
    <3>3. Named([visit[c] EXCEPT !.step = "match", !.connection = n])
      BY <1>4 DEF Named, Visit
    <3> QED
      BY <2>2, <3>2, <3>3
  <2> QED
    BY <2>1, <2>2 DEF I!Exchange
<1>6. visit \in [Procs -> Visit(grants')]
  BY <1>3 DEF SignTyped
<1>7. visit' \in [Procs -> Visit(grants')] /\ \A d \in Procs : Named(visit'[d])
  BY <1>2, <1>5, <1>6, VisitGoes DEF SignTyped
<1>8. grant \in [Emails -> 0..grants']
  BY <1>3 DEF SignTyped
<1> QED
  BY <1>1, <1>2, <1>7, <1>8, JarsRest DEF SignTyped

\* A row is made or written.
LEMMA RowTyped ==
    ASSUME SignTyped, NEW c \in Procs, I!Create(c) \/ I!SaveGrant(c)
    PROVE  SignTyped'
<1>1. UNCHANGED <<minute, grants, jar, links, answers>>
  BY DEF I!Create, I!SaveGrant, I!sessions
<1>2. visit[c] \in Visit(grants) /\ Named(visit[c]) /\ visit[c].step # "idle"
  BY DEF SignTyped, I!Create, I!SaveGrant, I!At
<1>3. visit[c].email \in Emails /\ visit[c].connection \in 0..grants
  BY <1>2 DEF Visit, Named
<1>4. \E r : r \in Visit(grants) /\ Named(r) /\ I!Set(c, r)
  <2>1. I!Set(c, I!Idle) \/ I!Set(c, [visit[c] EXCEPT !.step = "issue"])
    BY DEF I!Create, I!SaveGrant, I!Go
  <2>2. "issue" \in Steps /\ grants \in Nat
    BY DEF SignTyped, Steps
  <2> QED
    BY <1>2, <2>1, <2>2, IdleVisit, NextVisit
<1>5. visit' \in [Procs -> Visit(grants)] /\ \A d \in Procs : Named(visit'[d])
  BY <1>4, VisitGoes DEF SignTyped
<1>6. known' \subseteq Emails /\ grant' \in [Emails -> 0..grants]
  BY <1>3 DEF SignTyped, I!Create, I!SaveGrant
<1> QED
  BY <1>1, <1>5, <1>6, JarsRest DEF SignTyped

\* A minute passes; what is over is gone.
LEMMA MinuteTyped ==
    ASSUME SignTyped, SignInv, I!Tick
    PROVE  SignTyped'
<1>1. UNCHANGED <<known, grant, grants, links, answers, visit>>
  BY DEF I!Tick, I!accounts
<1>2. minute' \in 0..LastMinute
  BY SignInAssumption DEF SignTyped, I!Tick
<1>3. ASSUME NEW c \in Procs PROVE (Valid(jar[c].access) /\ Valid(jar[c].refresh))'
  <2>1. DOMAIN jar[c] = {"access", "refresh"}
    BY DEF SignInv, JarOK
  <2>2. jar'[c] = [kind \in {"access", "refresh"} |->
                     IF jar[c][kind] # Nil /\ jar[c][kind].exp <= minute' THEN Nil ELSE jar[c][kind]]
    BY <2>1 DEF I!Tick
  <2>3. Valid(jar[c].access) /\ Valid(jar[c].refresh)
    BY DEF SignTyped, Jars
  <2> QED
    BY <1>2, <2>2, <2>3 DEF Valid
<1> QED
  BY <1>1, <1>2, <1>3 DEF SignTyped, Jars

\* An account goes, and Redis goes or returns.
LEMMA WorldTyped ==
    ASSUME SignTyped, (\E e \in Emails : I!DeleteAccount(e)) \/ I!RedisGoes \/ I!RedisReturns
    PROVE  SignTyped'
<1>1. UNCHANGED <<minute, grants, jar, links, visit>>
  BY DEF I!DeleteAccount, I!RedisGoes, I!RedisReturns, I!accounts, I!sessions
<1>2. answers' \in BOOLEAN
  BY DEF SignTyped, I!DeleteAccount, I!RedisGoes, I!RedisReturns
<1>3. known' \subseteq Emails /\ grant' \in [Emails -> 0..grants]
  BY DEF SignTyped, I!DeleteAccount, I!RedisGoes, I!RedisReturns, I!accounts
<1> QED
  BY <1>1, <1>2, <1>3, JarsRest DEF SignTyped

LEMMA SignTypedInit ==
    ASSUME I!Init
    PROVE  SignTyped
<1>1. /\ minute = 0 /\ known \subseteq Emails /\ answers = TRUE /\ grants = 1 /\ links = {}
      /\ grant = [e \in Emails |-> IF e \in known THEN 1 ELSE 0]
      /\ visit = [c \in Procs |-> I!Idle]
  BY DEF I!Init
<1>2. ASSUME NEW c \in Procs PROVE Valid(jar[c].access) /\ Valid(jar[c].refresh)
  <2>1. PICK old \in [Procs -> known \cup {Nil}] :
          jar = [d \in Procs |-> IF old[d] = Nil THEN I!Empty
                                 ELSE [access |-> I!Token(Nil, old[d], 0, AccessLife),
                                       refresh |-> I!Token(Nil, old[d], 0, RefreshLife)]]
    BY DEF I!Init
  <2>2. CASE old[c] = Nil
    BY <2>1, <2>2 DEF I!Empty, Valid
  <2>3. CASE old[c] # Nil
    BY <1>1, <2>1, <2>3, SignInAssumption DEF I!Token, Valid
  <2> QED
    BY <2>2, <2>3
<1>3. I!Idle \in Visit(1) /\ Named(I!Idle)
  BY IdleVisit
<1> QED
  BY <1>1, <1>2, <1>3, SignInAssumption DEF SignTyped, Jars

LEMMA SignTypedStep ==
    ASSUME SignTyped, SignInv, [I!Next]_I!vars
    PROVE  SignTyped'
<1>1. CASE UNCHANGED I!vars
  BY <1>1, JarsRest DEF I!vars, SignTyped
<1>2. ASSUME NEW c \in Procs,
             \/ I!Refresh(c) \/ I!Load(c) \/ I!RequestLink(c) \/ I!LimitEmail(c) \/ I!Verify(c)
             \/ I!LoginGoogle(c) \/ I!Find(c) \/ I!AskGoogle(c) \/ I!ReuseToken(c) \/ I!NewToken(c)
      PROVE  SignTyped'
  BY <1>2, VisitTyped
<1>3. ASSUME NEW c \in Procs,
             \/ I!Issue(c) \/ I!Logout(c) \/ I!SendLink(c) \/ I!Exchange(c) \/ I!Create(c)
             \/ I!SaveGrant(c)
      PROVE  SignTyped'
  BY <1>3, SessionTyped, LinkTyped, ExchangeTyped, RowTyped
<1> QED
  BY <1>1, <1>2, <1>3, MinuteTyped, WorldTyped DEF I!Next

\* The counters of Redis are those of the limiter's invariant.
LEMMA TypesOfSignIn == SignInv /\ SignTyped => I!TypeOK
<1> SUFFICES ASSUME SignInv, SignTyped PROVE I!TypeOK
  OBVIOUS
<1>1. ASSUME NEW k \in I!Keys, hits[k] # Nil PROVE hits[k].n > 0
  <2>1. Limited(passed[k], hits[k], minute, RateWindow[k[1]], RateLimit[k[1]])
    BY DEF SignInv, LimiterOK
  <2>2. hits[k] \in Counters
    BY <1>1, <2>1 DEF Limited
  <2> QED
    BY <2>2 DEF Counters
<1>2. \A l \in links : l.email \in Emails /\ l.exp <= LastMinute + LinkLife
  BY SignInAssumption DEF SignTyped, Link
<1>3. ASSUME NEW c \in Procs
      PROVE  /\ \A kind \in {"access", "refresh"} :
                  jar[c][kind] # Nil => jar[c][kind].email \in Emails /\ jar[c][kind].exp > minute
             /\ visit[c].step \in Steps /\ visit[c].email \in Emails \cup {Nil}
  BY DEF SignTyped, Jars, Valid, Visit
<1> QED
  BY <1>1, <1>2, <1>3 DEF SignTyped, I!TypeOK, Steps

-----------------------------------------------------------------------------
(* The other services *)

LEMMA TypesOfCalendar == CalendarInv => C!TypeOK
<1> SUFFICES ASSUME CalendarInv PROVE C!TypeOK
  OBVIOUS
<1>1. Typed
  BY DEF CalendarInv, WorldInv
<1>2. ASSUME NEW V, NEW f \in Maps(V)
      PROVE  DOMAIN f \subseteq Mirrored /\ \A e \in DOMAIN f : f[e] \in V
  BY <1>2 DEF Maps
<1>3. ASSUME NEW p \in Procs
      PROVE  /\ sync[p].step \in {"rest", "link", "fetch", "apply", "watch"}
             /\ sync[p].items \in Maps(C!Event) /\ sync[p].writes \in Maps(C!Row \cup {Nil})
  BY <1>1 DEF Typed, SyncRun
<1>4. edit.step \in {"rest", "push", "commit"}
  BY <1>1 DEF Typed, EditRun
<1> HIDE DEF Maps
<1> QED
  BY <1>1, <1>2, <1>3, <1>4 DEF Typed, C!TypeOK

LEMMA TypesOfQuery == QueryInv => Q!TypeOK
<1> SUFFICES ASSUME QueryInv PROVE Q!TypeOK
  OBVIOUS
<1>1. QueryTyped
  BY DEF QueryInv
<1>2. Cardinality(Listable) \in Nat
  BY FS_CardinalityType, QueryAssumption
<1>3. \A i \in DOMAIN view.shown : view.shown[i] \in Listable
  <2>1. view.shown \in Seq(Listable)
    BY <1>1 DEF QueryTyped, QueryRun
  <2> QED
    BY <2>1
<1> QED
  BY <1>1, <1>2, <1>3, TasksCardinality DEF QueryTyped, QueryRun, Q!TypeOK

LEMMA TypesOfChat == ChatInv => H!TypeOK
BY DEF ChatInv, ChatTyped, ChatRun, Sums, H!TypeOK

\* What requests that overlap slip on.
Slips == slips \subseteq {"stale", "take", "count", "scan", "failed"}
LEMMA SlipsInit == W!Init => Slips
  BY DEF W!Init, Slips
LEMMA SlipsStep ==
    ASSUME Slips, [W!Next]_W!vars
    PROVE  Slips'
<1>1. CASE UNCHANGED W!vars
  BY <1>1 DEF Slips, W!vars
<1>2. CASE W!PlanChanges
  BY <1>2 DEF Slips, W!PlanChanges
<1>3. ASSUME NEW p \in Procs,
             \/ W!Start(p) \/ W!Find(p) \/ W!Release(p) \/ W!Merge(p) \/ W!Flush(p) \/ W!Remove(p)
             \/ W!Clear(p) \/ W!Count(p) \/ W!Draw(p) \/ W!Paint(p) \/ W!Write(p) \/ W!Scan(p)
      PROVE  slips' = slips
  BY <1>3 DEF W!Start, W!Find, W!Release, W!Merge, W!Flush, W!Remove, W!Clear, W!Count, W!Draw,
     W!Paint, W!Write, W!Scan
<1>4. ASSUME NEW p \in Procs, W!Create(p) \/ W!Fill(p) \/ W!Fail(p) \/ W!Automate(p)
      PROVE  slips' \subseteq slips \cup {"stale", "take", "scan", "failed"}
  BY <1>4 DEF W!Create, W!Fill, W!Fail, W!Automate
<1>5. ASSUME NEW p \in Procs, W!Commit(p)
      PROVE  slips' \subseteq slips \cup {"stale", "take", "count"}
  BY <1>5 DEF W!Commit, W!Overlap
<1> QED
  BY <1>1, <1>2, <1>3, <1>4, <1>5 DEF Slips, W!Next

LEMMA TypesOfContent == ContentInv /\ AutoInv /\ Slips => W!TypeOK
<1> SUFFICES ASSUME ContentInv, AutoInv, Slips PROVE W!TypeOK
  OBVIOUS
<1>1. ContentTyped /\ AutoTyped
  BY DEF ContentInv, AutoInv
<1>2. ASSUME NEW p \in Procs
      PROVE  /\ \A d \in DOMAIN request[p].docs : request[p].docs[d] \in Rows
             /\ \A c \in DOMAIN request[p].canvases : request[p].canvases[c] \in Drawn
  <2>1. request[p].docs \in Part(Ids, Rows) /\ request[p].canvases \in Part(Drawings, Drawn)
    BY <1>1 DEF ContentTyped, Mutation
  <2> QED
    BY <2>1, PartFacts
<1> QED
  BY <1>1, <1>2 DEF ContentTyped, AutoTyped, Rows, Drawn, Slips, W!TypeOK

-----------------------------------------------------------------------------
(* All of them *)

\* The invariants that the services' own proofs leave out.
OwnInv ==
    /\ scene = "planner" => IInv
    /\ scene = "signin" => SignInv /\ SignTyped
    /\ scene = "content" => Slips

LEMMA OwnInvariance == ServicesSpec => []OwnInv
<1>1. ServicesInit => OwnInv
  BY InitIInv, SignInInit, SignTypedInit, SlipsInit DEF ServicesInit, OwnInv
<1>2. OwnInv /\ [ServicesNext]_all => OwnInv'
  <2> SUFFICES ASSUME OwnInv, [ServicesNext]_all PROVE OwnInv'
    OBVIOUS
  <2>1. scene' = scene
    BY DEF ServicesNext, all
  <2>2. CASE scene = "planner"
    <3>1. [Next]_vars
      BY <2>2 DEF ServicesNext, all
    <3> QED
      BY <2>1, <2>2, <3>1, NextIInv DEF OwnInv
  <2>3. CASE scene = "signin"
    <3>1. [I!Next]_I!vars
      BY <2>3 DEF ServicesNext, all, iVars, I!vars
    <3> QED
      BY <2>1, <2>3, <3>1, SignInStep, SignTypedStep DEF OwnInv
  <2>4. CASE scene = "content"
    <3>1. [W!Next]_W!vars
      BY <2>4 DEF ServicesNext, all, wVars, W!vars
    <3> QED
      BY <2>1, <2>4, <3>1, SlipsStep DEF OwnInv
  <2> QED
    BY <2>1, <2>2, <2>3, <2>4 DEF OwnInv
<1> QED
  BY <1>1, <1>2, PTL DEF ServicesSpec

\* What the services store and hold, in Postgres, in Redis, at Google and in the
\* requests, sweeps and synchronisations under way, keeps its types: every task and
\* block has dates of the calendar, every token and link the email of somebody and an
\* end, every counter of the limiter a hit, every copy the fields of its row, and
\* every run is at one of its steps, however requests, failures and time interleave.
THEOREM EverythingIsTyped == ServicesSpec => []TypesOK
<1> DEFINE
      Inv == /\ OwnInv
             /\ scene = "reminders" => RemindersInv
             /\ scene = "smart" => SmartInv
             /\ scene = "calendar" => CalendarInv
             /\ scene = "query" => QueryInv
             /\ scene = "chat" => ChatInv
             /\ scene = "content" => ContentInv /\ AutoInv
      Scene == scene \in {"planner", "reminders", "smart", "calendar", "query", "chat", "content",
                         "signin"}
<1>1. ServicesSpec => []Scene
  <2>1. ServicesInit => Scene
    BY DEF ServicesInit
  <2>2. Scene /\ [ServicesNext]_all => Scene'
    BY DEF ServicesNext, all
  <2> QED
    BY <2>1, <2>2, PTL DEF ServicesSpec
<1>2. Inv /\ Scene => TypesOK
  BY TypesOfPlanner, TypesOfSmart, TypesOfCalendar, TypesOfQuery, TypesOfChat, TypesOfContent,
     TypesOfSignIn DEF OwnInv, RemindersInv, SmartInv, TypesOK
<1> QED
  BY <1>1, <1>2, OwnInvariance, RemindersInvariance, SmartInvariance, CalendarInvariance,
     QueryInvariance, ChatInvariance, ContentInvariance, PTL
=============================================================================
