----------------------------- MODULE Gatekeeper -----------------------------
(***************************************************************************)
(* What stands between a request and its handler: AdminAuthMiddleware and  *)
(* the login and logout handlers of src/src/gritadmin/auth/handlers.rs,    *)
(* ip_blacklist.rs, the rate limiter, and AuthMiddleware of                *)
(* src/src/middleware/auth.rs with the session store (security/session.rs),*)
(* its reaper and the signed cookies (security/cookies.rs), as they are    *)
(* chained by Router::new and examples/security.                           *)
(*                                                                         *)
(* Requests of one browser overlap. Every operation on the session map and *)
(* every section under a session's lock is one step; a session found stays *)
(* with the request (an Arc) whatever happens to the map. A cookie that a  *)
(* response sets or deletes reaches the browser when the response does.    *)
(***************************************************************************)
EXTENDS RateLimiter, FiniteSets

CONSTANTS
  Requests,     (* Requests, in the order in which they come in: 1..n.     *)
  Blacklist,    (* blacklisted_ips.                                        *)
  Modes,        (* Set-ups of AuthMiddleware: see Mode.                    *)
  Visits,       (* Visits[b]: what b asks for, of the Paths below.         *)
  Bearers,      (* Expiry times of the bearer tokens they have.            *)
  Timeout,      (* The reaper's timeout.                                   *)
  MaxRestarts,  (* Restarts of the server, at most.                        *)
  MaxOverlap,   (* Requests under way at the same time, at most.           *)
  Nothing       (* No cookie in the response, no token, no bearer.         *)

(* Ips are the browsers. jwt: jwt_handler is set. csrf: enable_csrf. fixed: *)
(* JWT_SECRET is set, so that cookies outlive a restart of the server.      *)
(* admin: the feature of that name is compiled in.                          *)
Mode == [jwt : BOOLEAN, csrf : BOOLEAN, fixed : BOOLEAN, admin : BOOLEAN]

(* page shows a form and login logs a user in, both on public routes; act   *)
(* is a POST to a private route. /admin/** is public to AuthMiddleware.     *)
AdminPaths == {"adminLogin", "adminPage", "adminLogout"}
Paths == {"page", "login", "act", "logout"} \cup AdminPaths
Public == {"page", "login"} \cup AdminPaths
Gated == AdminPaths \ {"adminLogin"}   (* what AdminAuthMiddleware looks at *)

ASSUME GatekeeperAssumption ==
  /\ Requests \subseteq Nat /\ IsFiniteSet(Requests)
  /\ Modes \subseteq Mode
  /\ Visits \in [Ips -> SUBSET Paths]
  /\ Bearers \subseteq Nat
  /\ Timeout \in Nat /\ MaxRestarts \in Nat /\ MaxOverlap \in Nat

VARIABLES
  mode,      (* The set-up, chosen at start.                               *)
  sessions,  (* Every Session made so far. used is history: when a request *)
             (* last found it.                                             *)
  store,     (* The sessions in the store's map.                           *)
  jar,       (* jar[b]: the session its GSESSION_ID and its GASESSION_ID   *)
             (* name, 0 for no cookie.                                     *)
  form,      (* form[b]: the anti-forgery token on the page it shows.      *)
  pc,        (* pc[r]: where the request stands.                           *)
  req,       (* req[r]: who sent it, its path and what it carries. came is *)
             (* history: when it came in.                                  *)
  held,      (* held[r]: ctx.session, 0 for None.                          *)
  out,       (* out[r]: outgoing cookies by name; 0 deletes a cookie.      *)
  verdict,   (* verdict[r]: what became of it.                             *)
  restarts,  (* Restarts so far.                                           *)
  gone       (* gone[r]: history, the sessions made and no longer in the   *)
             (* store when r came in.                                      *)

request == <<pc, req, held, out, verdict, gone>>
gatekeeper == <<mode, sessions, store, jar, form, request, restarts>>
vars == <<now, limiter, gatekeeper>>

Sids == 1..Len(sessions)
Tokens == [sid : Sids, nr : Nat]
Stages == {"idle", "admin", "limit", "auth", "seed", "guard", "identify", "handler",
           "respond", "done"}
Verdicts == {"none", "passed", "blocked", "limited", "loggedOut", "forged", "refused", "notAdmin"}

TypeOK ==
  /\ LimiterTypeOK
  /\ mode \in Modes
  /\ \A s \in Sids : sessions[s] \in [user : BOOLEAN, admin : BOOLEAN, token : Nat,
                                      last : 0..now, used : 0..now]
  /\ store \subseteq Sids
  /\ jar \in [Ips -> [user : {0} \cup Sids, admin : {0} \cup Sids]]
  /\ form \in [Ips -> Tokens \cup {Nothing}]
  /\ pc \in [Requests -> Stages]
  /\ held \in [Requests -> {0} \cup Sids]
  /\ out \in [Requests -> [user : {0, Nothing} \cup Sids, admin : {0, Nothing} \cup Sids]]
  /\ verdict \in [Requests -> Verdicts]
  /\ restarts \in 0..MaxRestarts
  /\ gone \in [Requests -> SUBSET Sids]

Blank == [from |-> Nothing]
NoCookies == [user |-> Nothing, admin |-> Nothing]

Init ==
  /\ LimiterInit
  /\ mode \in Modes
  /\ sessions = << >>
  /\ store = {}
  /\ jar = [b \in Ips |-> [user |-> 0, admin |-> 0]]
  /\ form = [b \in Ips |-> Nothing]
  /\ pc = [r \in Requests |-> "idle"]
  /\ req = [r \in Requests |-> Blank]
  /\ held = [r \in Requests |-> 0]
  /\ out = [r \in Requests |-> NoCookies]
  /\ verdict = [r \in Requests |-> "none"]
  /\ restarts = 0
  /\ gone = [r \in Requests |-> {}]

Fresh(admin) == [user |-> FALSE, admin |-> admin, token |-> 0, last |-> now, used |-> now]

(* A new session under a new id, in the store.                              *)
Mint(admin) ==
  /\ sessions' = Append(sessions, Fresh(admin))
  /\ store' = store \cup {Len(sessions) + 1}

Goto(r, stage) == pc' = [pc EXCEPT ![r] = stage]
Answer(r, what) == Goto(r, "respond") /\ verdict' = [verdict EXCEPT ![r] = what]
Proceed(r, stage) == Goto(r, stage) /\ UNCHANGED verdict

(***************************************************************************)
(* The browsers                                                            *)
(***************************************************************************)
(* A browser sends its cookies, the token of the page it shows, and perhaps *)
(* a bearer token of some expiry.                                           *)
Arrive(r, b, path, bearer) ==
  /\ pc[r] = "idle"
  /\ \A q \in Requests : q < r => pc[q] # "idle"
  /\ Cardinality({q \in Requests : pc[q] \notin {"idle", "done"}}) < MaxOverlap
  /\ bearer # Nothing => mode.jwt
  /\ path \in AdminPaths => mode.admin
  /\ Goto(r, IF path \in Gated THEN "admin" ELSE "limit")
  /\ req' = [req EXCEPT ![r] = [from |-> b, path |-> path, bearer |-> bearer, token |-> form[b],
                                user |-> jar[b].user, admin |-> jar[b].admin, came |-> now]]
  /\ gone' = [gone EXCEPT ![r] = Sids \ store]
  /\ UNCHANGED <<now, limiter, mode, sessions, store, jar, form, held, out, verdict, restarts>>

(* What a request kept goes with it.                                        *)
Forget(r) ==
  /\ Goto(r, "done")
  /\ req' = [req EXCEPT ![r] = Blank]
  /\ held' = [held EXCEPT ![r] = 0]
  /\ out' = [out EXCEPT ![r] = NoCookies]
  /\ verdict' = [verdict EXCEPT ![r] = "none"]
  /\ gone' = [gone EXCEPT ![r] = {}]

(* Set-Cookie headers of a response; a page brings the token of its form.   *)
Deliver(r) ==
  LET b == req[r].from IN
  /\ pc[r] = "respond"
  /\ Forget(r)
  /\ jar' = [jar EXCEPT ![b] = [n \in {"user", "admin"} |->
                                  IF out[r][n] = Nothing THEN @[n] ELSE out[r][n]]]
  /\ form' = [form EXCEPT ![b] =
                IF req[r].path = "page" /\ verdict[r] = "passed"
                THEN IF held[r] = 0 THEN Nothing
                     ELSE [sid |-> held[r], nr |-> sessions[held[r]].token]
                ELSE @]
  /\ UNCHANGED <<now, limiter, mode, sessions, store, restarts>>

(* The client goes away, or the server stops and drops the request.         *)
Drop(r) ==
  /\ pc[r] \notin {"idle", "done"}
  /\ Forget(r)
  /\ UNCHANGED <<now, limiter, mode, sessions, store, jar, form, restarts>>

(***************************************************************************)
(* The chain of middlewares                                                *)
(***************************************************************************)
(* Mutation of AdminGate: a session that was an administrator's will do.    *)
AdminGateEver(r) ==
  LET sid == req[r].admin IN
  /\ pc[r] = "admin"
  /\ IF (sid = 0 \/ ~ sessions[sid].admin)
     THEN Answer(r, "notAdmin") ELSE Proceed(r, "limit")
  /\ UNCHANGED <<now, limiter, mode, sessions, store, jar, form, req, held, out, restarts, gone>>

(* AdminAuthMiddleware: look-up and lock in one, the map entry is held.     *)
AdminGate(r) ==
  LET sid == req[r].admin IN
  /\ pc[r] = "admin"
  /\ IF (sid \notin store \/ ~ sessions[sid].admin)
     THEN Answer(r, "notAdmin") ELSE Proceed(r, "limit")
  /\ UNCHANGED <<now, limiter, mode, sessions, store, jar, form, req, held, out, restarts, gone>>

(* IPBlacklistMiddleware, which keeps nothing, and RateLimitMiddleware.     *)
Limit(r) ==
  LET b == req[r].from IN
  /\ pc[r] = "limit"
  /\ \/ b \in Blacklist /\ Answer(r, "blocked") /\ UNCHANGED limiter
     \/ b \notin Blacklist /\ Admit(b) /\ Proceed(r, "auth")
     \/ b \notin Blacklist /\ Refuse(b) /\ Answer(r, "limited")
  /\ UNCHANGED <<now, mode, sessions, store, jar, form, req, held, out, restarts, gone>>

SetUser(r, sid) == out' = [out EXCEPT ![r].user = sid]

(* Step 2 of AuthMiddleware: the session goes, and the cookie is deleted.   *)
Logout(r) ==
  /\ pc[r] = "auth"
  /\ req[r].path = "logout"
  /\ store' = store \ {req[r].user}
  /\ SetUser(r, 0)
  /\ Answer(r, "loggedOut")
  /\ UNCHANGED <<now, limiter, mode, sessions, jar, form, req, held, restarts, gone>>

(* Steps 1 and 3: the session the cookie names, if it is in the store.      *)
Find(r) ==
  LET sid == req[r].user IN
  /\ pc[r] = "auth"
  /\ req[r].path # "logout"
  /\ sid \in store
  /\ held' = [held EXCEPT ![r] = sid]
  /\ sessions' = [sessions EXCEPT ![sid].used = now]
  /\ Proceed(r, IF req[r].path \in Public THEN "handler" ELSE "seed")
  /\ UNCHANGED <<now, limiter, mode, store, jar, form, req, out, restarts, gone>>

(* Otherwise one is made, except with a JWT handler. On a private route a   *)
(* stale cookie is deleted: under the same name, so that the deletion takes *)
(* the place of the new session's cookie in the outgoing jar.               *)
Miss(r) ==
  LET private == req[r].path \notin Public
      stale == req[r].user # 0
  IN
  /\ pc[r] = "auth"
  /\ req[r].path # "logout"
  /\ req[r].user \notin store
  /\ IF mode.jwt
     THEN /\ UNCHANGED <<sessions, store, held>>
          /\ SetUser(r, IF private /\ stale THEN 0 ELSE Nothing)
     ELSE /\ Mint(FALSE)
          /\ held' = [held EXCEPT ![r] = Len(sessions) + 1]
          /\ SetUser(r, IF private /\ stale THEN 0 ELSE Len(sessions) + 1)
  /\ Proceed(r, IF private THEN "seed" ELSE "handler")
  /\ UNCHANGED <<now, limiter, mode, jar, form, req, restarts, gone>>

(* Mutation of WithToken: every visit brings a new token.                   *)
WithNewToken(s) == [s EXCEPT !.token = @ + 1]

(* The token is made once, under the session's lock.                        *)
WithToken(s) == IF s.token = 0 THEN [s EXCEPT !.token = 1] ELSE s

Seed(r) ==
  /\ pc[r] = "seed"
  /\ sessions' = [s \in Sids |-> IF s = held[r] THEN WithToken(sessions[s]) ELSE sessions[s]]
  /\ Proceed(r, IF mode.csrf /\ ~ mode.jwt THEN "guard" ELSE "identify")
  /\ UNCHANGED <<now, limiter, mode, store, jar, form, req, held, out, restarts, gone>>

(* Step 4. The one unsafe private path is act.                              *)
Guard(r) ==
  LET t == req[r].token IN
  /\ pc[r] = "guard"
  /\ IF t # Nothing /\ t.sid = held[r] /\ t.nr = sessions[held[r]].token
     THEN Proceed(r, "identify") ELSE Answer(r, "forged")
  /\ UNCHANGED <<now, limiter, mode, sessions, store, jar, form, req, held, out, restarts, gone>>

(* Mutation of Identify: the expiry of a bearer token is not looked at.     *)
IdentifyAnyBearer(r) ==
  LET s == held[r] IN
  /\ pc[r] = "identify"
  /\ IF (s # 0 /\ sessions[s].user) \/ (mode.jwt /\ req[r].bearer # Nothing)
     THEN Proceed(r, "handler") ELSE Answer(r, "refused")
  /\ UNCHANGED <<now, limiter, mode, sessions, store, jar, form, req, held, out, restarts, gone>>

(* Steps 5 and 6: a logged-in session, or a bearer token not yet expired.   *)
Identify(r) ==
  LET s == held[r]  bearer == req[r].bearer IN
  /\ pc[r] = "identify"
  /\ IF (s # 0 /\ sessions[s].user) \/ (mode.jwt /\ bearer # Nothing /\ bearer >= now)
     THEN Proceed(r, "handler") ELSE Answer(r, "refused")
  /\ UNCHANGED <<now, limiter, mode, sessions, store, jar, form, req, held, out, restarts, gone>>

(***************************************************************************)
(* The handlers                                                            *)
(***************************************************************************)
Handler(r, path) == pc[r] = "handler" /\ req[r].path = path /\ Answer(r, "passed")

(* get_csrf_token makes the token if nobody has.                            *)
Page(r) ==
  /\ Handler(r, "page")
  /\ sessions' = [s \in Sids |-> IF s = held[r] THEN WithToken(sessions[s]) ELSE sessions[s]]
  /\ UNCHANGED <<now, limiter, mode, store, jar, form, req, held, out, restarts, gone>>

(* login_user_id, if the credentials are right.                             *)
Login(r) ==
  /\ Handler(r, "login")
  /\ \/ UNCHANGED sessions
     \/ held[r] # 0 /\ sessions' = [sessions EXCEPT ![held[r]].user = TRUE]
  /\ UNCHANGED <<now, limiter, mode, store, jar, form, req, held, out, restarts, gone>>

(* The application may call get_or_create on the cookie, which refreshes    *)
(* last_accessed and is the only thing that does.                           *)
Act(r) ==
  /\ Handler(r, "act")
  /\ \/ UNCHANGED <<sessions, store>>
     \/ /\ req[r].user \in store
        /\ sessions' = [sessions EXCEPT ![req[r].user].last = now]
        /\ UNCHANGED store
     \/ req[r].user \notin store /\ Mint(FALSE)
  /\ UNCHANGED <<now, limiter, mode, jar, form, req, held, out, restarts, gone>>

(* handle_login_auth, with right or wrong credentials.                      *)
AdminLogin(r) ==
  /\ Handler(r, "adminLogin")
  /\ \/ UNCHANGED <<sessions, store, out>>
     \/ Mint(TRUE) /\ out' = [out EXCEPT ![r].admin = Len(sessions) + 1]
  /\ UNCHANGED <<now, limiter, mode, jar, form, req, held, restarts, gone>>

AdminPage(r) ==
  /\ Handler(r, "adminPage")
  /\ UNCHANGED <<now, limiter, mode, sessions, store, jar, form, req, held, out, restarts, gone>>

(* handle_logout.                                                           *)
AdminLogout(r) ==
  /\ Handler(r, "adminLogout")
  /\ store' = store \ {req[r].admin}
  /\ out' = [out EXCEPT ![r].admin = 0]
  /\ UNCHANGED <<now, limiter, mode, sessions, jar, form, req, held, restarts, gone>>

(***************************************************************************)
(* The reaper, the clock and restarts                                      *)
(***************************************************************************)
(* retain() walks the map entry by entry; when it wakes is left open.       *)
Reap(s) ==
  /\ s \in store
  /\ now - sessions[s].last > Timeout
  /\ store' = store \ {s}
  /\ UNCHANGED <<now, limiter, mode, sessions, jar, form, request, restarts>>

Tick == Elapse /\ UNCHANGED <<limiter, gatekeeper>>

(* The store is in memory. Without JWT_SECRET the signing key is new, and a *)
(* cookie that does not verify counts as none.                              *)
Restart ==
  /\ restarts < MaxRestarts
  /\ restarts' = restarts + 1
  /\ store' = {}
  /\ bucket' = [ip \in Ips |-> NoBucket]
  /\ served' = [ip \in Ips |-> << >>]
  /\ jar' = IF mode.fixed THEN jar ELSE [b \in Ips |-> [user |-> 0, admin |-> 0]]
  /\ pc' = [r \in Requests |-> IF pc[r] = "idle" THEN "idle" ELSE "done"]
  /\ req' = [r \in Requests |-> Blank]
  /\ held' = [r \in Requests |-> 0]
  /\ out' = [r \in Requests |-> NoCookies]
  /\ verdict' = [r \in Requests |-> "none"]
  /\ gone' = [r \in Requests |-> {}]
  /\ UNCHANGED <<now, mode, sessions, form>>

Auth(r) == Logout(r) \/ Find(r) \/ Miss(r) \/ Seed(r) \/ Guard(r) \/ Identify(r)
Handle(r) == Page(r) \/ Login(r) \/ Act(r) \/ AdminLogin(r) \/ AdminPage(r) \/ AdminLogout(r)

Next ==
  \/ \E r \in Requests :
       \/ AdminGate(r) \/ Limit(r) \/ Auth(r) \/ Handle(r) \/ Deliver(r) \/ Drop(r)
       \/ \E b \in Ips, bearer \in {Nothing} \cup Bearers :
            \E path \in Visits[b] : Arrive(r, b, path, bearer)
  \/ \E s \in Sids : Reap(s)
  \/ Tick \/ Restart

Spec == Init /\ [][Next]_vars
-----------------------------------------------------------------------------
(***************************************************************************)
(* Properties                                                              *)
(***************************************************************************)
BeyondAdmin == {"limit", "auth", "seed", "guard", "identify", "handler"}

(* A session that was logged out, reaped or lost in a restart before a      *)
(* request came in opens nothing to it, whatever requests that still held   *)
(* the session did meanwhile; nor does one that was never logged in to the  *)
(* part of the site it asks for, nor a bearer token expired by then, though *)
(* the clock goes on while the request is under way.                        *)
Trusted(s, r) == s # 0 /\ sessions[s].user /\ s \notin gone[r]
BearsValid(r) == mode.jwt /\ req[r].bearer # Nothing /\ req[r].bearer >= req[r].came

GoneIsGone ==
  \A r \in Requests :
    /\ pc[r] = "handler" /\ req[r].path = "act" => Trusted(held[r], r) \/ BearsValid(r)
    /\ pc[r] \in BeyondAdmin /\ req[r].path \in Gated =>
         req[r].admin \notin gone[r] \cup {0} /\ sessions[req[r].admin].admin

(* The guard against forged forms knows its own: a form shown for a session *)
(* is refused only if the request that posts it runs on another session,    *)
(* however the requests that made and read the token overlapped; and with   *)
(* the guard on, nothing else gets to the handler.                          *)
OwnFormsOnly ==
  \A r \in Requests : LET t == req[r].token IN
    /\ verdict[r] = "forged" => t = Nothing \/ t.sid # held[r]
    /\ pc[r] = "handler" /\ req[r].path = "act" /\ mode.csrf /\ ~ mode.jwt =>
         t # Nothing /\ t.sid = held[r]

(* The gate is shut to what is gone, in every state the gate can be in.     *)
GateHolds == TypeOK /\ GoneIsGone
=============================================================================
