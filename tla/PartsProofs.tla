----------------------------- MODULE PartsProofs -----------------------------
(***************************************************************************)
(* Theorems about the smaller machines of a server, whatever clients,      *)
(* sessions, types and files there are: the rate limiter (RateLimiter),    *)
(* the sessions and the gates (Gatekeeper), the ledger of migrations       *)
(* (Migrations), the dependency container (Container), the cron scheduler  *)
(* (Cron), the administrators at one table (AdminData) and the grid one of *)
(* them looks at (AdminGrid).                                              *)
(***************************************************************************)
EXTENDS Gatekeeper, Container, Migrations, Cron, AdminData, AdminGrid, FiniteSetTheorems, SequenceTheorems,
        WellFoundedInduction, TLAPS

-----------------------------------------------------------------------------
(* RateLimiter: however its windows fall, a burst is bounded.               *)

(* What a bucket of count and expires knows of the requests it let through, *)
(* seq, at time t. The window opened at expires - Window: all but the last  *)
(* count requests came before. The one before it was over by then: all but  *)
(* the last count + PerWindow came before it opened, a window earlier.      *)
Apart(seq) ==
  \A i, j \in 1..Len(seq) : j >= i + 2 * PerWindow => seq[j] - seq[i] >= Window
Orderly(seq, count, expires, t) ==
  /\ count <= PerWindow /\ count <= Len(seq)
  /\ expires <= t + Window
  /\ \A k \in 1..Len(seq) : seq[k] <= t
  /\ \A k \in 1..Len(seq) : k <= Len(seq) - count => seq[k] <= expires - Window
  /\ \A k \in 1..Len(seq) : k <= Len(seq) - count - PerWindow => seq[k] <= expires - 2 * Window
  /\ Apart(seq)

Sound(ip) ==
  /\ bucket[ip] = NoBucket => served[ip] = << >>
  /\ Orderly(served[ip], Bucket(ip).count, Bucket(ip).expires, now)
LimiterInv == LimiterTypeOK /\ \A ip \in Ips : Sound(ip)

-----------------------------------------------------------------------------
(* PerWindow is positive, and the limit unless that is zero.                *)
LEMMA PerWindowPositive ==
  PerWindow \in Nat /\ PerWindow >= 1 /\ (MaxRequests > 0 => PerWindow = MaxRequests)
BY RateLimiterAssumption DEF PerWindow

(* A bucket that has let nothing through is in order.                       *)
LEMMA NothingServed == ASSUME NEW t \in Nat PROVE Orderly(<< >>, 0, t + Window, t)
BY RateLimiterAssumption, PerWindowPositive DEF Orderly, Apart

(* Time passes.                                                             *)
LEMMA TimePasses ==
  ASSUME NEW seq \in Seq(Nat), NEW count \in Nat, NEW expires \in Nat, NEW t \in Nat,
         Orderly(seq, count, expires, t)
  PROVE  Orderly(seq, count, expires, t + 1)
<1> DEFINE n == Len(seq)
<1>1. \A k \in 1..n : seq[k] \in Nat /\ seq[k] <= t
  BY DEF Orderly
<1>2. \A k \in 1..n : seq[k] <= t + 1
  BY <1>1
<1>3. expires <= t + 1 + Window
  BY RateLimiterAssumption DEF Orderly
<1> QED
  BY <1>2, <1>3 DEF Orderly

(* The window is over and the request opens the next one.                   *)
LEMMA OpensWindow ==
  ASSUME NEW seq \in Seq(Nat), NEW count \in Nat, NEW expires \in Nat, NEW t \in Nat,
         Orderly(seq, count, expires, t), t >= expires
  PROVE  Orderly(Append(seq, t), 1, t + Window, t)
<1> DEFINE new == Append(seq, t)
           n == Len(seq)
<1>1. /\ n \in Nat /\ Len(new) = n + 1 /\ new[n + 1] = t
      /\ \A k \in 1..n : new[k] = seq[k] /\ seq[k] \in Nat
  OBVIOUS
<1>2. /\ count <= PerWindow /\ PerWindow \in Nat /\ PerWindow >= 1 /\ Window \in Nat
  BY PerWindowPositive, RateLimiterAssumption DEF Orderly
<1>3. \A k \in 1..(n + 1) : new[k] <= t
  BY <1>1 DEF Orderly
<1>4. \A k \in 1..n : k <= n - PerWindow => seq[k] <= t - Window
  <2> SUFFICES ASSUME NEW k \in 1..n, k <= n - PerWindow PROVE seq[k] <= t - Window
    OBVIOUS
  <2>1. k <= n - count
    BY <1>1, <1>2
  <2>2. seq[k] <= expires - Window
    BY <2>1 DEF Orderly
  <2> QED
    BY <2>2, <1>1, <1>2
<1>5. \A k \in 1..(n + 1) : k <= n + 1 - 1 - PerWindow => new[k] <= (t + Window) - 2 * Window
  BY <1>1, <1>2, <1>4
<1>6. Apart(new)
  <2> SUFFICES ASSUME NEW i \in 1..(n + 1), NEW j \in 1..(n + 1), j >= i + 2 * PerWindow
               PROVE  new[j] - new[i] >= Window
    BY <1>1 DEF Apart
  <2>1. i \in 1..n /\ i <= n - PerWindow
    BY <1>1, <1>2
  <2>2. CASE j = n + 1
    BY <2>1, <2>2, <1>1, <1>2, <1>4
  <2>3. CASE j \in 1..n
    BY <2>1, <2>3, <1>1 DEF Orderly, Apart
  <2> QED
    BY <2>2, <2>3, <1>1
<1>7. ASSUME NEW k \in 1..(n + 1) PROVE new[k] <= (t + Window) - Window
  <2>1. new[k] \in Nat
    BY <1>1
  <2>2. new[k] <= t
    BY <1>3
  <2> QED
    BY <2>1, <2>2, <1>2
<1>8. 1 <= PerWindow /\ 1 <= Len(new) /\ t + Window <= t + Window
  BY <1>1, <1>2
<1>9. Len(new) = n + 1 /\ n \in Nat /\ PerWindow \in Nat
  BY <1>1, <1>2
<1> HIDE DEF new, n
<1>10. \A k \in 1..Len(new) : new[k] <= t
  BY <1>3, <1>9
<1>11. \A k \in 1..Len(new) : k <= Len(new) - 1 => new[k] <= (t + Window) - Window
  BY <1>7, <1>9
<1>12. \A k \in 1..Len(new) : k <= Len(new) - 1 - PerWindow => new[k] <= (t + Window) - 2 * Window
  BY <1>5, <1>9
<1>13. Orderly(new, 1, t + Window, t)
  <2>1. 1 <= PerWindow /\ 1 <= Len(new)
    BY <1>8
  <2>2. t + Window <= t + Window
    BY <1>8
  <2> QED
    BY <1>6, <2>1, <2>2, <1>10, <1>11, <1>12, Zenon DEF Orderly
<1> QED
  BY <1>13 DEF new

(* There is room in the window.                                             *)
LEMMA JoinsWindow ==
  ASSUME NEW seq \in Seq(Nat), NEW count \in Nat, NEW expires \in Nat, NEW t \in Nat,
         Orderly(seq, count, expires, t), count < MaxRequests
  PROVE  Orderly(Append(seq, t), count + 1, expires, t)
<1> DEFINE new == Append(seq, t)
           n == Len(seq)
<1>1. /\ n \in Nat /\ Len(new) = n + 1 /\ new[n + 1] = t
      /\ \A k \in 1..n : new[k] = seq[k] /\ seq[k] \in Nat
  OBVIOUS
<1>2. /\ count + 1 <= PerWindow /\ PerWindow \in Nat /\ Window \in Nat
      /\ count <= n /\ expires <= t + Window
  BY PerWindowPositive, RateLimiterAssumption DEF Orderly
<1>3. \A k \in 1..(n + 1) : new[k] <= t
  BY <1>1 DEF Orderly
<1>4. \A k \in 1..(n + 1) : k <= n + 1 - (count + 1) => new[k] <= expires - Window
  BY <1>1, <1>2 DEF Orderly
<1>5. \A k \in 1..(n + 1) : k <= n + 1 - (count + 1) - PerWindow => new[k] <= expires - 2 * Window
  BY <1>1, <1>2 DEF Orderly
<1>6. Apart(new)
  <2> SUFFICES ASSUME NEW i \in 1..(n + 1), NEW j \in 1..(n + 1), j >= i + 2 * PerWindow
               PROVE  new[j] - new[i] >= Window
    BY <1>1 DEF Apart
  <2>1. i \in 1..n
    BY <1>1, <1>2
  <2>2. CASE j = n + 1
    <3>1. i <= n - count - PerWindow
      BY <2>2, <1>1, <1>2
    <3>2. seq[i] <= expires - 2 * Window
      BY <3>1, <2>1 DEF Orderly
    <3> QED
      BY <3>2, <2>1, <2>2, <1>1, <1>2
  <2>3. CASE j \in 1..n
    BY <2>1, <2>3, <1>1 DEF Orderly, Apart
  <2> QED
    BY <2>2, <2>3, <1>1
<1> QED
  BY <1>1, <1>2, <1>3, <1>4, <1>5, <1>6 DEF Orderly

-----------------------------------------------------------------------------
(* The entry that a decision works on, new or old.                          *)
LEMMA BucketTyped ==
  ASSUME LimiterTypeOK, NEW ip \in Ips
  PROVE  Bucket(ip) \in [count : Nat, expires : Nat] /\ Bucket(ip) # NoBucket
BY RateLimiterAssumption DEF LimiterTypeOK, Bucket

LEMMA LimiterInvInit == LimiterInit => LimiterInv
<1> SUFFICES ASSUME LimiterInit PROVE LimiterInv
  OBVIOUS
<1>1. LimiterTypeOK
  BY DEF LimiterInit, LimiterTypeOK
<1>2. ASSUME NEW ip \in Ips PROVE Sound(ip)
  BY <1>1, NothingServed DEF LimiterInit, LimiterTypeOK, Sound, Bucket
<1> QED
  BY <1>1, <1>2 DEF LimiterInv

LEMMA LimiterInvNext == LimiterInv /\ [LimiterNext]_<<now, limiter>> => LimiterInv'
<1> SUFFICES ASSUME LimiterInv, [LimiterNext]_<<now, limiter>> PROVE LimiterInv'
  OBVIOUS
<1> USE DEF LimiterInv
<1>1. ASSUME NEW ip \in Ips, Admit(ip), now' = now PROVE LimiterInv'
  <2> DEFINE b == Bucket(ip)
  <2>0. b \in [count : Nat, expires : Nat] /\ now \in Nat /\ served[ip] \in Seq(Nat)
    BY BucketTyped DEF LimiterTypeOK
  <2>1. Orderly(served[ip], b.count, b.expires, now)
    BY DEF Sound
  <2>2. CASE now >= b.expires
    <3>1. bucket'[ip] = [count |-> 1, expires |-> now + Window] /\ bucket'[ip] # NoBucket
      BY <2>2, <1>1, RateLimiterAssumption, <2>0 DEF Admit, LimiterTypeOK
    <3>2. LimiterTypeOK'
      BY <2>2, <1>1, RateLimiterAssumption, <2>0 DEF Admit, LimiterTypeOK
    <3>3. served'[ip] = Append(served[ip], now)
      BY <1>1 DEF Admit, LimiterTypeOK
    <3>4. Orderly(served'[ip], 1, now + Window, now)
      BY <3>3, <2>0, <2>1, <2>2, OpensWindow
    <3>5. Sound(ip)'
      BY <3>1, <3>4, <1>1 DEF Sound, Bucket
    <3>6. ASSUME NEW other \in Ips \ {ip} PROVE Sound(other)'
      BY <1>1 DEF Sound, Bucket, Admit, LimiterTypeOK
    <3> QED
      BY <3>2, <3>5, <3>6
  <2>3. CASE now < b.expires
    <3>1. /\ bucket'[ip] = [count |-> b.count + 1, expires |-> b.expires]
          /\ bucket'[ip] \in [count : Nat, expires : Nat] /\ bucket'[ip] # NoBucket
      BY <2>3, <1>1, RateLimiterAssumption, <2>0, SMTT(30) DEF Admit, LimiterTypeOK
    <3>2. LimiterTypeOK'
      BY <2>3, <1>1, <3>1, RateLimiterAssumption, <2>0 DEF Admit, LimiterTypeOK
    <3>3. served'[ip] = Append(served[ip], now) /\ b.count < MaxRequests
      BY <1>1, <2>3, <2>0 DEF Admit, Allowed, LimiterTypeOK
    <3>4. Orderly(served'[ip], b.count + 1, b.expires, now)
      BY <3>3, <2>0, <2>1, JoinsWindow
    <3>5. Sound(ip)'
      BY <3>1, <3>4, <1>1 DEF Sound, Bucket
    <3>6. ASSUME NEW other \in Ips \ {ip} PROVE Sound(other)'
      BY <1>1 DEF Sound, Bucket, Admit, LimiterTypeOK
    <3> QED
      BY <3>2, <3>5, <3>6
  <2> QED
    BY <2>0, <2>2, <2>3
<1>2. ASSUME NEW ip \in Ips, Refuse(ip), now' = now PROVE LimiterInv'
  <2>1. Bucket(ip) \in [count : Nat, expires : Nat] /\ Bucket(ip) # NoBucket
    BY BucketTyped
  <2>2. LimiterTypeOK' /\ bucket'[ip] = Bucket(ip) /\ served' = served
    BY <1>2, <2>1 DEF Refuse, LimiterTypeOK
  <2>3. Sound(ip)'
    BY <1>2, <2>1, <2>2 DEF Sound, Bucket
  <2>4. ASSUME NEW other \in Ips \ {ip} PROVE Sound(other)'
    BY <1>2, <2>2 DEF Sound, Bucket, Refuse, LimiterTypeOK
  <2> QED
    BY <2>2, <2>3, <2>4
<1>3. ASSUME Elapse, UNCHANGED limiter PROVE LimiterInv'
  <2>1. LimiterTypeOK' /\ now' = now + 1 /\ now \in Nat
    BY <1>3 DEF Elapse, limiter, LimiterTypeOK
  <2>2. ASSUME NEW ip \in Ips PROVE Sound(ip)'
    <3>1. CASE bucket[ip] = NoBucket
      BY <3>1, <2>1, <1>3, NothingServed DEF Sound, Bucket, limiter
    <3>2. CASE bucket[ip] # NoBucket
      <4>1. bucket[ip] \in [count : Nat, expires : Nat] /\ served[ip] \in Seq(Nat)
        BY <3>2 DEF LimiterTypeOK
      <4>2. Orderly(served[ip], bucket[ip].count, bucket[ip].expires, now + 1)
        BY <4>1, <3>2, <2>1, TimePasses DEF Sound, Bucket
      <4> QED
        BY <4>2, <3>2, <2>1, <1>3 DEF Sound, Bucket, limiter
    <3> QED
      BY <3>1, <3>2
  <2> QED
    BY <2>1, <2>2
<1>4. CASE UNCHANGED <<now, limiter>>
  BY <1>4 DEF limiter, LimiterTypeOK, Sound, Bucket
<1> QED
  BY <1>1, <1>2, <1>3, <1>4 DEF LimiterNext

(* A client that asks at the end of one window and at the start of the next *)
(* gets two windows' worth at most: no interval shorter than a window holds *)
(* more than 2 * PerWindow requests that were let through (is_allowed of    *)
(* rate_limit.rs).                                                          *)
THEOREM BurstsBounded == LimiterSpec => []BurstBound
<1>1. LimiterInv => BurstBound
  BY DEF LimiterInv, Sound, Orderly, Apart, BurstBound
<1> QED
  BY <1>1, LimiterInvInit, LimiterInvNext, PTL DEF LimiterSpec

-----------------------------------------------------------------------------
(* Gatekeeper: sessions, what browsers keep of them, and the requests       *)

Session == [user : BOOLEAN, admin : BOOLEAN, token : Nat, last : Nat, used : Nat]

SessionsSound ==
  /\ sessions \in Seq(Session)
  /\ \A s \in Sids : sessions[s].last <= now /\ sessions[s].used <= now /\ sessions[s].token <= 1
  /\ store \subseteq Sids

(* A token a browser has was read from a session that had one, and a        *)
(* session never gets another.                                              *)
Genuine(t) == t = Nothing \/ (t \in Tokens /\ t.nr = 1 /\ sessions[t.sid].token = 1)

BrowsersSound ==
  /\ jar \in [Ips -> [user : {0} \cup Sids, admin : {0} \cup Sids]]
  /\ form = [b \in Ips |-> form[b]]
  /\ \A b \in Ips : Genuine(form[b])

(* What the gates have found out about a request is still so: a session     *)
(* never comes back, keeps its kind, and is not logged out while a request  *)
(* holds it.                                                                *)
RowSound(r) ==
  /\ pc[r] \in Stages /\ verdict[r] \in Verdicts /\ held[r] \in {0} \cup Sids
  /\ out[r] \in [user : {0, Nothing} \cup Sids, admin : {0, Nothing} \cup Sids]
  /\ gone[r] \subseteq Sids \ store
  /\ pc[r] = "idle" => held[r] = 0
  /\ pc[r] # "respond" => verdict[r] = "none"
  /\ pc[r] \notin {"idle", "done"} =>
       /\ req[r].from \in Ips /\ req[r].path \in Paths
       /\ req[r].user \in {0} \cup Sids /\ req[r].admin \in {0} \cup Sids
       /\ Genuine(req[r].token)
       /\ req[r].bearer \in {Nothing} \cup Bearers /\ req[r].came \in Nat /\ req[r].came <= now
  /\ held[r] \notin gone[r]
  /\ pc[r] = "handler" /\ req[r].path = "act" => (held[r] # 0 /\ sessions[held[r]].user) \/ BearsValid(r)
  /\ pc[r] \in BeyondAdmin /\ req[r].path \in Gated =>
       req[r].admin # 0 /\ req[r].admin \notin gone[r] /\ sessions[req[r].admin].admin
  /\ verdict[r] = "forged" => req[r].token = Nothing \/ req[r].token.sid # held[r]
  /\ pc[r] \in {"identify", "handler"} /\ req[r].path = "act" /\ mode.csrf /\ ~ mode.jwt =>
       req[r].token # Nothing /\ req[r].token.sid = held[r]
  /\ pc[r] = "respond" /\ req[r].path = "page" /\ verdict[r] = "passed" /\ held[r] # 0 =>
       sessions[held[r]].token = 1

Tabled ==
  /\ pc = [r \in Requests |-> pc[r]] /\ req = [r \in Requests |-> req[r]]
  /\ held = [r \in Requests |-> held[r]] /\ out = [r \in Requests |-> out[r]]
  /\ verdict = [r \in Requests |-> verdict[r]] /\ gone = [r \in Requests |-> gone[r]]

GateInv ==
  /\ LimiterInv /\ mode \in Modes /\ restarts \in 0..MaxRestarts
  /\ SessionsSound /\ BrowsersSound /\ Tabled
  /\ \A r \in Requests : RowSound(r)

(* What every step does to the sessions: some are made, some go, none       *)
(* changes its kind, loses its user or its token, or comes back.            *)
Grows ==
  /\ SessionsSound' /\ Len(sessions) <= Len(sessions')
  /\ now' = now \/ now' = now + 1
  /\ \A s \in Sids :
       /\ sessions'[s].admin = sessions[s].admin
       /\ sessions[s].user => sessions'[s].user
       /\ sessions[s].token = 1 => sessions'[s].token = 1
  /\ \A s \in store' : s \in store \/ s > Len(sessions)

Same(r) ==
  /\ pc'[r] = pc[r] /\ req'[r] = req[r] /\ held'[r] = held[r] /\ out'[r] = out[r]
  /\ verdict'[r] = verdict[r] /\ gone'[r] = gone[r]

LEMMA GateInit == Init => GateInv
<1> SUFFICES ASSUME Init PROVE GateInv
  OBVIOUS
<1>1. LimiterInv
  BY LimiterInvInit DEF Init
<1>2. mode \in Modes /\ restarts \in 0..MaxRestarts
  BY GatekeeperAssumption DEF Init
<1>3. sessions = << >> /\ store = {} /\ Len(sessions) = 0 /\ Sids = {}
  BY DEF Init, Sids
<1>4. SessionsSound
  BY <1>3 DEF SessionsSound
<1>5. BrowsersSound
  BY <1>3 DEF BrowsersSound, Init, Genuine
<1>6. Tabled
  BY DEF Init, Tabled
<1>7. ASSUME NEW r \in Requests PROVE RowSound(r)
  <2>1. /\ pc[r] = "idle" /\ held[r] = 0 /\ out[r] = NoCookies /\ verdict[r] = "none" /\ gone[r] = {}
    BY DEF Init
  <2> QED
    BY <2>1 DEF RowSound, Stages, Verdicts, NoCookies, BeyondAdmin
<1> QED
  BY <1>1, <1>2, <1>4, <1>5, <1>6, <1>7 DEF GateInv

(* Nothing is lost of a token, a cookie or a request that stays as it is.   *)
LEMMA TokenStays ==
  ASSUME SessionsSound, Grows, NEW t, Genuine(t)
  PROVE  Genuine(t)'
<1>1. CASE t = Nothing
  BY <1>1 DEF Genuine
<1>2. CASE t \in Tokens /\ t.nr = 1 /\ sessions[t.sid].token = 1
  <2>1. t.sid \in Sids /\ Sids \subseteq Sids'
    BY <1>2 DEF Tokens, Sids, Grows, SessionsSound
  <2>2. sessions'[t.sid].token = 1
    BY <1>2, <2>1 DEF Grows
  <2>3. t \in Tokens'
    BY <1>2, <2>1 DEF Tokens
  <2> QED
    BY <1>2, <2>2, <2>3 DEF Genuine
<1> QED
  BY <1>1, <1>2 DEF Genuine

LEMMA BrowsersStay ==
  ASSUME SessionsSound, Grows, BrowsersSound, UNCHANGED <<jar, form>>
  PROVE  BrowsersSound'
<1>1. Sids \subseteq Sids'
  BY DEF Sids, Grows, SessionsSound
<1>2. jar' \in [Ips -> [user : {0} \cup Sids', admin : {0} \cup Sids']]
  <2>1. \A b \in Ips : jar[b] \in [user : {0} \cup Sids', admin : {0} \cup Sids']
    BY <1>1 DEF BrowsersSound
  <2> QED
    BY <2>1 DEF BrowsersSound
<1>3. \A b \in Ips : Genuine(form[b])'
  <2> SUFFICES ASSUME NEW b \in Ips PROVE Genuine(form[b])'
    OBVIOUS
  <2>1. PICK t : t = form[b]
    OBVIOUS
  <2>2. Genuine(t)'
    BY <2>1, TokenStays DEF BrowsersSound
  <2> QED
    BY <2>1, <2>2
<1> QED
  BY <1>2, <1>3 DEF BrowsersSound

LEMMA RowStays ==
  ASSUME SessionsSound, Grows, mode' = mode, now \in Nat, NEW r \in Requests, RowSound(r), Same(r)
  PROVE  RowSound(r)'
<1>1. /\ Sids \subseteq Sids' /\ 0 \notin Sids
      /\ \A s \in Sids : ~ (s > Len(sessions))
  BY DEF Sids, Grows, SessionsSound
<1>2. gone[r] \subseteq Sids' \ store'
  BY <1>1 DEF RowSound, Grows
<1>3. pc[r] \notin {"idle", "done"} => Genuine(req[r].token)'
  <2>1. PICK t : t = req[r].token
    OBVIOUS
  <2>2. Genuine(t) => Genuine(t)'
    BY TokenStays
  <2> QED
    BY <2>1, <2>2 DEF RowSound, Same
<1>4. pc[r] \notin {"idle", "done"} =>
        /\ req[r].from \in Ips /\ req[r].path \in Paths
        /\ req[r].user \in {0} \cup Sids' /\ req[r].admin \in {0} \cup Sids'
        /\ req[r].bearer \in {Nothing} \cup Bearers /\ req[r].came \in Nat /\ req[r].came <= now'
  <2>1. now' = now \/ now' = now + 1
    BY DEF Grows
  <2> QED
    BY <1>1, <2>1 DEF RowSound
<1>5. out[r] \in [user : {0, Nothing} \cup Sids', admin : {0, Nothing} \cup Sids'] /\ held[r] \in {0} \cup Sids'
  BY <1>1 DEF RowSound
<1>6. pc[r] = "handler" /\ req[r].path = "act" =>
        (held[r] # 0 /\ sessions'[held[r]].user) \/ BearsValid(r)'
  BY <1>1 DEF RowSound, Grows, BearsValid, Same
<1>7. pc[r] \in BeyondAdmin /\ req[r].path \in Gated =>
        req[r].admin # 0 /\ req[r].admin \notin gone[r] /\ sessions'[req[r].admin].admin
  BY <1>1 DEF RowSound, Grows, BeyondAdmin
<1>8. pc[r] = "respond" /\ req[r].path = "page" /\ verdict[r] = "passed" /\ held[r] # 0 =>
        sessions'[held[r]].token = 1
  BY <1>1 DEF RowSound, Grows
<1>9. /\ pc[r] \in Stages /\ verdict[r] \in Verdicts
      /\ pc[r] = "idle" => held[r] = 0
      /\ pc[r] # "respond" => verdict[r] = "none"
      /\ held[r] \notin gone[r]
      /\ verdict[r] = "forged" => req[r].token = Nothing \/ req[r].token.sid # held[r]
      /\ pc[r] \in {"identify", "handler"} /\ req[r].path = "act" /\ mode.csrf /\ ~ mode.jwt =>
           req[r].token # Nothing /\ req[r].token.sid = held[r]
  BY DEF RowSound
<1> QED
  BY <1>2, <1>3, <1>4, <1>5, <1>6, <1>7, <1>8, <1>9 DEF RowSound, Same

(* Steps of the session map                                                 *)
LEMMA SessionsStay ==
  ASSUME SessionsSound, now' = now, sessions' = sessions, store' \subseteq store
  PROVE  Grows
<1>1. Len(sessions) \in Nat /\ Sids' = Sids
  BY DEF SessionsSound, Sids
<1>2. SessionsSound'
  BY <1>1 DEF SessionsSound
<1> QED
  BY <1>1, <1>2 DEF Grows

LEMMA TimeGoesOn ==
  ASSUME SessionsSound, now \in Nat, now' = now + 1, UNCHANGED <<sessions, store>>
  PROVE  Grows
<1>1. Len(sessions) \in Nat /\ Sids' = Sids
  BY DEF SessionsSound, Sids
<1>2. \A s \in Sids : sessions[s] \in Session
  BY DEF SessionsSound, Sids
<1>3. \A s \in Sids : sessions[s].last \in Nat /\ sessions[s].used \in Nat
  BY <1>2 DEF Session
<1>4. \A s \in Sids : sessions[s].last <= now + 1 /\ sessions[s].used <= now + 1
  BY <1>3 DEF SessionsSound
<1>5. SessionsSound'
  BY <1>1, <1>4 DEF SessionsSound
<1> QED
  BY <1>1, <1>5 DEF Grows

LEMMA Minted ==
  ASSUME SessionsSound, now \in Nat, now' = now, NEW kind \in BOOLEAN, Mint(kind)
  PROVE  /\ Grows /\ Len(sessions) + 1 \in Sids' /\ Len(sessions) + 1 \notin Sids
         /\ Len(sessions) + 1 \in store'
<1>1. PICK new : new = Fresh(kind)
  OBVIOUS
<1>2. /\ new \in Session /\ new.last = now /\ new.used = now /\ new.token = 0
  BY <1>1 DEF Fresh, Session
<1>3. /\ sessions \in Seq(Session) /\ Len(sessions) \in Nat /\ sessions' = Append(sessions, new)
      /\ store' = store \cup {Len(sessions) + 1}
  BY <1>1 DEF Mint, SessionsSound
<1>4. /\ sessions' \in Seq(Session) /\ Len(sessions') = Len(sessions) + 1
      /\ sessions'[Len(sessions) + 1] = new
      /\ \A k \in 1..Len(sessions) : sessions'[k] = sessions[k]
  BY <1>2, <1>3
<1>5. /\ Sids = 1..Len(sessions) /\ Sids' = 1..Len(sessions')
      /\ \A k \in Sids' : k \in Sids \/ k = Len(sessions) + 1
      /\ Sids \subseteq Sids' /\ Len(sessions) + 1 \in Sids' /\ Len(sessions) + 1 \notin Sids
  BY <1>3, <1>4 DEF Sids
<1>6. \A k \in Sids' : sessions'[k].last <= now /\ sessions'[k].used <= now /\ sessions'[k].token <= 1
  BY <1>2, <1>4, <1>5 DEF SessionsSound
<1>7. SessionsSound'
  BY <1>3, <1>4, <1>5, <1>6 DEF SessionsSound
<1> QED
  BY <1>3, <1>4, <1>5, <1>7 DEF Grows

LEMMA Touched ==
  ASSUME SessionsSound, now' = now, store' \subseteq store, NEW sid \in Sids, NEW new \in Session,
         sessions' = [sessions EXCEPT ![sid] = new],
         new.admin = sessions[sid].admin, sessions[sid].user => new.user,
         new.token <= 1, sessions[sid].token = 1 => new.token = 1,
         new.last <= now, new.used <= now
  PROVE  Grows /\ sessions'[sid] = new
<1>1. /\ sessions \in Seq(Session) /\ Len(sessions) \in Nat /\ Sids = 1..Len(sessions)
  BY DEF SessionsSound, Sids
<1>2. /\ sessions' \in Seq(Session) /\ Len(sessions') = Len(sessions) /\ sessions'[sid] = new
      /\ \A k \in Sids : k # sid => sessions'[k] = sessions[k]
  BY <1>1
<1>3. Sids' = Sids
  BY <1>1, <1>2 DEF Sids
<1>4. SessionsSound'
  BY <1>2, <1>3 DEF SessionsSound
<1> QED
  BY <1>1, <1>2, <1>3, <1>4 DEF Grows

(* A token is made for the session of a request, unless it has one.         *)
LEMMA Seeded ==
  ASSUME SessionsSound, now' = now, store' = store, NEW sid,
         sessions' = [s \in Sids |-> IF s = sid THEN WithToken(sessions[s]) ELSE sessions[s]]
  PROVE  Grows /\ (sid \in Sids => sessions'[sid].token = 1)
<1>1. /\ sessions \in Seq(Session) /\ Len(sessions) \in Nat /\ Sids = 1..Len(sessions)
      /\ \A s \in Sids : sessions[s] \in Session
  BY DEF SessionsSound, Sids
<1>2. \A s \in Sids : LET t == WithToken(sessions[s]) IN
        /\ t \in Session /\ t.admin = sessions[s].admin /\ t.user = sessions[s].user
        /\ t.token = 1 /\ t.last = sessions[s].last /\ t.used = sessions[s].used
  <2>1. \A s \in Session : LET t == WithToken(s) IN
          /\ t \in Session /\ t.admin = s.admin /\ t.user = s.user
          /\ s.token <= 1 => t.token = 1
          /\ t.last = s.last /\ t.used = s.used
    BY DEF WithToken, Session
  <2>2. \A s \in Sids : sessions[s].token <= 1
    BY DEF SessionsSound
  <2> QED
    BY <1>1, <2>1, <2>2
<1>3. /\ \A s \in Sids : sessions'[s] \in Session
      /\ sessions' \in Seq(Session) /\ Len(sessions') = Len(sessions)
  BY <1>1, <1>2
<1>4. \A s \in Sids :
        /\ sessions'[s].admin = sessions[s].admin /\ sessions'[s].user = sessions[s].user
        /\ sessions'[s].token = sessions[s].token \/ sessions'[s].token = 1
        /\ sessions'[s].last = sessions[s].last /\ sessions'[s].used = sessions[s].used
        /\ s = sid => sessions'[s].token = 1
  BY <1>2
<1>5. Sids' = Sids
  BY <1>1, <1>3 DEF Sids
<1>6. SessionsSound'
  <2>1. \A s \in Sids : sessions'[s].last <= now /\ sessions'[s].used <= now /\ sessions'[s].token <= 1
    <3>1. \A s \in Sids : sessions[s].last <= now /\ sessions[s].used <= now /\ sessions[s].token <= 1
      BY DEF SessionsSound
    <3> QED
      BY <1>4, <3>1
  <2> QED
    BY <1>3, <1>5, <2>1 DEF SessionsSound
<1> QED
  BY <1>1, <1>3, <1>4, <1>5, <1>6 DEF Grows

(* A step of one request                                                    *)
LEMMA OneRow ==
  ASSUME GateInv, Grows, NEW r \in Requests, mode' = mode, restarts' = restarts,
         LimiterInv', BrowsersSound', Tabled', RowSound(r)',
         \A q \in Requests : q # r => Same(q)
  PROVE  GateInv'
<1>1. SessionsSound /\ now \in Nat /\ \A q \in Requests : RowSound(q)
  BY DEF GateInv, LimiterInv, LimiterTypeOK
<1>2. \A q \in Requests : RowSound(q)'
  BY <1>1, RowStays
<1> QED
  BY <1>2 DEF GateInv, Grows

(* In the chain a request keeps what it asked for.                          *)
LEMMA RowProceeds ==
  ASSUME SessionsSound, Grows, mode' = mode, now \in Nat, NEW r \in Requests, RowSound(r),
         pc[r] \notin {"idle", "done"}, req'[r] = req[r], gone'[r] = gone[r],
         pc'[r] \in Stages \ {"idle"}, verdict'[r] \in Verdicts, pc'[r] # "respond" => verdict'[r] = "none",
         held'[r] \in {0} \cup Sids',
         out'[r] \in [user : {0, Nothing} \cup Sids', admin : {0, Nothing} \cup Sids'],
         held'[r] \notin gone[r],
         pc'[r] = "handler" /\ req[r].path = "act" =>
           (held'[r] # 0 /\ sessions'[held'[r]].user) \/ BearsValid(r),
         pc'[r] \in BeyondAdmin /\ req[r].path \in Gated =>
           \/ pc[r] \in BeyondAdmin
           \/ req[r].admin \in store /\ sessions[req[r].admin].admin,
         verdict'[r] = "forged" => req[r].token = Nothing \/ req[r].token.sid # held'[r],
         pc'[r] \in {"identify", "handler"} /\ req[r].path = "act" /\ mode.csrf /\ ~ mode.jwt =>
           req[r].token # Nothing /\ req[r].token.sid = held'[r],
         pc'[r] = "respond" /\ req[r].path = "page" /\ verdict'[r] = "passed" /\ held'[r] # 0 =>
           sessions'[held'[r]].token = 1
  PROVE  RowSound(r)'
<1>1. /\ Sids \subseteq Sids' /\ 0 \notin Sids /\ store \subseteq Sids
      /\ \A s \in Sids : ~ (s > Len(sessions))
  BY DEF Sids, Grows, SessionsSound
<1>2. gone'[r] \subseteq Sids' \ store'
  BY <1>1 DEF RowSound, Grows
<1>3. Genuine(req[r].token)'
  <2>1. PICK t : t = req[r].token
    OBVIOUS
  <2>2. Genuine(t)
    BY <2>1 DEF RowSound
  <2>3. Genuine(t)'
    BY <2>2, TokenStays
  <2> QED
    BY <2>1, <2>3
<1>4. /\ req[r].from \in Ips /\ req[r].path \in Paths
      /\ req[r].user \in {0} \cup Sids' /\ req[r].admin \in {0} \cup Sids'
      /\ req[r].bearer \in {Nothing} \cup Bearers /\ req[r].came \in Nat /\ req[r].came <= now'
  <2>1. now' = now \/ now' = now + 1
    BY DEF Grows
  <2> QED
    BY <1>1, <2>1 DEF RowSound
<1>5. pc'[r] \in BeyondAdmin /\ req[r].path \in Gated =>
        req[r].admin # 0 /\ req[r].admin \notin gone[r] /\ sessions'[req[r].admin].admin
  <2>1. pc[r] \in BeyondAdmin /\ req[r].path \in Gated =>
          req[r].admin \in Sids /\ req[r].admin \notin gone[r] /\ sessions[req[r].admin].admin
    BY DEF RowSound, BeyondAdmin
  <2>2. req[r].admin \in store => req[r].admin \in Sids /\ req[r].admin \notin gone[r]
    BY <1>1 DEF RowSound
  <2> QED
    BY <1>1, <2>1, <2>2 DEF Grows
<1>6. BearsValid(r) => BearsValid(r)'
  BY DEF BearsValid
<1> QED
  BY <1>2, <1>3, <1>4, <1>5, <1>6 DEF RowSound

LEMMA RowForgets ==
  ASSUME SessionsSound, Grows, NEW r \in Requests, pc'[r] \in {"idle", "done"}, held'[r] = 0,
         out'[r] = NoCookies, verdict'[r] = "none", gone'[r] = {}
  PROVE  RowSound(r)'
<1>1. NoCookies \in [user : {0, Nothing} \cup Sids', admin : {0, Nothing} \cup Sids']
  BY DEF NoCookies
<1> QED
  BY <1>1 DEF RowSound, Stages, Verdicts, BeyondAdmin

(* The limiter at its gate.                                                 *)
LEMMA LimiterStays ==
  ASSUME LimiterInv, UNCHANGED <<now, limiter>>
  PROVE  LimiterInv'
BY LimiterInvNext

(* A request that changes nothing but its own row.                          *)
LEMMA RowOnly ==
  ASSUME GateInv, NEW r \in Requests, NEW what \in Verdicts, NEW stage \in Stages \ {"idle"},
         pc[r] \notin {"idle", "done", "respond"},
         pc' = [pc EXCEPT ![r] = stage], verdict' = [verdict EXCEPT ![r] = what],
         UNCHANGED <<mode, sessions, store, jar, form, req, held, out, restarts, gone>>,
         LimiterInv', now' = now,
         stage # "respond" => what = "none",
         stage = "handler" => pc[r] = "identify" \/ req[r].path # "act",
         stage = "handler" /\ req[r].path = "act" =>
           (held[r] # 0 /\ sessions[held[r]].user) \/ BearsValid(r),
         stage \in BeyondAdmin /\ req[r].path \in Gated =>
           \/ pc[r] \in BeyondAdmin
           \/ req[r].admin \in store /\ sessions[req[r].admin].admin,
         what = "forged" => req[r].token = Nothing \/ req[r].token.sid # held[r],
         stage = "identify" /\ req[r].path = "act" /\ mode.csrf /\ ~ mode.jwt =>
           req[r].token # Nothing /\ req[r].token.sid = held[r],
         ~ (stage = "respond" /\ req[r].path = "page" /\ what = "passed")
  PROVE  GateInv'
<1>1. SessionsSound /\ BrowsersSound /\ Tabled /\ RowSound(r) /\ now \in Nat
  BY DEF GateInv, LimiterInv, LimiterTypeOK
<1>2. Grows
  BY <1>1, SessionsStay
<1>3. BrowsersSound'
  BY <1>1, <1>2, BrowsersStay
<1>4. Tabled'
  BY <1>1 DEF Tabled
<1>5. \A q \in Requests : q # r => Same(q)
  BY DEF Same
<1>6. /\ pc'[r] = stage /\ verdict'[r] = what /\ held'[r] = held[r] /\ out'[r] = out[r]
      /\ req'[r] = req[r] /\ gone'[r] = gone[r]
  BY <1>1 DEF Tabled
<1>7. /\ held[r] \in {0} \cup Sids' /\ Sids' = Sids
      /\ out[r] \in [user : {0, Nothing} \cup Sids', admin : {0, Nothing} \cup Sids']
      /\ held[r] \notin gone[r]
      /\ pc[r] = "identify" /\ req[r].path = "act" /\ mode.csrf /\ ~ mode.jwt =>
           req[r].token # Nothing /\ req[r].token.sid = held[r]
  BY <1>1 DEF RowSound, Sids
<1>8. RowSound(r)'
  BY <1>1, <1>2, <1>6, <1>7, RowProceeds
<1> QED
  BY <1>2, <1>3, <1>4, <1>5, <1>8, OneRow

LEMMA InChain ==
  ASSUME GateInv, NEW r \in Requests, LimiterInv',
         \/ AdminGate(r) \/ Limit(r) \/ Guard(r) \/ Identify(r) \/ AdminPage(r)
  PROVE  GateInv'
<1> USE DEF Proceed, Goto, Answer, Stages, Verdicts, BeyondAdmin
<1>1. RowSound(r) /\ SessionsSound /\ verdict = [verdict EXCEPT ![r] = verdict[r]]
  BY DEF GateInv, Tabled
<1> DEFINE onWay == pc[r] # "respond" => verdict = [verdict EXCEPT ![r] = "none"]
<1>0. onWay
  BY <1>1 DEF RowSound
<1>2. CASE AdminGate(r)
  <2>1. CASE Answer(r, "notAdmin")
    BY <1>2, <2>1, RowOnly DEF AdminGate
  <2>2. CASE req[r].admin \in store /\ sessions[req[r].admin].admin /\ Proceed(r, "limit")
    BY <1>0, <1>1, <1>2, <2>2, RowOnly DEF AdminGate
  <2> QED
    BY <1>2, <2>1, <2>2 DEF AdminGate
<1>3. CASE Limit(r)
  <2>1. CASE Answer(r, "blocked") \/ Answer(r, "limited")
    BY <1>3, <2>1, RowOnly DEF Limit
  <2>2. CASE Proceed(r, "auth")
    BY <1>0, <1>1, <1>3, <2>2, RowOnly DEF Limit
  <2> QED
    BY <1>3, <2>1, <2>2 DEF Limit
<1>4. CASE Guard(r)
  <2>1. CASE req[r].token # Nothing /\ req[r].token.sid = held[r] /\ Proceed(r, "identify")
    BY <1>0, <1>1, <1>4, <2>1, RowOnly DEF Guard
  <2>2. CASE ~ (req[r].token # Nothing /\ req[r].token.sid = held[r] /\ req[r].token.nr = sessions[held[r]].token)
             /\ Answer(r, "forged")
    <3>1. req[r].token = Nothing \/ req[r].token.sid # held[r]
      BY <1>1, <1>4, <2>2 DEF Guard, RowSound, Genuine
    <3> QED
      BY <1>4, <2>2, <3>1, RowOnly DEF Guard
  <2> QED
    BY <1>4, <2>1, <2>2 DEF Guard
<1>5. CASE Identify(r)
  <2>1. CASE Answer(r, "refused")
    BY <1>5, <2>1, RowOnly DEF Identify
  <2>2. CASE /\ (held[r] # 0 /\ sessions[held[r]].user) \/ (mode.jwt /\ req[r].bearer # Nothing /\ req[r].bearer >= now)
             /\ Proceed(r, "handler")
    <3>1. req[r].came \in Nat /\ req[r].came <= now /\ req[r].bearer \in {Nothing} \cup Bearers /\ now \in Nat
      BY <1>1, <1>5 DEF Identify, RowSound, GateInv, LimiterInv, LimiterTypeOK
    <3>2. (held[r] # 0 /\ sessions[held[r]].user) \/ BearsValid(r)
      <4>1. PICK c \in Nat, t \in Nat, b \in {Nothing} \cup Nat :
              c = req[r].came /\ t = now /\ b = req[r].bearer
        BY <3>1, GatekeeperAssumption
      <4>2. c <= t /\ (b # Nothing /\ b >= t => b >= c)
        BY <3>1, <4>1
      <4> QED
        BY <2>2, <4>1, <4>2 DEF BearsValid
    <3> QED
      BY <1>0, <1>1, <1>5, <2>2, <3>2, RowOnly DEF Identify
  <2> QED
    BY <1>5, <2>1, <2>2 DEF Identify
<1>6. CASE AdminPage(r)
  BY <1>6, RowOnly DEF AdminPage, Handler
<1> QED
  BY <1>2, <1>3, <1>4, <1>5, <1>6

(* AuthMiddleware looks for the session, or makes one.                      *)
LEMMA InAuth ==
  ASSUME GateInv, NEW r \in Requests, Logout(r) \/ Find(r) \/ Miss(r)
  PROVE  GateInv'
<1> USE DEF Stages, Verdicts
<1>1. /\ SessionsSound /\ BrowsersSound /\ Tabled /\ RowSound(r) /\ LimiterInv /\ now \in Nat
  BY DEF GateInv, LimiterInv, LimiterTypeOK
<1>2. /\ pc[r] = "auth" /\ UNCHANGED <<now, limiter, mode, jar, form, req, restarts, gone>>
      /\ r \in Requests
  BY DEF Logout, Find, Miss
<1>3. LimiterInv'
  BY <1>1, <1>2, LimiterStays
<1>4. Tabled' /\ \A q \in Requests : q # r => Same(q)
  BY <1>1 DEF Tabled, Same, Logout, Find, Miss, SetUser, Goto, Answer, Proceed
<1>5. /\ held[r] \in {0} \cup Sids /\ held[r] \notin gone[r] /\ gone[r] \subseteq Sids /\ gone[r] \cap store = {}
      /\ out[r] \in [user : {0, Nothing} \cup Sids, admin : {0, Nothing} \cup Sids]
      /\ verdict[r] \in Verdicts
      /\ req'[r] = req[r] /\ gone'[r] = gone[r] /\ 0 \notin Sids /\ store \subseteq Sids
  BY <1>1, <1>2 DEF RowSound, SessionsSound, Sids
<1>6. CASE Logout(r)
  <2>1. Grows
    BY <1>1, <1>2, <1>6, SessionsStay DEF Logout
  <2>2. BrowsersSound' /\ Sids' = Sids
    BY <1>1, <1>2, <1>6, <2>1, BrowsersStay DEF Logout, Sids
  <2>3. /\ pc'[r] = "respond" /\ verdict'[r] = "loggedOut" /\ held'[r] = held[r]
        /\ out'[r] = [out[r] EXCEPT !.user = 0]
    BY <1>1, <1>6 DEF Logout, Tabled, SetUser, Answer, Goto
  <2>4. out'[r] \in [user : {0, Nothing} \cup Sids', admin : {0, Nothing} \cup Sids']
    BY <1>5, <2>2, <2>3
  <2>5. RowSound(r)'
    BY <1>1, <1>2, <1>5, <2>1, <2>2, <2>3, <2>4, RowProceeds DEF BeyondAdmin
  <2> QED
    BY <1>2, <1>3, <1>4, <2>1, <2>2, <2>5, OneRow
<1>7. ASSUME Find(r) PROVE GateInv'
  <2> DEFINE sid == req[r].user
             new == [sessions[sid] EXCEPT !.used = now]
  <2>1. sid \in store /\ sid \in Sids /\ sessions[sid] \in Session /\ sessions[sid].last <= now /\ sessions[sid].token <= 1
    BY <1>1, <1>5, <1>7 DEF Find, SessionsSound, Sids
  <2>2. /\ new \in Session /\ new.admin = sessions[sid].admin /\ new.user = sessions[sid].user
        /\ new.token = sessions[sid].token /\ new.last = sessions[sid].last /\ new.used = now
        /\ now <= now
    BY <1>1, <2>1 DEF Session
  <2>3. sessions' = [sessions EXCEPT ![sid] = new] /\ store' \subseteq store
    BY <1>7 DEF Find
  <2>4. Grows
    <3> HIDE DEF new, sid
    <3> QED
      BY <1>1, <1>2, <2>1, <2>2, <2>3, Touched
  <2>5. BrowsersSound' /\ Sids \subseteq Sids'
    BY <1>1, <1>2, <2>4, BrowsersStay, SMTT(30) DEF Sids, Grows, SessionsSound
  <2>6. /\ pc'[r] = (IF req[r].path \in Public THEN "handler" ELSE "seed")
        /\ verdict'[r] = verdict[r] /\ held'[r] = sid /\ out'[r] = out[r]
    BY <1>1, <1>7 DEF Find, Tabled, Proceed, Goto
  <2>7. /\ held'[r] \in {0} \cup Sids' /\ held'[r] \notin gone[r]
        /\ out'[r] \in [user : {0, Nothing} \cup Sids', admin : {0, Nothing} \cup Sids']
        /\ req[r].path = "act" => pc'[r] = "seed"
        /\ verdict[r] = "none"
    BY <1>1, <1>2, <1>5, <2>1, <2>5, <2>6 DEF Public, AdminPaths, RowSound
  <2>8. RowSound(r)'
    BY <1>1, <1>2, <1>5, <2>4, <2>6, <2>7, RowProceeds DEF BeyondAdmin
  <2> QED
    BY <1>2, <1>3, <1>4, <2>4, <2>5, <2>8, OneRow
<1>8. ASSUME Miss(r) PROVE GateInv'
  <2> DEFINE private == req[r].path \notin Public
             fresh == Len(sessions) + 1
  <2>1. /\ Grows
        /\ held'[r] \in {0} \cup Sids' /\ held'[r] \notin gone[r]
        /\ out'[r] \in [user : {0, Nothing} \cup Sids', admin : {0, Nothing} \cup Sids']
    <3>1. CASE mode.jwt
      <4>1. UNCHANGED <<sessions, store, held>> /\ \E c \in {0, Nothing} : out' = [out EXCEPT ![r].user = c]
        BY <1>8, <3>1 DEF Miss, SetUser
      <4>2. Grows /\ Sids' = Sids
        BY <1>1, <1>2, <4>1, SessionsStay DEF Sids
      <4>3. \E c \in {0, Nothing} : out'[r] = [out[r] EXCEPT !.user = c]
        BY <1>1, <4>1 DEF Tabled
      <4> QED
        BY <1>5, <4>1, <4>2, <4>3
    <3>2. CASE ~ mode.jwt
      <4>1. /\ Mint(FALSE) /\ held' = [held EXCEPT ![r] = fresh]
            /\ \E c \in {0, fresh} : out' = [out EXCEPT ![r].user = c]
        BY <1>8, <3>2 DEF Miss, SetUser
      <4>2. Grows /\ fresh \in Sids' /\ fresh \notin Sids /\ Sids \subseteq Sids'
        <5>1. Grows /\ fresh \in Sids' /\ fresh \notin Sids
          BY <1>1, <1>2, <4>1, Minted
        <5> QED
          BY <1>1, <5>1 DEF Sids, Grows, SessionsSound
      <4>3. held'[r] = fresh /\ \E c \in {0, fresh} : out'[r] = [out[r] EXCEPT !.user = c]
        BY <1>1, <4>1 DEF Tabled
      <4> HIDE DEF fresh
      <4>4. held'[r] \in {0} \cup Sids' /\ held'[r] \notin gone[r]
        BY <1>5, <4>2, <4>3
      <4>5. out'[r] \in [user : {0, Nothing} \cup Sids', admin : {0, Nothing} \cup Sids']
        BY <1>5, <4>2, <4>3
      <4> QED
        BY <4>2, <4>4, <4>5
    <3> QED
      BY <3>1, <3>2
  <2>2. BrowsersSound'
    BY <1>1, <1>2, <2>1, BrowsersStay
  <2>3. /\ pc'[r] = (IF private THEN "seed" ELSE "handler") /\ verdict'[r] = verdict[r]
        /\ verdict[r] = "none" /\ (req[r].path = "act" => private)
    BY <1>1, <1>2, <1>8 DEF Miss, Tabled, Proceed, Goto, RowSound, Public, AdminPaths
  <2>4. RowSound(r)'
    <3> HIDE DEF private
    <3> QED
      BY <1>1, <1>2, <1>5, <2>1, <2>3, RowProceeds DEF BeyondAdmin
  <2> QED
    BY <1>2, <1>3, <1>4, <2>1, <2>2, <2>4, OneRow
<1> QED
  BY <1>6, <1>7, <1>8

(* A handler, or the seed of a token, works on the session.                 *)
LEMMA InHandler ==
  ASSUME GateInv, NEW r \in Requests,
         Seed(r) \/ Page(r) \/ Login(r) \/ Act(r) \/ AdminLogin(r) \/ AdminLogout(r)
  PROVE  GateInv'
<1> USE DEF Stages, Verdicts
<1>1. /\ SessionsSound /\ BrowsersSound /\ Tabled /\ RowSound(r) /\ LimiterInv /\ now \in Nat
  BY DEF GateInv, LimiterInv, LimiterTypeOK
<1>2. /\ pc[r] \in {"seed", "handler"} /\ UNCHANGED <<now, limiter, mode, jar, form, req, held, restarts, gone>>
  BY DEF Seed, Page, Login, Act, AdminLogin, AdminLogout, Handler
<1>3. LimiterInv'
  BY <1>1, <1>2, LimiterStays
<1>4. Tabled' /\ \A q \in Requests : q # r => Same(q)
  BY <1>1 DEF Tabled, Same, Seed, Page, Login, Act, AdminLogin, AdminLogout, Handler, Goto, Answer, Proceed
<1>5. /\ held[r] \in {0} \cup Sids /\ held[r] \notin gone[r] /\ verdict[r] = "none"
      /\ out[r] \in [user : {0, Nothing} \cup Sids, admin : {0, Nothing} \cup Sids]
      /\ req[r].admin \in {0} \cup Sids
      /\ req'[r] = req[r] /\ gone'[r] = gone[r] /\ held'[r] = held[r]
  BY <1>1, <1>2 DEF RowSound
(* Where such a step leaves the request.                                    *)
<1>6. ASSUME Grows, out'[r] \in [user : {0, Nothing} \cup Sids', admin : {0, Nothing} \cup Sids'],
             \/ pc'[r] \in {"guard", "identify"} /\ verdict'[r] = "none"
             \/ pc'[r] = "respond" /\ verdict'[r] = "passed",
             pc'[r] = "identify" => ~ mode.csrf \/ mode.jwt,
             pc'[r] = "respond" /\ req[r].path = "page" /\ held[r] # 0 => sessions'[held[r]].token = 1
      PROVE  GateInv'
  <2>1. BrowsersSound'
    BY <1>1, <1>2, <1>6, BrowsersStay
  <2>2. held'[r] \in {0} \cup Sids' /\ held'[r] \notin gone[r]
    BY <1>1, <1>5, <1>6 DEF Sids, Grows, SessionsSound
  <2>3. RowSound(r)'
    BY <1>1, <1>2, <1>5, <1>6, <2>2, RowProceeds DEF BeyondAdmin
  <2> QED
    BY <1>2, <1>3, <1>4, <1>6, <2>1, <2>3, OneRow
<1>7. ASSUME Grows PROVE out[r] \in [user : {0, Nothing} \cup Sids', admin : {0, Nothing} \cup Sids']
  <2>1. Sids \subseteq Sids'
    BY <1>1, <1>7 DEF Sids, Grows, SessionsSound
  <2> QED
    BY <1>5, <2>1
<1>8. CASE Seed(r)
  <2>1. Grows
    BY <1>1, <1>2, <1>8, Seeded DEF Seed
  <2>2. /\ pc'[r] = (IF mode.csrf /\ ~ mode.jwt THEN "guard" ELSE "identify")
        /\ verdict'[r] = "none" /\ out'[r] = out[r]
    BY <1>1, <1>5, <1>8 DEF Seed, Proceed, Goto, Tabled
  <2> QED
    BY <1>6, <1>7, <2>1, <2>2
<1>9. CASE Page(r) \/ Login(r) \/ Act(r) \/ AdminLogin(r) \/ AdminLogout(r)
  <2>1. pc'[r] = "respond" /\ verdict'[r] = "passed"
    BY <1>1, <1>9 DEF Page, Login, Act, AdminLogin, AdminLogout, Handler, Answer, Goto, Tabled
  <2>2. CASE Page(r)
    <3>1. Grows /\ (held[r] \in Sids => sessions'[held[r]].token = 1)
      BY <1>1, <1>2, <2>2, Seeded DEF Page
    <3>2. out'[r] = out[r]
      BY <2>2 DEF Page
    <3> QED
      BY <1>5, <1>6, <1>7, <2>1, <3>1, <3>2
  <2>3. CASE Login(r)
    <3>1. Grows
      <4>1. CASE UNCHANGED sessions
        BY <1>1, <1>2, <2>3, <4>1, SessionsStay DEF Login
      <4>2. CASE held[r] # 0 /\ sessions' = [sessions EXCEPT ![held[r]].user = TRUE]
        <5> DEFINE sid == held[r]
                   new == [sessions[sid] EXCEPT !.user = TRUE]
        <5>1. sid \in Sids /\ sessions[sid] \in Session /\ sessions[sid].last <= now
              /\ sessions[sid].used <= now /\ sessions[sid].token <= 1
          BY <1>1, <1>5, <4>2 DEF SessionsSound, Sids
        <5>2. /\ new \in Session /\ new.admin = sessions[sid].admin /\ new.user
              /\ new.token = sessions[sid].token /\ new.last = sessions[sid].last /\ new.used = sessions[sid].used
          BY <5>1 DEF Session
        <5>3. sessions' = [sessions EXCEPT ![sid] = new] /\ store' \subseteq store
          BY <2>3, <4>2 DEF Login
        <5> HIDE DEF new, sid
        <5> QED
          BY <1>2, <1>1, <5>1, <5>2, <5>3, Touched
      <4> QED
        BY <2>3, <4>1, <4>2 DEF Login
    <3>2. out'[r] = out[r] /\ req[r].path = "login"
      BY <2>3 DEF Login, Handler
    <3> QED
      BY <1>6, <1>7, <2>1, <3>1, <3>2
  <2>4. CASE Act(r)
    <3>1. Grows
      <4>1. CASE UNCHANGED <<sessions, store>>
        BY <1>1, <1>2, <4>1, SessionsStay
      <4>2. CASE /\ req[r].user \in store
                 /\ sessions' = [sessions EXCEPT ![req[r].user].last = now]
                 /\ UNCHANGED store
        <5> DEFINE sid == req[r].user
                   new == [sessions[sid] EXCEPT !.last = now]
        <5>1. sid \in Sids /\ sessions[sid] \in Session
              /\ sessions[sid].used <= now /\ sessions[sid].token <= 1
          BY <1>1, <4>2 DEF SessionsSound, Sids
        <5>2. /\ new \in Session /\ new.admin = sessions[sid].admin /\ new.user = sessions[sid].user
              /\ new.token = sessions[sid].token /\ new.last = now /\ new.used = sessions[sid].used
              /\ now <= now
          BY <1>1, <5>1 DEF Session
        <5>3. sessions' = [sessions EXCEPT ![sid] = new] /\ store' \subseteq store
          BY <4>2
        <5> HIDE DEF new, sid
        <5> QED
          BY <1>2, <1>1, <5>1, <5>2, <5>3, Touched
      <4>3. CASE Mint(FALSE)
        BY <1>1, <1>2, <4>3, Minted
      <4> QED
        BY <2>4, <4>1, <4>2, <4>3 DEF Act
    <3>2. out'[r] = out[r] /\ req[r].path = "act"
      BY <2>4 DEF Act, Handler
    <3> QED
      BY <1>6, <1>7, <2>1, <3>1, <3>2
  <2>5. CASE AdminLogin(r)
    <3>1. req[r].path = "adminLogin"
      BY <2>5 DEF AdminLogin, Handler
    <3>2. CASE UNCHANGED <<sessions, store, out>>
      <4>1. Grows
        BY <1>1, <1>2, <3>2, SessionsStay
      <4> QED
        BY <1>6, <1>7, <2>1, <3>1, <3>2, <4>1
    <3>3. CASE Mint(TRUE) /\ out' = [out EXCEPT ![r].admin = Len(sessions) + 1]
      <4>1. Grows /\ Len(sessions) + 1 \in Sids'
        BY <1>1, <1>2, <3>3, Minted
      <4>2. out'[r] = [out[r] EXCEPT !.admin = Len(sessions) + 1]
        BY <1>1, <3>3 DEF Tabled
      <4>3. out'[r] \in [user : {0, Nothing} \cup Sids', admin : {0, Nothing} \cup Sids']
        <5>1. PICK fresh : fresh = Len(sessions) + 1
          OBVIOUS
        <5>2. fresh \in Sids' /\ out'[r] = [out[r] EXCEPT !.admin = fresh]
          BY <4>1, <4>2, <5>1
        <5> QED
          BY <1>7, <4>1, <5>2
      <4> QED
        BY <1>6, <2>1, <3>1, <4>1, <4>3
    <3> QED
      BY <2>5, <3>2, <3>3 DEF AdminLogin
  <2>6. CASE AdminLogout(r)
    <3>1. Grows /\ req[r].path = "adminLogout"
      BY <1>1, <1>2, <2>6, SessionsStay DEF AdminLogout, Handler
    <3>2. out'[r] = [out[r] EXCEPT !.admin = 0]
      BY <1>1, <2>6 DEF Tabled, AdminLogout
    <3>3. out'[r] \in [user : {0, Nothing} \cup Sids', admin : {0, Nothing} \cup Sids']
      BY <1>7, <3>1, <3>2
    <3> QED
      BY <1>6, <2>1, <3>1, <3>3
  <2> QED
    BY <1>9, <2>2, <2>3, <2>4, <2>5, <2>6
<1> QED
  BY <1>8, <1>9

LEMMA InArrive ==
  ASSUME GateInv, NEW r \in Requests, NEW b \in Ips, NEW path \in Paths,
         NEW bearer \in {Nothing} \cup Bearers, Arrive(r, b, path, bearer)
  PROVE  GateInv'
<1>1. /\ SessionsSound /\ BrowsersSound /\ Tabled /\ RowSound(r) /\ LimiterInv /\ now \in Nat
  BY DEF GateInv, LimiterInv, LimiterTypeOK
<1>2. /\ pc[r] = "idle"
      /\ UNCHANGED <<now, limiter, mode, sessions, store, jar, form, held, out, verdict, restarts>>
      /\ LimiterInv'
  BY <1>1, LimiterStays DEF Arrive
<1>3. Grows /\ Sids' = Sids
  BY <1>1, <1>2, SessionsStay DEF Sids
<1>4. BrowsersSound'
  BY <1>1, <1>2, <1>3, BrowsersStay
<1>5. Tabled' /\ \A q \in Requests : q # r => Same(q)
  BY <1>1 DEF Tabled, Same, Arrive, Goto
<1>6. PICK ask : ask = [from |-> b, path |-> path, bearer |-> bearer, token |-> form[b],
                        user |-> jar[b].user, admin |-> jar[b].admin, came |-> now]
  OBVIOUS
<1>7. /\ pc'[r] = (IF path \in Gated THEN "admin" ELSE "limit") /\ req'[r] = ask
      /\ held'[r] = held[r] /\ out'[r] = out[r] /\ verdict'[r] = verdict[r] /\ gone'[r] = Sids \ store
  BY <1>1, <1>6 DEF Arrive, Goto, Tabled
<1>8. /\ ask.from \in Ips /\ ask.path \in Paths /\ ask.user \in {0} \cup Sids /\ ask.admin \in {0} \cup Sids
      /\ Genuine(ask.token) /\ ask.bearer \in {Nothing} \cup Bearers
      /\ ask.came \in Nat /\ ask.came <= now'
  BY <1>1, <1>2, <1>6 DEF BrowsersSound
<1>9. Genuine(ask.token)'
  <2>1. PICK t : t = ask.token
    OBVIOUS
  <2> QED
    BY <1>1, <1>3, <1>8, <2>1, TokenStays
<1>10. /\ held[r] = 0 /\ verdict[r] = "none" /\ 0 \notin Sids
       /\ out[r] \in [user : {0, Nothing} \cup Sids', admin : {0, Nothing} \cup Sids']
  BY <1>1, <1>2, <1>3 DEF RowSound, Sids
<1>11. RowSound(r)'
  <2>1. pc'[r] \in {"admin", "limit"} /\ (pc'[r] = "limit" => ask.path \notin Gated)
    BY <1>6, <1>7
  <2>2. gone'[r] \subseteq Sids' \ store'
    BY <1>2, <1>3, <1>7
  <2> QED
    BY <1>2, <1>3, <1>7, <1>8, <1>9, <1>10, <2>1, <2>2 DEF RowSound, Stages, Verdicts, BeyondAdmin
<1> QED
  BY <1>2, <1>3, <1>4, <1>5, <1>11, OneRow

LEMMA InLeave ==
  ASSUME GateInv, NEW r \in Requests, Deliver(r) \/ Drop(r)
  PROVE  GateInv'
<1>1. /\ SessionsSound /\ BrowsersSound /\ Tabled /\ RowSound(r) /\ LimiterInv
  BY DEF GateInv
<1>2. /\ UNCHANGED <<now, limiter, mode, sessions, store, restarts>> /\ Forget(r)
      /\ LimiterInv'
  BY <1>1, LimiterStays DEF Deliver, Drop
<1>3. Grows /\ Sids' = Sids
  BY <1>1, <1>2, SessionsStay DEF Sids
<1>4. Tabled' /\ \A q \in Requests : q # r => Same(q)
  BY <1>1, <1>2 DEF Tabled, Same, Forget, Goto
<1>5. /\ pc'[r] = "done" /\ held'[r] = 0 /\ out'[r] = NoCookies /\ verdict'[r] = "none" /\ gone'[r] = {}
  BY <1>1, <1>2 DEF Forget, Goto, Tabled
<1>6. RowSound(r)'
  BY <1>1, <1>3, <1>5, RowForgets
<1>7. CASE Drop(r)
  BY <1>1, <1>2, <1>3, <1>4, <1>6, <1>7, BrowsersStay, OneRow DEF Drop
<1>8. CASE Deliver(r)
  <2> DEFINE b == req[r].from
             cookies == [n \in {"user", "admin"} |-> IF out[r][n] = Nothing THEN jar[b][n] ELSE out[r][n]]
             shown == IF req[r].path = "page" /\ verdict[r] = "passed"
                      THEN IF held[r] = 0 THEN Nothing
                           ELSE [sid |-> held[r], nr |-> sessions[held[r]].token]
                      ELSE form[b]
  <2>1. /\ pc[r] = "respond" /\ b \in Ips
        /\ jar' = [jar EXCEPT ![b] = cookies] /\ form' = [form EXCEPT ![b] = shown]
    BY <1>1, <1>8 DEF Deliver, RowSound
  <2>2. cookies \in [user : {0} \cup Sids, admin : {0} \cup Sids]
    <3>1. jar[b] \in [user : {0} \cup Sids, admin : {0} \cup Sids]
      BY <1>1, <2>1 DEF BrowsersSound
    <3>2. out[r] \in [user : {0, Nothing} \cup Sids, admin : {0, Nothing} \cup Sids]
      BY <1>1 DEF RowSound
    <3> QED
      BY <3>1, <3>2
  <2>3. Genuine(shown)
    <3>1. CASE req[r].path = "page" /\ verdict[r] = "passed" /\ held[r] # 0
      <4>1. held[r] \in Sids /\ sessions[held[r]].token = 1
        BY <1>1, <2>1, <3>1 DEF RowSound
      <4> QED
        BY <3>1, <4>1 DEF Genuine, Tokens
    <3>2. CASE ~ (req[r].path = "page" /\ verdict[r] = "passed" /\ held[r] # 0)
      BY <1>1, <2>1, <3>2 DEF BrowsersSound, Genuine
    <3> QED
      BY <3>1, <3>2
  <2>4. jar' \in [Ips -> [user : {0} \cup Sids', admin : {0} \cup Sids']]
    <3> HIDE DEF cookies, b
    <3> QED
      BY <1>1, <1>3, <2>1, <2>2 DEF BrowsersSound
  <2>5. form' = [c \in Ips |-> form'[c]] /\ \A c \in Ips : Genuine(form'[c])
    <3> HIDE DEF shown, b
    <3> QED
      BY <1>1, <2>1, <2>3 DEF BrowsersSound
  <2>6. \A c \in Ips : Genuine(form[c])'
    <3> SUFFICES ASSUME NEW c \in Ips PROVE Genuine(form[c])'
      OBVIOUS
    <3>1. PICK t : t = form'[c]
      OBVIOUS
    <3> QED
      BY <1>1, <1>3, <2>5, <3>1, TokenStays
  <2>7. BrowsersSound'
    BY <2>4, <2>5, <2>6 DEF BrowsersSound
  <2> QED
    BY <1>2, <1>3, <1>4, <1>6, <2>7, OneRow
<1> QED
  BY <1>7, <1>8

(* The reaper, the clock and a restart.                                     *)
LEMMA InServer ==
  ASSUME GateInv, (\E s \in Sids : Reap(s)) \/ Tick \/ Restart
  PROVE  GateInv'
<1>1. /\ SessionsSound /\ BrowsersSound /\ Tabled /\ LimiterInv /\ now \in Nat /\ restarts \in 0..MaxRestarts
      /\ \A r \in Requests : RowSound(r)
  BY DEF GateInv, LimiterInv, LimiterTypeOK
<1>2. CASE (\E s \in Sids : Reap(s)) \/ Tick
  <2>1. UNCHANGED <<mode, jar, form, request, restarts>>
    BY <1>2 DEF Reap, Tick, gatekeeper
  <2>2. Grows
    <3>1. CASE \E s \in Sids : Reap(s)
      BY <1>1, <3>1, SessionsStay DEF Reap
    <3>2. CASE Tick
      BY <1>1, <3>2, TimeGoesOn DEF Tick, Elapse, gatekeeper
    <3> QED
      BY <1>2, <3>1, <3>2
  <2>3. LimiterInv'
    <3>1. CASE \E s \in Sids : Reap(s)
      BY <1>1, <3>1, LimiterStays DEF Reap
    <3>2. CASE Tick
      BY <1>1, <3>2, LimiterInvNext DEF Tick, LimiterNext
    <3> QED
      BY <1>2, <3>1, <3>2
  <2>4. BrowsersSound'
    BY <1>1, <2>1, <2>2, BrowsersStay
  <2>5. Tabled' /\ \A r \in Requests : Same(r)
    BY <1>1, <2>1 DEF Tabled, Same, request
  <2>6. \A r \in Requests : RowSound(r)'
    BY <1>1, <2>1, <2>2, <2>5, RowStays
  <2> QED
    BY <2>1, <2>2, <2>3, <2>4, <2>5, <2>6 DEF GateInv, Grows
<1>3. CASE Restart
  <2>1. /\ UNCHANGED <<now, mode, sessions, form>> /\ store' = {} /\ restarts' \in 0..MaxRestarts
    BY <1>1, <1>3, GatekeeperAssumption DEF Restart
  <2>2. Grows /\ Sids' = Sids
    BY <1>1, <2>1, SessionsStay DEF Sids
  <2>3. LimiterInv'
    <3>1. bucket' = [ip \in Ips |-> NoBucket] /\ served' = [ip \in Ips |-> << >>]
      BY <1>3 DEF Restart
    <3>2. LimiterTypeOK'
      BY <1>1, <2>1, <3>1 DEF LimiterTypeOK
    <3>3. ASSUME NEW ip \in Ips PROVE Sound(ip)'
      BY <1>1, <2>1, <3>1, NothingServed DEF Sound, Bucket
    <3> QED
      BY <3>2, <3>3 DEF LimiterInv
  <2>4. BrowsersSound'
    <3>1. jar' \in [Ips -> [user : {0} \cup Sids', admin : {0} \cup Sids']]
      BY <1>1, <1>3, <2>2 DEF Restart, BrowsersSound
    <3>2. \A b \in Ips : Genuine(form[b])'
      BY <2>1, <2>2, <1>1 DEF BrowsersSound, Genuine, Tokens
    <3> QED
      BY <1>1, <2>1, <3>1, <3>2 DEF BrowsersSound
  <2>5. Tabled'
    BY <1>3 DEF Tabled, Restart
  <2>6. ASSUME NEW r \in Requests PROVE RowSound(r)'
    <3>1. /\ pc'[r] \in {"idle", "done"} /\ held'[r] = 0
          /\ out'[r] = NoCookies /\ verdict'[r] = "none" /\ gone'[r] = {}
      BY <1>3 DEF Restart
    <3> QED
      BY <1>1, <2>2, <3>1, RowForgets
  <2> QED
    BY <1>1, <2>1, <2>2, <2>3, <2>4, <2>5, <2>6 DEF GateInv, Grows
<1> QED
  BY <1>2, <1>3

LEMMA GateNext == GateInv /\ [Next]_vars => GateInv'
<1> SUFFICES ASSUME GateInv, [Next]_vars PROVE GateInv'
  OBVIOUS
<1>1. /\ SessionsSound /\ BrowsersSound /\ Tabled /\ LimiterInv /\ now \in Nat
      /\ \A r \in Requests : RowSound(r)
  BY DEF GateInv, LimiterInv, LimiterTypeOK
<1>2. ASSUME NEW r \in Requests, AdminGate(r) \/ Guard(r) \/ Identify(r) \/ AdminPage(r)
      PROVE  GateInv'
  BY <1>1, <1>2, LimiterStays, InChain DEF AdminGate, Guard, Identify, AdminPage
<1>3. ASSUME NEW r \in Requests, Limit(r)
      PROVE  GateInv'
  <2>1. pc[r] = "limit" /\ req[r].from \in Ips
    BY <1>1, <1>3 DEF Limit, RowSound
  <2>2. LimiterInv'
    <3>1. CASE UNCHANGED limiter
      BY <1>1, <1>3, <3>1, LimiterStays DEF Limit
    <3>2. CASE Admit(req[r].from) \/ Refuse(req[r].from)
      BY <1>1, <1>3, <2>1, <3>2, LimiterInvNext DEF Limit, LimiterNext
    <3> QED
      BY <1>3, <3>1, <3>2 DEF Limit
  <2> QED
    BY <1>3, <2>2, InChain
<1>4. ASSUME NEW r \in Requests, Auth(r) \/ Handle(r)
      PROVE  GateInv'
  BY <1>2, <1>4, InAuth, InHandler DEF Auth, Handle
<1>5. ASSUME NEW r \in Requests, NEW b \in Ips, NEW bearer \in {Nothing} \cup Bearers, NEW path \in Visits[b], Arrive(r, b, path, bearer)
      PROVE  GateInv'
  BY <1>5, InArrive, GatekeeperAssumption
<1>6. CASE UNCHANGED vars
  <2>1. UNCHANGED <<now, limiter, mode, sessions, store, jar, form, request, restarts>>
    BY <1>6 DEF vars, gatekeeper
  <2>2. Grows
    BY <1>1, <2>1, SessionsStay
  <2>3. LimiterInv' /\ BrowsersSound'
    BY <1>1, <2>1, <2>2, LimiterStays, BrowsersStay
  <2>4. Tabled' /\ \A r \in Requests : Same(r)
    BY <1>1, <2>1 DEF Tabled, Same, request
  <2>5. \A r \in Requests : RowSound(r)'
    BY <1>1, <2>1, <2>2, <2>4, RowStays
  <2> QED
    BY <2>1, <2>2, <2>3, <2>4, <2>5 DEF GateInv, Grows
<1> QED
  BY <1>2, <1>3, <1>4, <1>5, <1>6, InLeave, InServer DEF Next

(* The sessions, the cookies and the requests agree in every reachable      *)
(* state of the gate, whatever requests overlap: see RowSound.              *)
THEOREM GateInvariant == Spec => []GateInv
BY GateInit, GateNext, PTL DEF Spec

(* No request gets past AuthMiddleware or AdminAuthMiddleware on a session  *)
(* that was gone when it came in, that was never logged in to the part of   *)
(* the site it asks for, or with a bearer token expired by then.            *)
THEOREM GateSound == Spec => []GateHolds
<1>1. GateInv => GateHolds
  <2> SUFFICES ASSUME GateInv PROVE GateHolds
    OBVIOUS
  <2>1. SessionsSound /\ BrowsersSound /\ Tabled /\ LimiterInv /\ \A r \in Requests : RowSound(r)
    BY DEF GateInv
  <2>2. GoneIsGone
    BY <2>1 DEF GoneIsGone, RowSound, Trusted
  <2>3. \A s \in Sids : sessions[s] \in [user : BOOLEAN, admin : BOOLEAN, token : Nat,
                                         last : 0..now, used : 0..now]
    <3> SUFFICES ASSUME NEW s \in Sids
                 PROVE  sessions[s] \in [user : BOOLEAN, admin : BOOLEAN, token : Nat,
                                         last : 0..now, used : 0..now]
      OBVIOUS
    <3>1. sessions[s] \in Session /\ sessions[s].last <= now /\ sessions[s].used <= now /\ now \in Nat
      BY <2>1 DEF SessionsSound, Sids, LimiterInv, LimiterTypeOK
    <3>2. sessions[s].last \in 0..now /\ sessions[s].used \in 0..now
      BY <3>1 DEF Session
    <3> QED
      BY <3>1, <3>2 DEF Session
  <2>4. form \in [Ips -> Tokens \cup {Nothing}]
    BY <2>1 DEF BrowsersSound, Genuine
  <2>5. /\ pc \in [Requests -> Stages] /\ verdict \in [Requests -> Verdicts]
        /\ held \in [Requests -> {0} \cup Sids] /\ gone \in [Requests -> SUBSET Sids]
    BY <2>1 DEF Tabled, RowSound
  <2>6. out \in [Requests -> [user : {0, Nothing} \cup Sids, admin : {0, Nothing} \cup Sids]]
    BY <2>1 DEF Tabled, RowSound
  <2>7. TypeOK
    BY <2>1, <2>3, <2>4, <2>5, <2>6 DEF TypeOK, GateInv, LimiterInv, BrowsersSound, SessionsSound
  <2> QED
    BY <2>2, <2>7 DEF GateHolds
<1> QED
  BY <1>1, GateInvariant, PTL

(* The guard against forged forms refuses no form of the session it was     *)
(* made for, and lets no other through (csrf handling of AuthMiddleware).   *)
THEOREM FormsSound == Spec => []OwnFormsOnly
<1>1. GateInv => OwnFormsOnly
  BY DEF GateInv, RowSound, OwnFormsOnly
<1> QED
  BY <1>1, GateInvariant, PTL

-----------------------------------------------------------------------------
(* Migrations: the ledger and the schema                                    *)

(* A sequence without its first element.                                    *)
LEMMA Behind ==
  ASSUME NEW S, NEW s \in Seq(S), s # << >>
  PROVE  /\ Len(s) \in Nat \ {0} /\ Head(s) = s[1] /\ Head(s) \in S
         /\ Tail(s) \in Seq(S) /\ Len(Tail(s)) = Len(s) - 1
         /\ \A k \in 1..Len(Tail(s)) : Tail(s)[k] = s[k + 1] /\ k + 1 \in 1..Len(s)
OBVIOUS

Files == [len : Nat, strict : BOOLEAN, marks : {"full", "bare", "none"}]
Processes == Servers \cup Clis
Process == [pc : {"off", "create", "check", "script", "record", "up"}, dir : {"up", "down"},
            todo : Seq(Names), at : Nat]

SchemaSound ==
  /\ files \in [Names -> Files] /\ effect \in [Names -> Nat]
  /\ ledger \subseteq Names /\ upset \subseteq Names
  /\ \A f \in Names : effect[f] <= files[f].len
  /\ proc = [p \in Processes |-> proc[p]]

(* What a process that applies files has done of the first one, and of      *)
(* those before it.                                                         *)
Progress(p) ==
  LET at == proc[p].at  todo == proc[p].todo IN
  /\ proc[p] \in Process
  /\ p \in Servers => proc[p].dir = "up"
  /\ proc[p].pc \in {"create", "check"} => at = 0
  /\ proc[p].dir = "up" /\ todo # << >> /\ todo[1] \notin upset /\ files[todo[1]].marks # "none" =>
       /\ proc[p].pc = "script" => effect[todo[1]] >= at
       /\ proc[p].pc = "record" => effect[todo[1]] = files[todo[1]].len
  /\ upset = {} /\ proc[p].dir = "up" /\ proc[p].pc \in {"create", "check", "script", "record"} =>
       /\ Len(todo) <= LastFile
       /\ \A i \in 1..Len(todo) : todo[i] = LastFile - Len(todo) + i
       /\ \A f \in Names : f <= LastFile - Len(todo) => f \in ledger

LedgerInv == SchemaSound /\ LedgerIsTrue /\ AppliedInOrder /\ \A p \in Processes : Progress(p)

(* A file nobody upsets never loses a statement, and without a rollback the *)
(* ledger never loses a row.                                                *)
Advances ==
  /\ SchemaSound' /\ files' = files /\ upset \subseteq upset'
  /\ \A f \in Names : f \notin upset' => effect[f] <= effect'[f]
  /\ upset' = {} => ledger \subseteq ledger'

LEMMA LedgerInit == ASSUME NEW fs \in [Names -> Files], MigrationsInit(fs) PROVE LedgerInv
<1>1. /\ files = fs /\ ledger = {} /\ upset = {} /\ effect = [f \in Names |-> 0]
      /\ proc = [p \in Processes |-> Idle]
  BY DEF MigrationsInit, Processes
<1>2. \A f \in Names : fs[f].len \in Nat
  BY DEF Files
<1>3. SchemaSound
  BY <1>1, <1>2 DEF SchemaSound
<1>4. ASSUME NEW p \in Processes PROVE Progress(p)
  <2>1. proc[p] = Idle /\ Idle \in Process /\ Idle.dir = "up" /\ Idle.pc = "off" /\ Idle.todo = << >>
    BY <1>1 DEF Idle, Process
  <2> QED
    BY <2>1 DEF Progress
<1>5. LedgerIsTrue /\ AppliedInOrder
  BY <1>1 DEF LedgerIsTrue, AppliedInOrder
<1> QED
  BY <1>3, <1>4, <1>5 DEF LedgerInv

LEMMA OthersProgress ==
  ASSUME SchemaSound, Advances, NEW p \in Processes, Progress(p), proc'[p] = proc[p]
  PROVE  Progress(p)'
<1> DEFINE todo == proc[p].todo
           at == proc[p].at
<1>1. /\ proc[p] \in Process /\ at \in Nat /\ todo \in Seq(Names)
      /\ todo # << >> => todo[1] \in Names
  BY DEF Progress, Process
<1>2. \A f \in Names : effect[f] \in Nat /\ effect'[f] \in Nat /\ files[f].len \in Nat
                       /\ effect'[f] <= files[f].len
  BY DEF SchemaSound, Advances, Files
<1>3. proc[p].dir = "up" /\ todo # << >> /\ todo[1] \notin upset' /\ files[todo[1]].marks # "none" =>
        /\ proc[p].pc = "script" => effect'[todo[1]] >= at
        /\ proc[p].pc = "record" => effect'[todo[1]] = files[todo[1]].len
  <2> SUFFICES ASSUME proc[p].dir = "up", todo # << >>, todo[1] \notin upset', files[todo[1]].marks # "none"
               PROVE  /\ proc[p].pc = "script" => effect'[todo[1]] >= at
                      /\ proc[p].pc = "record" => effect'[todo[1]] = files[todo[1]].len
    OBVIOUS
  <2>1. PICK f \in Names : f = todo[1]
    BY <1>1
  <2>2. effect[f] <= effect'[f] /\ f \notin upset
    BY <2>1 DEF Advances
  <2>3. /\ proc[p].pc = "script" => effect[f] >= at
        /\ proc[p].pc = "record" => effect[f] = files[f].len
    BY <2>1, <2>2 DEF Progress
  <2>4. effect[f] \in Nat /\ effect'[f] \in Nat /\ files[f].len \in Nat /\ effect'[f] <= files[f].len
    BY <1>2
  <2> HIDE DEF at, todo
  <2>5. (proc[p].pc = "script" => effect'[f] >= at) /\ (proc[p].pc = "record" => effect'[f] = files[f].len)
    BY <1>1, <2>2, <2>3, <2>4
  <2> QED
    BY <2>1, <2>5
<1>4. upset' = {} /\ proc[p].dir = "up" /\ proc[p].pc \in {"create", "check", "script", "record"} =>
        /\ Len(todo) <= LastFile
        /\ \A i \in 1..Len(todo) : todo[i] = LastFile - Len(todo) + i
        /\ \A f \in Names : f <= LastFile - Len(todo) => f \in ledger'
  BY DEF Progress, Advances
<1>5. /\ p \in Servers => proc[p].dir = "up"
      /\ proc[p].pc \in {"create", "check"} => at = 0
  BY DEF Progress
<1> QED
  BY <1>1, <1>3, <1>4, <1>5 DEF Progress, Advances

(* A step of one process that leaves the schema and the ledger alone.       *)
LEMMA ProcessMoves ==
  ASSUME LedgerInv, NEW p \in Processes, NEW to, proc' = [proc EXCEPT ![p] = to],
         UNCHANGED <<files, ledger, effect>>,
         upset' = upset \/ (upset \subseteq upset' /\ upset' \subseteq Names /\ upset' # {}),
         Progress(p)'
  PROVE  LedgerInv'
<1>1. SchemaSound /\ \A q \in Processes : Progress(q)
  BY DEF LedgerInv
<1>2. Advances /\ proc'[p] = to /\ \A q \in Processes : q # p => proc'[q] = proc[q]
  BY <1>1, SMTT(30) DEF Advances, SchemaSound
<1>3. \A q \in Processes : Progress(q)'
  BY <1>1, <1>2, OthersProgress
<1>4. LedgerIsTrue' /\ AppliedInOrder'
  BY <1>2 DEF LedgerInv, LedgerIsTrue, AppliedInOrder, Advances
<1> QED
  BY <1>2, <1>3, <1>4 DEF LedgerInv, Advances

(* A step that changes the schema, the ledger or both.                      *)
LEMMA SchemaMoves ==
  ASSUME LedgerInv, NEW p \in Processes, NEW to, proc' = [proc EXCEPT ![p] = to], Advances,
         Progress(p)', AppliedInOrder',
         \A f \in ledger' : f \in ledger \/ f \in upset' \/ (files[f].marks # "none" => effect[f] = files[f].len)
  PROVE  LedgerInv'
<1>1. SchemaSound /\ LedgerIsTrue /\ \A q \in Processes : Progress(q)
  BY DEF LedgerInv
<1>2. \A q \in Processes : q # p => proc'[q] = proc[q]
  BY <1>1 DEF SchemaSound
<1>3. \A q \in Processes : Progress(q)'
  BY <1>1, <1>2, OthersProgress
<1>4. LedgerIsTrue'
  <2> SUFFICES ASSUME NEW f \in ledger', f \notin upset', files[f].marks # "none" PROVE effect'[f] = files[f].len
    BY DEF LedgerIsTrue, Advances
  <2>1. f \in Names /\ effect[f] = files[f].len
    BY <1>1 DEF LedgerIsTrue, Advances, SchemaSound
  <2>2. /\ effect[f] <= effect'[f] /\ effect'[f] <= files[f].len
        /\ effect[f] \in Nat /\ effect'[f] \in Nat
    BY <1>1, <2>1 DEF Advances, SchemaSound
  <2> QED
    BY <2>1, <2>2
<1> QED
  BY <1>3, <1>4 DEF LedgerInv, Advances

(* The process goes on to its next file, or gives up.                       *)
LEMMA NextProgress ==
  ASSUME SchemaSound, Advances, NEW p \in Processes, Progress(p), proc[p].todo # << >>,
         proc[p].pc \in {"check", "script", "record"}, proc'[p] = NextFile(p),
         upset' = {} /\ proc[p].dir = "up" => proc[p].todo[1] \in ledger'
  PROVE  Progress(p)'
<1> DEFINE todo == proc[p].todo
<1>1. proc[p] \in Process /\ todo \in Seq(Names) /\ LastFile \in Nat
  BY MigrationsAssumption DEF Progress, Process
<1>2. PICK rest : rest = Tail(todo)
  OBVIOUS
<1>3. /\ Len(todo) \in Nat \ {0} /\ rest \in Seq(Names) /\ Len(rest) = Len(todo) - 1
      /\ \A i \in 1..Len(rest) : rest[i] = todo[i + 1] /\ i + 1 \in 1..Len(todo)
  BY <1>1, <1>2, Behind
<1>4. /\ proc'[p] \in Process /\ proc'[p].pc = "check" /\ proc'[p].dir = proc[p].dir
      /\ proc'[p].at = 0 /\ proc'[p].todo = rest
  <2>1. PICK q \in Process : q = proc[p]
    BY <1>1
  <2>2. PICK n : n = [q EXCEPT !.pc = "check", !.todo = rest, !.at = 0]
    OBVIOUS
  <2>3. n \in Process /\ n.pc = "check" /\ n.dir = q.dir /\ n.at = 0 /\ n.todo = rest
    BY <1>3, <2>2 DEF Process
  <2>4. n = NextFile(p)
    BY <1>2, <2>1, <2>2 DEF NextFile
  <2> QED
    BY <2>1, <2>3, <2>4
<1>5. ASSUME upset' = {}, proc[p].dir = "up"
      PROVE  /\ Len(rest) <= LastFile
             /\ \A i \in 1..Len(rest) : rest[i] = LastFile - Len(rest) + i
             /\ \A f \in Names : f <= LastFile - Len(rest) => f \in ledger'
  <2>1. PICK n \in Nat \ {0} : n = Len(todo)
    BY <1>3
  <2>2. /\ n <= LastFile
        /\ \A i \in 1..n : todo[i] = LastFile - n + i
        /\ \A f \in Names : f <= LastFile - n => f \in ledger'
    BY <1>5, <2>1 DEF Progress, Advances
  <2>3. todo[1] = LastFile - n + 1 /\ todo[1] \in ledger'
    BY <1>5, <2>1, <2>2
  <2>4. Len(rest) = n - 1 /\ \A i \in 1..(n - 1) : rest[i] = todo[i + 1] /\ i + 1 \in 1..n
    BY <1>3, <2>1
  <2> HIDE DEF todo
  <2>5. \A i \in 1..(n - 1) : rest[i] = LastFile - (n - 1) + i
    <3> SUFFICES ASSUME NEW i \in 1..(n - 1) PROVE rest[i] = LastFile - (n - 1) + i
      OBVIOUS
    <3>1. rest[i] = LastFile - n + (i + 1)
      BY <2>2, <2>4
    <3> QED
      BY <1>1, <3>1
  <2>6. \A f \in Names : f <= LastFile - (n - 1) => f \in ledger'
    <3> SUFFICES ASSUME NEW f \in Names, f <= LastFile - (n - 1) PROVE f \in ledger'
      OBVIOUS
    <3>1. f <= LastFile - n \/ f = LastFile - n + 1
      BY <1>1 DEF Names
    <3> QED
      BY <2>2, <2>3, <3>1
  <2>7. n - 1 <= LastFile
    BY <1>1, <2>2
  <2> QED
    BY <2>4, <2>5, <2>6, <2>7
<1>6. p \in Servers => proc[p].dir = "up"
  BY DEF Progress
<1> QED
  BY <1>4, <1>5, <1>6 DEF Progress

LEMMA AbortProgress ==
  ASSUME Advances, NEW p \in Processes, Progress(p), proc'[p] = Abort(p)
  PROVE  Progress(p)'
<1>1. /\ proc'[p] \in Process /\ proc'[p].dir = proc[p].dir /\ proc'[p].todo = << >>
      /\ proc'[p].pc \in {"up", "off"}
  <2>1. PICK q \in Process : q = proc[p]
    BY DEF Progress
  <2>2. PICK pc1 : pc1 = IF p \in Servers THEN "up" ELSE "off"
    OBVIOUS
  <2>3. PICK n : n = [q EXCEPT !.pc = pc1, !.todo = << >>]
    OBVIOUS
  <2>4. n \in Process /\ n.dir = q.dir /\ n.todo = << >> /\ n.pc = pc1
    <3>1. pc1 \in {"up", "off"} /\ << >> \in Seq(Names)
      BY <2>2
    <3> QED
      BY <2>3, <3>1 DEF Process
  <2>5. n = Abort(p)
    BY <2>1, <2>2, <2>3 DEF Abort
  <2> QED
    BY <2>1, <2>2, <2>4, <2>5
<1> QED
  BY <1>1 DEF Progress

(* Starts and ends                                                          *)
LEMMA InListed ==
  /\ Listed("up") \in Seq(Names) /\ Len(Listed("up")) = LastFile
  /\ \A i \in 1..LastFile : Listed("up")[i] = i
  /\ Listed("down") \in Seq(Names)
BY MigrationsAssumption DEF Listed, Names, Reverse

LEMMA InStart ==
  ASSUME LedgerInv, NEW p \in Processes, Connect(p) \/ CreateAudit(p) \/ Command(p) \/ Finish(p)
  PROVE  LedgerInv'
<1>1. /\ SchemaSound /\ Progress(p) /\ proc[p] \in Process /\ LastFile \in Nat
      /\ p \in Servers => proc[p].dir = "up"
  BY MigrationsAssumption DEF LedgerInv, Progress
<1>2. CASE Connect(p)
  <2>1. PICK to : to = [Idle EXCEPT !.pc = IF audit THEN "check" ELSE "create", !.todo = Listed("up")]
    OBVIOUS
  <2>2. /\ to \in Process /\ to.dir = "up" /\ to.pc \in {"check", "create"} /\ to.at = 0 /\ to.todo = Listed("up")
    BY <2>1, InListed DEF Idle, Process
  <2>3. proc' = [proc EXCEPT ![p] = to] /\ proc'[p] = to /\ UNCHANGED <<files, ledger, effect, upset>>
    BY <1>1, <1>2, <2>1 DEF Connect, SchemaSound
  <2>4. \A f \in Names : effect[f] >= 0
    BY <1>1 DEF SchemaSound
  <2>5. /\ Len(to.todo) <= LastFile
        /\ \A i \in 1..Len(to.todo) : to.todo[i] = LastFile - Len(to.todo) + i
        /\ \A f \in Names : f <= LastFile - Len(to.todo) => f \in ledger
    BY <1>1, <2>2, InListed DEF Names
  <2>6. Progress(p)'
    BY <2>2, <2>3, <2>5 DEF Progress
  <2> QED
    BY <2>3, <2>6, ProcessMoves
<1>3. CASE CreateAudit(p)
  <2>1. PICK to : to = IF audit THEN Idle ELSE [proc[p] EXCEPT !.pc = "check"]
    OBVIOUS
  <2>2. proc' = [proc EXCEPT ![p] = to] /\ proc'[p] = to /\ UNCHANGED <<files, ledger, effect, upset>>
    BY <1>1, <1>3, <2>1 DEF CreateAudit, SchemaSound
  <2>3. CASE audit
    <3>1. to \in Process /\ to.pc = "off" /\ to.dir = "up" /\ to.todo = << >>
      BY <2>1, <2>3 DEF Idle, Process
    <3> QED
      BY <2>2, <3>1, ProcessMoves DEF Progress
  <2>4. CASE ~ audit
    <3>1. /\ to \in Process /\ to.pc = "check" /\ to.dir = proc[p].dir /\ to.todo = proc[p].todo
          /\ to.at = proc[p].at /\ proc[p].pc = "create"
      BY <1>1, <1>3, <2>1, <2>4 DEF CreateAudit, Process
    <3>2. Progress(p)'
      BY <1>1, <2>2, <3>1 DEF Progress
    <3> QED
      BY <2>2, <3>2, ProcessMoves
  <2> QED
    BY <2>3, <2>4
<1>4. CASE Command(p)
  <2>1. PICK c \in Commands :
          /\ proc' = [proc EXCEPT ![p] =
               [Idle EXCEPT !.pc = "check", !.dir = c.dir,
                            !.todo = IF c.file = 0 THEN Listed(c.dir) ELSE <<c.file>>]]
          /\ upset' = IF c.file = 0 THEN upset ELSE upset \cup {c.file}
    BY <1>4 DEF Command
  <2>2. c.dir \in {"up", "down"} /\ c.file \in 0..LastFile /\ p \notin Servers
    BY <1>4, MigrationsAssumption DEF Command
  <2>3. PICK to : to = [Idle EXCEPT !.pc = "check", !.dir = c.dir,
                                    !.todo = IF c.file = 0 THEN Listed(c.dir) ELSE <<c.file>>]
    OBVIOUS
  <2>4. PICK todo : todo = IF c.file = 0 THEN Listed(c.dir) ELSE <<c.file>>
    OBVIOUS
  <2>5. todo \in Seq(Names)
    <3>1. c.file # 0 => c.file \in Names
      BY <1>1, <2>2 DEF Names
    <3> QED
      BY <2>2, <2>4, <3>1, InListed
  <2>6. to \in Process /\ to.dir = c.dir /\ to.pc = "check" /\ to.at = 0 /\ to.todo = todo
    BY <2>2, <2>3, <2>4, <2>5 DEF Idle, Process
  <2>7. proc' = [proc EXCEPT ![p] = to] /\ proc'[p] = to /\ UNCHANGED <<files, ledger, effect>>
    BY <1>1, <1>4, <2>1, <2>3 DEF Command, SchemaSound
  <2>8. upset' = upset \/ (upset \subseteq upset' /\ upset' \subseteq Names /\ upset' # {})
    BY <1>1, <2>1, <2>2 DEF SchemaSound, Names
  <2>9. upset' = {} /\ c.dir = "up" => todo = Listed("up")
    BY <2>1, <2>4
  <2>10. upset' = {} /\ c.dir = "up" =>
           /\ Len(todo) <= LastFile
           /\ \A i \in 1..Len(todo) : todo[i] = LastFile - Len(todo) + i
           /\ \A f \in Names : f <= LastFile - Len(todo) => f \in ledger
    BY <1>1, <2>9, InListed DEF Names
  <2>11. Progress(p)'
    BY <2>2, <2>6, <2>7, <2>10 DEF Progress
  <2> QED
    BY <2>7, <2>8, <2>11, ProcessMoves
<1>5. CASE Finish(p)
  <2>1. proc' = [proc EXCEPT ![p] = Abort(p)] /\ UNCHANGED <<files, ledger, effect, upset>>
    BY <1>5 DEF Finish
  <2>2. Advances /\ proc'[p] = Abort(p)
    BY <1>1, <2>1 DEF Advances, SchemaSound
  <2>3. Progress(p)'
    BY <1>1, <2>2, AbortProgress
  <2>4. PICK to : to = Abort(p)
    OBVIOUS
  <2> QED
    BY <2>1, <2>3, <2>4, ProcessMoves
<1> QED
  BY <1>2, <1>3, <1>4, <1>5

(* A process at one of its files.                                           *)
LEMMA AtFile ==
  ASSUME LedgerInv, NEW p \in Processes, NEW stage \in {"check", "script", "record"}, At(p, stage)
  PROVE  /\ proc[p] \in Process /\ proc[p].todo \in Seq(Names) /\ proc[p].todo # << >>
         /\ File(p) = proc[p].todo[1] /\ File(p) \in Names /\ proc[p].pc = stage
         /\ proc[p].at \in Nat /\ proc[p].dir \in {"up", "down"}
         /\ effect[File(p)] \in Nat /\ files[File(p)] \in Files /\ files[File(p)].len \in Nat
         /\ effect[File(p)] <= files[File(p)].len
<1>1. proc[p] \in Process /\ proc[p].todo \in Seq(Names) /\ proc[p].todo # << >> /\ proc[p].pc = stage
  BY DEF LedgerInv, Progress, At, Process
<1>2. File(p) = proc[p].todo[1] /\ File(p) \in Names
  BY <1>1, Behind DEF File
<1>3. /\ effect[File(p)] \in Nat /\ files[File(p)] \in Files
      /\ effect[File(p)] <= files[File(p)].len
  BY <1>2 DEF LedgerInv, SchemaSound
<1> QED
  BY <1>1, <1>2, <1>3 DEF Process, Files

LEMMA InCheck ==
  ASSUME LedgerInv, NEW p \in Processes, Check(p)
  PROVE  LedgerInv'
<1>1. SchemaSound /\ Progress(p) /\ At(p, "check") /\ UNCHANGED <<files, ledger, effect, upset>>
  BY DEF LedgerInv, Check
<1>2. /\ proc[p] \in Process /\ proc[p].todo \in Seq(Names) /\ proc[p].todo # << >>
      /\ File(p) = proc[p].todo[1] /\ File(p) \in Names /\ proc[p].pc = "check" /\ effect[File(p)] \in Nat
  BY <1>1, AtFile
<1>3. CASE proc' = [proc EXCEPT ![p] = NextFile(p)] /\ ((File(p) \in ledger) = (proc[p].dir = "up"))
  <2>1. Advances /\ proc'[p] = NextFile(p)
    BY <1>1, <1>3, SMTT(30) DEF Advances, SchemaSound
  <2>2. Progress(p)'
    BY <1>1, <1>2, <1>3, <2>1, NextProgress
  <2>3. PICK to : to = NextFile(p)
    OBVIOUS
  <2> QED
    BY <1>1, <1>3, <2>2, <2>3, ProcessMoves
<1>4. CASE proc' = [proc EXCEPT ![p] = [proc[p] EXCEPT !.pc = "script"]]
  <2>1. PICK to : to = [proc[p] EXCEPT !.pc = "script"]
    OBVIOUS
  <2>2. /\ to \in Process /\ to.pc = "script" /\ to.dir = proc[p].dir /\ to.todo = proc[p].todo
        /\ to.at = 0
    BY <1>1, <1>2, <2>1 DEF Process, Progress
  <2>3. proc' = [proc EXCEPT ![p] = to] /\ proc'[p] = to
    BY <1>1, <1>4, <2>1 DEF SchemaSound
  <2>4. effect[to.todo[1]] >= to.at
    BY <1>2, <2>2
  <2>5. Progress(p)'
    BY <1>1, <1>2, <2>2, <2>3, <2>4 DEF Progress
  <2> QED
    BY <1>1, <2>3, <2>5, ProcessMoves
<1> QED
  BY <1>3, <1>4 DEF Check

LEMMA InFailed ==
  ASSUME LedgerInv, NEW p \in Processes, proc' = [proc EXCEPT ![p] = Failed(p)],
         UNCHANGED <<files, ledger, effect>>,
         upset' = upset \/ (upset \subseteq upset' /\ upset' \subseteq Names /\ upset' # {})
  PROVE  LedgerInv'
<1>1. SchemaSound /\ Progress(p)
  BY DEF LedgerInv
<1>2. Advances /\ proc'[p] = Abort(p)
  BY <1>1 DEF Advances, SchemaSound, Failed
<1>3. Progress(p)'
  BY <1>1, <1>2, AbortProgress
<1>4. PICK to : to = Failed(p)
  OBVIOUS
<1> QED
  BY <1>3, <1>4, ProcessMoves

(* A process that applies a file touches nothing before the earlier files   *)
(* are in the ledger.                                                       *)
LEMMA StillInOrder ==
  ASSUME LedgerInv, NEW p \in Processes, NEW n \in Nat,
         proc[p].dir = "up", At(p, "script"), upset' = upset, ledger' = ledger,
         effect' = [effect EXCEPT ![File(p)] = n]
  PROVE  AppliedInOrder'
<1>1. /\ SchemaSound /\ Progress(p) /\ AppliedInOrder
  BY DEF LedgerInv
<1>2. PICK g \in Names : /\ g = File(p) /\ g = proc[p].todo[1] /\ proc[p].pc = "script"
                         /\ proc[p].todo \in Seq(Names) /\ proc[p].todo # << >>
  BY AtFile
<1>3. ASSUME upset = {} PROVE \A f \in Names : f < g => f \in ledger
  <2>1. PICK k \in Nat \ {0} : k = Len(proc[p].todo)
    BY <1>2, Behind
  <2>2. g = LastFile - k + 1 /\ \A f \in Names : f <= LastFile - k => f \in ledger
    BY <1>1, <1>2, <1>3, <2>1 DEF Progress
  <2> QED
    BY <2>2, MigrationsAssumption DEF Names
<1>4. \A h \in Names : h # g => effect'[h] = effect[h]
  BY <1>1, <1>2 DEF SchemaSound
<1> QED
  BY <1>1, <1>3, <1>4 DEF AppliedInOrder

(* More of a file is in the schema, and the process goes on with it.        *)
LEMMA InApply ==
  ASSUME LedgerInv, NEW p \in Processes, At(p, "script"), proc[p].dir = "up",
         NEW to \in Process, proc' = [proc EXCEPT ![p] = to],
         NEW n \in Nat, effect' = [effect EXCEPT ![File(p)] = n],
         effect[File(p)] <= n, n <= files[File(p)].len,
         UNCHANGED <<files, ledger, upset>>,
         to.dir = "up",
         \/ to.todo = << >> /\ to.pc = "off"
         \/ /\ to.todo = proc[p].todo
            /\ \/ to.pc = "script" /\ to.at <= n
               \/ to.pc = "record" /\ n = files[File(p)].len
  PROVE  LedgerInv'
<1>1. /\ SchemaSound /\ Progress(p)
      /\ proc[p] \in Process /\ proc[p].todo \in Seq(Names) /\ proc[p].todo # << >>
      /\ File(p) = proc[p].todo[1] /\ proc[p].pc = "script"
  BY AtFile DEF LedgerInv
<1>2. PICK f \in Names : f = File(p)
  BY AtFile
<1>3. /\ effect' \in [Names -> Nat] /\ effect'[f] = n /\ \A g \in Names : g # f => effect'[g] = effect[g]
      /\ proc'[p] = to
  BY <1>1, <1>2 DEF SchemaSound
<1>4. \A g \in Names : effect'[g] <= files[g].len /\ effect[g] <= effect'[g]
  BY <1>1, <1>2, <1>3 DEF SchemaSound
<1>5. Advances
  BY <1>1, <1>3, <1>4 DEF Advances, SchemaSound
<1>6. to.at \in Nat
  BY DEF Process
<1>7. Progress(p)'
  <2>1. to.pc = "script" \/ to.pc = "record" => effect'[to.todo[1]] = n /\ files[to.todo[1]].len = files[f].len
    BY <1>1, <1>2, <1>3
  <2> QED
    BY <1>1, <1>2, <1>3, <1>6, <2>1 DEF Progress
<1>8. AppliedInOrder'
  BY StillInOrder
<1> QED
  BY <1>5, <1>7, <1>8, SchemaMoves

LEMMA InScript ==
  ASSUME LedgerInv, NEW p \in Processes, RunScript(p) \/ RunStatement(p) \/ ScriptOver(p)
  PROVE  LedgerInv'
<1> DEFINE f == File(p)
<1>1. At(p, "script") /\ SchemaSound /\ Progress(p) /\ p \in Servers \cup Clis
      /\ ledger' = ledger /\ files' = files
  BY DEF RunScript, RunStatement, ScriptOver, LedgerInv, Processes
<1>2. /\ proc[p] \in Process /\ f \in Names /\ f = proc[p].todo[1] /\ proc[p].todo # << >> /\ proc[p].pc = "script"
      /\ proc[p].at \in Nat /\ proc[p].dir \in {"up", "down"}
      /\ effect[f] \in Nat /\ files[f].len \in Nat /\ effect[f] <= files[f].len
      /\ files[f].marks \in {"full", "bare", "none"}
  BY <1>1, AtFile DEF Files
<1>3. CASE RunScript(p)
  <2>1. CASE proc' = [proc EXCEPT ![p] = Failed(p)] /\ UNCHANGED effect
    BY <1>3, <2>1, InFailed DEF RunScript
  <2>2. CASE proc' = [proc EXCEPT ![p].pc = "record"] /\ effect' = [effect EXCEPT ![f] = files[f].len]
    <3>1. PICK to : to = [proc[p] EXCEPT !.pc = "record"]
      OBVIOUS
    <3>2. to \in Process /\ to.dir = "up" /\ to.todo = proc[p].todo /\ to.pc = "record"
      BY <1>1, <1>2, <1>3, <3>1 DEF Process, Progress, RunScript
    <3>3. proc' = [proc EXCEPT ![p] = to] /\ proc[p].dir = "up" /\ upset' = upset
      BY <1>1, <1>3, <2>2, <3>1 DEF Progress, RunScript
    <3>4. PICK n \in Nat : n = files[f].len
      BY <1>2
    <3>5. effect' = [effect EXCEPT ![f] = n] /\ effect[f] <= n /\ n <= files[f].len
      BY <1>2, <2>2, <3>4
    <3> QED
      BY <1>1, <3>2, <3>3, <3>4, <3>5, InApply
  <2> QED
    BY <1>3, <2>1, <2>2 DEF RunScript
<1>4. CASE RunStatement(p)
  <2> DEFINE back == Undoes(p, f)
  <2>1. PICK i : i = IF back THEN Script(p, f) - proc[p].at ELSE proc[p].at + 1
    OBVIOUS
  <2>2. /\ proc[p].at < Script(p, f) /\ p \in Clis
        /\ Script(p, f) \in {0, files[f].len, 2 * files[f].len}
        /\ proc[p].dir = "down" => Script(p, f) \in {0, files[f].len}
        /\ back <=> proc[p].dir = "down" \/ proc[p].at >= files[f].len
    BY <1>2, <1>4 DEF RunStatement, Script, Undoes
  <2>3. i \in Nat \ {0} /\ i <= files[f].len
    <3>1. PICK len \in Nat, done \in Nat, all \in Nat : len = files[f].len /\ done = proc[p].at /\ all = Script(p, f)
      BY <1>2, <2>2
    <3>2. /\ done < all /\ all \in {0, len, 2 * len}
          /\ i = IF back THEN all - done ELSE done + 1
          /\ ~ back => done < len
      BY <1>2, <2>1, <2>2, <3>1
    <3>3. (back /\ all # 2 * len) \/ done >= len \/ ~ back
      BY <1>2, <2>2, <3>1
    <3> QED
      BY <3>1, <3>2, <3>3
  <2>4. \/ proc' = [proc EXCEPT ![p] = Failed(p)] /\ UNCHANGED effect
        \/ /\ proc' = [proc EXCEPT ![p].at = @ + 1]
           /\ effect' = [effect EXCEPT ![f] = IF back THEN Smaller(@, i - 1) ELSE Larger(@, i)]
    BY <1>4, <2>1 DEF RunStatement
  <2>5. upset' = IF back THEN upset \cup {f} ELSE upset
    BY <1>4 DEF RunStatement
  <2> HIDE DEF back
  <2>6. upset' = upset \/ (upset \subseteq upset' /\ upset' \subseteq Names /\ upset' # {})
    BY <1>1, <1>2, <2>5 DEF SchemaSound
  <2>7. CASE proc' = [proc EXCEPT ![p] = Failed(p)] /\ UNCHANGED effect
    BY <1>1, <2>6, <2>7, InFailed
  <2>8. CASE /\ proc' = [proc EXCEPT ![p].at = @ + 1]
             /\ effect' = [effect EXCEPT ![f] = IF back THEN Smaller(@, i - 1) ELSE Larger(@, i)]
    <3>1. PICK k \in Nat : k = proc[p].at + 1
      BY <1>2
    <3>2. PICK to : to = [proc[p] EXCEPT !.at = k]
      OBVIOUS
    <3>3. to \in Process /\ to.dir = proc[p].dir /\ to.todo = proc[p].todo /\ to.pc = "script" /\ to.at = k
      BY <1>2, <3>1, <3>2 DEF Process
    <3>4. proc' = [proc EXCEPT ![p] = to]
      BY <3>1, <3>2, <2>8
    <3>5. CASE ~ back
      <4>1. PICK n \in Nat : n = Larger(effect[f], i)
        BY <1>2, <2>3 DEF Larger
      <4>2. effect[f] <= n /\ n <= files[f].len /\ k <= n
        BY <1>2, <2>1, <2>3, <3>1, <3>5, <4>1 DEF Larger
      <4>4. proc[p].dir = "up"
        BY <1>2, <2>2, <3>5
      <4>3. effect' = [effect EXCEPT ![f] = n] /\ upset' = upset
        BY <1>1, <1>2, <2>5, <2>8, <3>5, <4>1 DEF SchemaSound
      <4> QED
        BY <1>1, <3>3, <3>4, <4>2, <4>3, <4>4, InApply
    <3>6. CASE back
      <4>1. PICK n \in Nat : n = Smaller(effect[f], i - 1)
        BY <1>2, <2>3 DEF Smaller
      <4>2. n <= effect[f]
        BY <1>2, <2>3, <4>1 DEF Smaller
      <4>3. effect' = [effect EXCEPT ![f] = n] /\ upset' = upset \cup {f}
        BY <1>1, <1>2, <2>5, <2>8, <3>6, <4>1 DEF SchemaSound
      <4>4. /\ effect' \in [Names -> Nat] /\ effect'[f] = n
            /\ \A g \in Names : g # f => effect'[g] = effect[g]
            /\ proc'[p] = to /\ proc' = [q \in Processes |-> proc'[q]]
        BY <1>1, <1>2, <3>4, <4>3 DEF SchemaSound
      <4>5. ASSUME NEW g \in Names PROVE effect'[g] <= files[g].len
        <5>1. CASE g # f
          BY <1>1, <4>4, <5>1 DEF SchemaSound
        <5>2. CASE g = f
          <6>1. PICK a \in Nat : a = effect[f]
            BY <1>2
          <6>2. PICK b \in Nat : b = files[f].len
            BY <1>2
          <6>3. n <= a /\ a <= b
            BY <1>2, <4>2, <6>1, <6>2
          <6>4. n <= b
            BY <6>3
          <6> QED
            BY <4>4, <5>2, <6>2, <6>4
        <5> QED
          BY <5>1, <5>2
      <4>6. \A g \in Names : g \notin upset' => effect[g] <= effect'[g]
        BY <1>1, <4>3, <4>4 DEF SchemaSound
      <4>7. Advances
        BY <1>1, <1>2, <4>3, <4>4, <4>5, <4>6 DEF Advances, SchemaSound
      <4>8. Progress(p)'
        BY <1>1, <1>2, <3>3, <4>3, <4>4, MigrationsAssumption DEF Progress
      <4>9. AppliedInOrder'
        BY <4>3 DEF AppliedInOrder
      <4> QED
        BY <1>1, <3>4, <4>7, <4>8, <4>9, SchemaMoves
    <3> QED
      BY <1>2, <3>5, <3>6
  <2> QED
    BY <2>4, <2>7, <2>8
<1>5. CASE ScriptOver(p)
  <2>1. PICK to : to = [proc[p] EXCEPT !.pc = "record"]
    OBVIOUS
  <2>2. to \in Process /\ to.dir = proc[p].dir /\ to.todo = proc[p].todo /\ to.pc = "record"
    BY <1>2, <2>1 DEF Process
  <2>3. proc' = [proc EXCEPT ![p] = to] /\ proc'[p] = to /\ UNCHANGED <<effect, upset>>
    BY <1>1, <1>5, <2>1 DEF ScriptOver, SchemaSound
  <2>4. files[f].marks # "none" => proc[p].at \in {files[f].len, 2 * files[f].len}
    BY <1>5 DEF ScriptOver, Script
  <2>5. to.dir = "up" /\ f \notin upset /\ files[f].marks # "none" => effect[f] = files[f].len
    <3>1. to.dir = "up" /\ f \notin upset /\ files[f].marks # "none" => effect[f] >= proc[p].at
      BY <1>1, <1>2, <2>2 DEF Progress
    <3> QED
      BY <1>2, <2>4, <3>1
  <2>6. Progress(p)'
    BY <1>1, <1>2, <2>2, <2>3, <2>5 DEF Progress
  <2> QED
    BY <1>1, <2>3, <2>6, ProcessMoves
<1> QED
  BY <1>3, <1>4, <1>5

LEMMA InRecord ==
  ASSUME LedgerInv, NEW p \in Processes, Record(p)
  PROVE  LedgerInv'
<1> DEFINE f == File(p)
<1>1. /\ At(p, "record") /\ SchemaSound /\ Progress(p) /\ AppliedInOrder
      /\ UNCHANGED <<files, effect>>
      /\ upset' = IF proc[p].dir = "down" THEN upset \cup {f} ELSE upset
  BY DEF Record, LedgerInv
<1>2. /\ proc[p] \in Process /\ f \in Names /\ f = proc[p].todo[1] /\ proc[p].todo # << >>
      /\ proc[p].pc = "record"
  BY <1>1, AtFile
<1>3. PICK to : to = NextFile(p)
  OBVIOUS
<1>4. CASE /\ proc[p].dir = "up" /\ f \notin ledger /\ ledger' = ledger \cup {f}
           /\ proc' = [proc EXCEPT ![p] = NextFile(p)]
  <2>1. upset' = upset
    BY <1>1, <1>4
  <2>2. Advances /\ proc'[p] = NextFile(p)
    <3>1. proc'[p] = NextFile(p) /\ proc' = [q \in Processes |-> proc'[q]]
      BY <1>1, <1>4 DEF SchemaSound
    <3>2. ledger' \subseteq Names /\ upset' \subseteq Names /\ ledger \subseteq ledger'
      BY <1>1, <1>2, <1>4, <2>1 DEF SchemaSound
    <3>3. \A g \in Names : effect[g] <= effect'[g]
      BY <1>1 DEF SchemaSound
    <3> QED
      BY <1>1, <2>1, <3>1, <3>2, <3>3 DEF Advances, SchemaSound
  <2>3. Progress(p)'
    BY <1>1, <1>2, <1>4, <2>2, NextProgress
  <2>4. AppliedInOrder'
    BY <1>1, <1>4, <2>1 DEF AppliedInOrder
  <2>5. f \in upset' \/ (files[f].marks # "none" => effect[f] = files[f].len)
    BY <1>1, <1>2, <1>4, <2>1 DEF Progress
  <2> QED
    BY <1>3, <1>4, <2>2, <2>3, <2>4, <2>5, SchemaMoves
<1>5. CASE proc[p].dir = "up" /\ proc' = [proc EXCEPT ![p] = Failed(p)] /\ UNCHANGED ledger
  BY <1>1, <1>5, InFailed
<1>6. CASE /\ proc[p].dir = "down" /\ ledger' = ledger \ {f}
           /\ proc' = [proc EXCEPT ![p] = NextFile(p)]
  <2>1. upset' = upset \cup {f} /\ upset' # {}
    BY <1>1, <1>6
  <2>2. Advances /\ proc'[p] = NextFile(p)
    <3>1. proc'[p] = NextFile(p) /\ proc' = [q \in Processes |-> proc'[q]]
      BY <1>1, <1>6 DEF SchemaSound
    <3>2. ledger' \subseteq Names /\ upset' \subseteq Names /\ upset \subseteq upset'
      BY <1>1, <1>2, <1>6, <2>1 DEF SchemaSound
    <3>3. \A g \in Names : effect[g] <= effect'[g]
      BY <1>1 DEF SchemaSound
    <3> QED
      BY <1>1, <2>1, <3>1, <3>2, <3>3 DEF Advances, SchemaSound
  <2>3. Progress(p)'
    BY <1>1, <1>2, <2>1, <2>2, NextProgress
  <2>4. AppliedInOrder'
    BY <2>1 DEF AppliedInOrder
  <2> QED
    BY <1>3, <1>6, <2>2, <2>3, <2>4, SchemaMoves
<1> QED
  BY <1>4, <1>5, <1>6 DEF Record

LEMMA InCrash ==
  ASSUME LedgerInv, NEW p \in Processes, Crash(p)
  PROVE  LedgerInv'
<1>1. /\ SchemaSound /\ Progress(p) /\ UNCHANGED <<files, ledger, upset>>
      /\ proc' = [proc EXCEPT ![p] = Idle]
  BY DEF Crash, LedgerInv
<1>2. PICK to : to = Idle
  OBVIOUS
<1>3. to \in Process /\ to.pc = "off" /\ to.dir = "up" /\ to.todo = << >>
  BY <1>2 DEF Idle, Process
<1>4. CASE UNCHANGED effect
  <2>1. proc'[p] = to
    BY <1>1, <1>2 DEF SchemaSound
  <2>2. Progress(p)'
    BY <1>3, <2>1 DEF Progress
  <2> QED
    BY <1>1, <1>2, <1>4, <2>2, ProcessMoves
<1>5. CASE /\ p \in Servers /\ At(p, "script") /\ effect[File(p)] = 0
           /\ \E n \in 1..files[File(p)].len : effect' = [effect EXCEPT ![File(p)] = n]
  <2>1. PICK n \in 1..files[File(p)].len : effect' = [effect EXCEPT ![File(p)] = n]
    BY <1>5
  <2>2. files[File(p)].len \in Nat /\ proc[p].dir = "up"
    BY <1>1, <1>5, AtFile DEF Progress
  <2>3. n \in Nat /\ effect[File(p)] <= n /\ n <= files[File(p)].len
    BY <1>5, <2>1, <2>2
  <2> QED
    BY <1>1, <1>2, <1>3, <1>5, <2>1, <2>2, <2>3, InApply
<1> QED
  BY <1>4, <1>5 DEF Crash

LEMMA LedgerNext == LedgerInv /\ [MigrationsNext]_migrations => LedgerInv'
<1> SUFFICES ASSUME LedgerInv, [MigrationsNext]_migrations PROVE LedgerInv'
  OBVIOUS
<1>1. CASE UNCHANGED migrations
  BY <1>1 DEF migrations, LedgerInv, SchemaSound, LedgerIsTrue, AppliedInOrder, Progress
<1>2. CASE MigrationsNext
  <2>1. PICK p \in Processes :
          \/ Connect(p) \/ CreateAudit(p) \/ Command(p) \/ Check(p) \/ RunScript(p)
          \/ RunStatement(p) \/ ScriptOver(p) \/ Record(p) \/ Finish(p) \/ Crash(p)
    BY <1>2 DEF MigrationsNext, Processes
  <2> QED
    BY <2>1, InStart, InCheck, InScript, InRecord, InCrash
<1> QED
  BY <1>1, <1>2

(* Whatever the files are, and however servers and command lines race, fail *)
(* or die on the way: what the ledger names is in the schema, and nothing   *)
(* of a file is in the schema before the earlier files are in the ledger    *)
(* (DbManager::connect, MigrationRunner).                                   *)
THEOREM LedgerSound ==
  ASSUME NEW fs \in [Names -> Files]
  PROVE  MigrationsSpec(fs) => []LedgerHolds
<1>1. MigrationsInit(fs) => LedgerInv
  BY LedgerInit
<1>2. LedgerInv /\ [MigrationsNext]_migrations => LedgerInv'
  BY LedgerNext
<1>3. LedgerInv => LedgerHolds
  <2> SUFFICES ASSUME LedgerInv PROVE MigrationsTypeOK
    BY DEF LedgerHolds, LedgerInv
  <2>1. SchemaSound /\ \A p \in Processes : Progress(p)
    BY DEF LedgerInv
  <2>2. ASSUME NEW f \in Names PROVE effect[f] \in 0..files[f].len
    <3>1. effect[f] \in Nat /\ effect[f] <= files[f].len /\ files[f].len \in Nat
      BY <2>1 DEF SchemaSound, Files
    <3> QED
      BY <3>1
  <2>3. ASSUME NEW p \in Processes PROVE ToSet(proc[p].todo) \subseteq Names
    <3>1. proc[p].todo \in Seq(Names)
      BY <2>1 DEF Progress, Process
    <3> QED
      BY <3>1 DEF ToSet
  <2> QED
    BY <2>1, <2>2, <2>3 DEF MigrationsTypeOK, SchemaSound, Processes
<1> QED
  BY <1>1, <1>2, <1>3, PTL DEF MigrationsSpec

-----------------------------------------------------------------------------
(* Container: one build of a lazy type by a task, and a boot that is wired. *)

Instance == [type : Types, uses : Seq(Nat), by : Tasks]
Build == [type : Types, uses : Seq(Nat), new : Nat]

Lazy(type) == program.kind[type] = "lazy"

(* Instances made before the last-th, of the first types a type needs.      *)
Fits(type, uses, last) ==
  /\ Len(uses) <= Len(program.needs[type])
  /\ \A k \in 1..Len(uses) : uses[k] \in 1..last /\ made[uses[k]].type = program.needs[type][k]

MadeSound ==
  /\ Linked(program) /\ made \in Seq(Instance)
  /\ \A i \in 1..Len(made) : /\ Fits(made[i].type, made[i].uses, i - 1)
                             /\ Len(made[i].uses) = Len(program.needs[made[i].type])

CacheSound ==
  /\ cache \in [Types -> Nat \cup {Absent}] /\ factories \subseteq Types
  /\ \A type \in Types :
       /\ cache[type] # Absent => cache[type] \in 1..Len(made) /\ made[cache[type]].type = type
       /\ program.kind[type] = "value" => cache[type] # Absent

(* No instance of a type is a task's.                                       *)
NotMade(t, type) == \A i \in 1..Len(made) : made[i].type = type => made[i].by # t

(* The frame wants an instance of a type next.                              *)
Wants(f, type) ==
  /\ f.new = 0 /\ Len(f.uses) < Len(program.needs[f.type])
  /\ program.needs[f.type][Len(f.uses) + 1] = type

(* A task's stack: a frame waits for the one above it, only the innermost   *)
(* has made its instance, and a lazy type under construction is the task's  *)
(* first.                                                                   *)
FrameSound(t, f) ==
  /\ Fits(f.type, f.uses, Len(made))
  /\ f.new # 0 => /\ Len(f.uses) = Len(program.needs[f.type])
                  /\ f.new \in 1..Len(made) /\ made[f.new].type = f.type
  /\ f.new = 0 /\ Lazy(f.type) => NotMade(t, f.type)
StackSound(t, stack) ==
  /\ stack \in Seq(Build)
  /\ \A k \in 1..Len(stack) : FrameSound(t, stack[k])
  /\ \A k \in 2..Len(stack) : Wants(stack[k], stack[k - 1].type)

(* What a task has made of a lazy type is in the cache or about to be.      *)
FoundAgain(t) ==
  \A type \in Types : Lazy(type) /\ cache[type] = Absent /\ ~ NotMade(t, type) =>
    frames[t] # << >> /\ frames[t][1].type = type /\ frames[t][1].new # 0

Reachable(type) == cache[type] # Absent \/ type \in factories
Wired == Verified /\ \A type \in program.provided : Reachable(type)
Booted == boots > 0 /\ fate[Main] = "runs" /\ (hook = 0 \/ boots > 1)

BootSound ==
  /\ boots \in Nat /\ hook \in 0..(Len(program.order) + 1) /\ (hook > 0 => boots > 0)
  /\ boots > 0 /\ (hook > 0 \/ fate[Main] = "runs") => Verified
  /\ \A k \in 1..Len(program.order) : k < hook => Reachable(program.order[k])
  /\ Booted => Wired
  /\ frames[Main] # << >> =>
       /\ hook \in 1..Len(program.order)
       /\ frames[Main][Len(frames[Main])].type = program.order[hook]

(* A handler that resolves does so in a wired container.                    *)
ThreadSound(t) ==
  /\ fate[t] = "runs"
  /\ frames[t] # << >> => Wired /\ \A k \in 1..Len(frames[t]) : frames[t][k].type \in program.provided

ContainerInv ==
  /\ MadeSound /\ CacheSound /\ OneBuildEach /\ BootSound
  /\ frames = [t \in Tasks |-> frames[t]] /\ fate = [t \in Tasks |-> fate[t]]
  /\ \A t \in Tasks : StackSound(t, frames[t]) /\ FoundAgain(t)
  /\ \A t \in Threads : ThreadSound(t)

-----------------------------------------------------------------------------
(* A finite set in some order.                                              *)
LEMMA InSomeOrder ==
  ASSUME NEW S, IsFiniteSet(S)
  PROVE  /\ SetToSeq(S) \in Seq(S)
         /\ \A x \in S : \E i \in 1..Len(SetToSeq(S)) : SetToSeq(S)[i] = x
<1>1. PICK n \in Nat : n = Cardinality(S)
  BY FS_CardinalityType
<1>2. IsFiniteSet(1..n) /\ Cardinality(1..n) = n
  BY FS_Interval
<1>3. PICK g \in Bijection(1..n, S) : TRUE
  BY <1>1, <1>2, FS_SameCardinalityBij DEF ExistsBijection
<1>4. g \in [1..n -> S] /\ IsInjective(g)
  BY <1>3 DEF Bijection, Injection, IsInjective
<1>5. PICK f : f = SetToSeq(S)
  OBVIOUS
<1>6. f \in [1..n -> S] /\ IsInjective(f)
  BY <1>1, <1>4, <1>5 DEF SetToSeq
<1>7. f \in Injection(1..n, S)
  BY <1>6 DEF Injection
<1>8. f \in Surjection(1..n, S)
  BY <1>1, <1>2, <1>7, FS_Injection
<1>9. f \in Seq(S) /\ Len(f) = n
  BY <1>6
<1> QED
  BY <1>5, <1>8, <1>9 DEF Surjection

(* A constructor needs what it needs: of types that all wait for one        *)
(* another none is ever made.                                               *)
LEMMA NoneOfACircle ==
  ASSUME MadeSound, NEW C \in SUBSET Types,
         \A T \in C : \E m \in 1..Len(program.needs[T]) : program.needs[T][m] \in C
  PROVE  \A i \in 1..Len(made) : made[i].type \notin C
<1> DEFINE B == {i \in 1..Len(made) : made[i].type \in C}
<1> SUFFICES ASSUME B # {} PROVE FALSE
  OBVIOUS
<1>1. Len(made) \in Nat /\ B \subseteq Nat
  BY DEF MadeSound
<1>2. PICK x \in B : \A y \in B : ~ (<<y, x>> \in OpToRel(<, Nat))
  BY <1>1, WFMin, NatLessThanWellFounded
<1>3. x \in 1..Len(made) /\ made[x].type \in C /\ \A y \in B : ~ (y < x)
  BY <1>1, <1>2 DEF OpToRel
<1>4. PICK m \in 1..Len(program.needs[made[x].type]) : program.needs[made[x].type][m] \in C
  BY <1>3
<1>5. /\ Len(made[x].uses) = Len(program.needs[made[x].type])
      /\ \A k \in 1..Len(made[x].uses) : made[x].uses[k] \in 1..(x - 1)
           /\ made[made[x].uses[k]].type = program.needs[made[x].type][k]
  BY <1>3 DEF MadeSound, Fits
<1>6. PICK y \in 1..(x - 1) : made[y].type \in C
  BY <1>4, <1>5
<1> QED
  BY <1>1, <1>3, <1>6

(* Frames pushed, handed an instance and popped.                            *)
LEMMA PushedShape ==
  ASSUME NEW stack \in Seq(Build), NEW f \in Build
  PROVE  /\ <<f>> \o stack \in Seq(Build) /\ Len(<<f>> \o stack) = Len(stack) + 1
         /\ (<<f>> \o stack)[1] = f
         /\ \A k \in 1..Len(stack) : (<<f>> \o stack)[k + 1] = stack[k]
         /\ \A k \in 2..(Len(stack) + 1) : (<<f>> \o stack)[k] = stack[k - 1] /\ k - 1 \in 1..Len(stack)
OBVIOUS

LEMMA PoppedShape ==
  ASSUME NEW stack \in Seq(Build), stack # << >>
  PROVE  /\ Len(stack) \in Nat \ {0} /\ stack[1] \in Build /\ Head(stack) = stack[1]
         /\ Tail(stack) \in Seq(Build) /\ Len(Tail(stack)) = Len(stack) - 1
         /\ \A k \in 1..(Len(stack) - 1) : Tail(stack)[k] = stack[k + 1] /\ k + 1 \in 1..Len(stack)
OBVIOUS

LEMMA HandedShape ==
  ASSUME NEW stack \in Seq(Build), stack # << >>, NEW i \in Nat
  PROVE  LET h == Handed(stack, i) IN
         /\ h \in Seq(Build) /\ Len(h) = Len(stack)
         /\ h[1] = [stack[1] EXCEPT !.uses = Append(@, i)] /\ h[1] \in Build
         /\ \A k \in 2..Len(stack) : h[k] = stack[k]
<1>1. PICK f \in Build : f = stack[1]
  BY PoppedShape
<1>2. PICK u : u = Append(f.uses, i)
  OBVIOUS
<1>3. PICK g : g = [f EXCEPT !.uses = u]
  OBVIOUS
<1>4. u \in Seq(Nat)
  BY <1>2 DEF Build
<1>5. g \in Build
  BY <1>3, <1>4 DEF Build
<1>6. PICK rest \in Seq(Build) : rest = Tail(stack)
  BY PoppedShape
<1>7. Handed(stack, i) = <<g>> \o rest
  BY <1>1, <1>2, <1>3, <1>6, PoppedShape DEF Handed
<1>8. /\ Len(rest) = Len(stack) - 1 /\ Len(stack) \in Nat \ {0}
      /\ \A k \in 1..(Len(stack) - 1) : rest[k] = stack[k + 1]
  BY <1>6, PoppedShape
<1>9. \A k \in 2..Len(stack) : rest[k - 1] = stack[k] /\ k - 1 \in 1..Len(rest)
  <2> SUFFICES ASSUME NEW k \in 2..Len(stack) PROVE rest[k - 1] = stack[k] /\ k - 1 \in 1..Len(rest)
    OBVIOUS
  <2>1. k - 1 \in 1..(Len(stack) - 1) /\ (k - 1) + 1 = k
    BY <1>8
  <2> QED
    BY <1>8, <2>1
<1> QED
  BY <1>1, <1>2, <1>3, <1>5, <1>7, <1>8, <1>9, PushedShape

(* They stay sound.                                                         *)
LEMMA PushedSound ==
  ASSUME MadeSound, NEW t \in Tasks, NEW stack, StackSound(t, stack), NEW type \in Types,
         Lazy(type) => NotMade(t, type), stack # << >> => Wants(stack[1], type)
  PROVE  StackSound(t, <<Frame(type)>> \o stack)
<1>1. PICK f : f = Frame(type)
  OBVIOUS
<1>2. f \in Build /\ f.type = type /\ f.uses = << >> /\ f.new = 0
  BY <1>1 DEF Build, Frame
<1>3. PICK h : h = <<f>> \o stack
  OBVIOUS
<1>4. /\ stack \in Seq(Build) /\ h \in Seq(Build) /\ Len(h) = Len(stack) + 1 /\ h[1] = f
      /\ \A k \in 2..Len(h) : h[k] = stack[k - 1] /\ k - 1 \in 1..Len(stack)
  BY <1>2, <1>3, PushedShape DEF StackSound
<1>5. program.needs[type] \in Seq(Types)
  BY DEF MadeSound, Linked
<1>6. FrameSound(t, f)
  BY <1>2, <1>5 DEF FrameSound, Fits
<1>7. \A k \in 1..Len(h) : FrameSound(t, h[k])
  <2> SUFFICES ASSUME NEW k \in 1..Len(h) PROVE FrameSound(t, h[k])
    OBVIOUS
  <2>1. k = 1 \/ k \in 2..Len(h)
    BY <1>4
  <2> QED
    BY <1>4, <1>6, <2>1 DEF StackSound
<1>8. ASSUME NEW k \in 2..Len(h) PROVE Wants(h[k], h[k - 1].type)
  <2>1. CASE k = 2
    <3>1. h[2] = stack[1] /\ stack # << >>
      BY <1>4, <1>8, <2>1
    <3> QED
      BY <1>2, <1>4, <2>1, <3>1
  <2>2. CASE k # 2
    <3>1. h[k] = stack[k - 1] /\ h[k - 1] = stack[(k - 1) - 1] /\ k - 1 \in 2..Len(stack)
      BY <1>4, <1>8, <2>2
    <3> QED
      BY <3>1 DEF StackSound
  <2> QED
    BY <2>1, <2>2
<1> QED
  BY <1>1, <1>3, <1>4, <1>7, <1>8 DEF StackSound

LEMMA PoppedSound ==
  ASSUME NEW t \in Tasks, NEW stack, StackSound(t, stack), stack # << >>
  PROVE  /\ StackSound(t, Tail(stack))
         /\ Tail(stack) # << >> => Wants(Tail(stack)[1], stack[1].type)
<1>1. PICK h : h = Tail(stack)
  OBVIOUS
<1>2. /\ stack \in Seq(Build) /\ h \in Seq(Build) /\ Len(h) = Len(stack) - 1 /\ Len(stack) \in Nat
      /\ \A k \in 1..(Len(stack) - 1) : h[k] = stack[k + 1] /\ k + 1 \in 1..Len(stack)
  BY <1>1, PoppedShape DEF StackSound
<1>3. \A k \in 1..Len(h) : FrameSound(t, h[k])
  BY <1>2 DEF StackSound
<1>4. ASSUME NEW k \in 2..Len(h) PROVE Wants(h[k], h[k - 1].type)
  <2>1. h[k] = stack[k + 1] /\ h[k - 1] = stack[(k - 1) + 1] /\ (k - 1) + 1 = (k + 1) - 1 /\ k + 1 \in 2..Len(stack)
    BY <1>2, <1>4
  <2> QED
    BY <2>1 DEF StackSound
<1>5. h # << >> => Wants(h[1], stack[1].type)
  <2> SUFFICES ASSUME h # << >> PROVE Wants(h[1], stack[1].type)
    OBVIOUS
  <2>1. h[1] = stack[2] /\ 2 \in 2..Len(stack)
    BY <1>2
  <2> QED
    BY <2>1 DEF StackSound
<1> QED
  BY <1>1, <1>2, <1>3, <1>4, <1>5 DEF StackSound

LEMMA HandedSound ==
  ASSUME MadeSound, NEW t \in Tasks, NEW stack, StackSound(t, stack), stack # << >>,
         NEW i \in 1..Len(made), Wants(stack[1], made[i].type)
  PROVE  StackSound(t, Handed(stack, i))
<1>1. PICK h : h = Handed(stack, i)
  OBVIOUS
<1>2. Len(made) \in Nat /\ i \in Nat
  BY DEF MadeSound
<1>3. /\ stack \in Seq(Build) /\ h \in Seq(Build) /\ Len(h) = Len(stack)
      /\ h[1] = [stack[1] EXCEPT !.uses = Append(@, i)] /\ h[1] \in Build
      /\ \A k \in 2..Len(stack) : h[k] = stack[k]
  BY <1>1, <1>2, HandedShape DEF StackSound
<1>4. PICK f \in Build : f = stack[1] /\ FrameSound(t, f) /\ Wants(f, made[i].type)
  BY <1>3, PoppedShape DEF StackSound
<1>5. PICK u : u = Append(f.uses, i)
  OBVIOUS
<1>6. /\ h[1].uses = u /\ h[1].type = f.type /\ h[1].new = 0 /\ f.new = 0
  BY <1>3, <1>4, <1>5 DEF Build, Wants
<1>7. PICK n \in Nat : n = Len(f.uses)
  BY <1>4 DEF Build
<1>8. Len(u) = n + 1 /\ u[n + 1] = i /\ \A k \in 1..n : u[k] = f.uses[k]
  BY <1>2, <1>4, <1>5, <1>7 DEF Build
<1>9. Fits(f.type, u, Len(made))
  <2>1. program.needs[f.type] \in Seq(Types)
    BY <1>4 DEF MadeSound, Linked, Build
  <2>2. Len(u) <= Len(program.needs[f.type])
    BY <1>4, <1>7, <1>8, <2>1 DEF Wants
  <2>3. ASSUME NEW k \in 1..Len(u) PROVE u[k] \in 1..Len(made) /\ made[u[k]].type = program.needs[f.type][k]
    <3>1. CASE k = n + 1
      BY <1>4, <1>7, <1>8, <3>1 DEF Wants
    <3>2. CASE k \in 1..n
      BY <1>4, <1>7, <1>8, <3>2 DEF FrameSound, Fits
    <3> QED
      BY <1>8, <2>3, <3>1, <3>2
  <2> QED
    BY <2>2, <2>3 DEF Fits
<1>10. FrameSound(t, h[1])
  BY <1>4, <1>6, <1>9 DEF FrameSound
<1>11. \A k \in 1..Len(h) : FrameSound(t, h[k])
  <2> SUFFICES ASSUME NEW k \in 1..Len(h) PROVE FrameSound(t, h[k])
    OBVIOUS
  <2>1. k = 1 \/ k \in 2..Len(stack)
    BY <1>3
  <2> QED
    BY <1>3, <1>10, <2>1 DEF StackSound
<1>12. ASSUME NEW k \in 2..Len(h) PROVE Wants(h[k], h[k - 1].type)
  <2>1. h[k] = stack[k] /\ k \in 2..Len(stack)
    BY <1>3
  <2>2. h[k - 1].type = stack[k - 1].type
    <3>1. CASE k = 2
      BY <1>4, <1>6, <3>1
    <3>2. CASE k # 2
      <4>1. k - 1 \in 2..Len(stack)
        BY <1>3, <1>12, <3>2
      <4> QED
        BY <1>3, <4>1
    <3> QED
      BY <3>1, <3>2
  <2> QED
    BY <2>1, <2>2 DEF StackSound
<1> QED
  BY <1>1, <1>3, <1>11, <1>12 DEF StackSound

(* A frame that has all it needs is the only one of its type.               *)
LEMMA NoTwin ==
  ASSUME MadeSound, NEW t \in Tasks, NEW stack, StackSound(t, stack), stack # << >>,
         Len(stack[1].uses) = Len(program.needs[stack[1].type])
  PROVE  \A k \in 2..Len(stack) : stack[k].type # stack[1].type
<1> SUFFICES ASSUME NEW k \in 2..Len(stack), stack[k].type = stack[1].type PROVE FALSE
  OBVIOUS
<1> DEFINE C == {stack[j].type : j \in 1..k}
<1>1. stack \in Seq(Build) /\ Len(stack) \in Nat
  BY DEF StackSound
<1>2. C \subseteq Types
  <2>1. \A j \in 1..k : stack[j] \in Build
    BY <1>1
  <2>2. \A j \in 1..k : stack[j].type \in Types
    BY <2>1 DEF Build
  <2> QED
    BY <2>2
<1>3. \A j \in 2..k : \E m \in 1..Len(program.needs[stack[j].type]) :
         program.needs[stack[j].type][m] = stack[j - 1].type /\ m = Len(stack[j].uses) + 1
  <2> SUFFICES ASSUME NEW j \in 2..k
               PROVE  \E m \in 1..Len(program.needs[stack[j].type]) :
                        program.needs[stack[j].type][m] = stack[j - 1].type /\ m = Len(stack[j].uses) + 1
    OBVIOUS
  <2>1. j \in 2..Len(stack) /\ stack[j] \in Build
    BY <1>1
  <2>2. Wants(stack[j], stack[j - 1].type)
    BY <2>1 DEF StackSound
  <2>3. PICK n \in Nat : n = Len(stack[j].uses)
    BY <2>1 DEF Build
  <2>4. PICK needs \in Seq(Types) : needs = program.needs[stack[j].type]
    BY <2>1 DEF MadeSound, Linked, Build
  <2>5. n < Len(needs) /\ needs[n + 1] = stack[j - 1].type
    BY <2>2, <2>3, <2>4 DEF Wants
  <2>6. n + 1 \in 1..Len(needs)
    BY <2>4, <2>5
  <2> QED
    BY <2>3, <2>4, <2>5, <2>6
<1>4. \A T \in C : \E m \in 1..Len(program.needs[T]) : program.needs[T][m] \in C
  <2> SUFFICES ASSUME NEW j \in 1..k
               PROVE  \E m \in 1..Len(program.needs[stack[j].type]) : program.needs[stack[j].type][m] \in C
    OBVIOUS
  <2>1. CASE j = 1
    <3>1. k \in 2..k /\ k - 1 \in 1..k
      OBVIOUS
    <3> QED
      BY <1>3, <2>1, <3>1
  <2>2. CASE j # 1
    <3>1. j \in 2..k /\ j - 1 \in 1..k
      BY <2>2
    <3> QED
      BY <1>3, <3>1
  <2> QED
    BY <2>1, <2>2
<1>5. \A i \in 1..Len(made) : made[i].type \notin C
  BY <1>2, <1>4, NoneOfACircle
<1>6. PICK m \in 1..Len(stack[1].uses) : program.needs[stack[1].type][m] \in C
  BY <1>1, <1>4, SMTT(30)
<1>7. FrameSound(t, stack[1])
  BY <1>1 DEF StackSound
<1>8. stack[1].uses[m] \in 1..Len(made) /\ made[stack[1].uses[m]].type \in C
  BY <1>6, <1>7 DEF FrameSound, Fits
<1> QED
  BY <1>5, <1>8

-----------------------------------------------------------------------------
(* Steps                                                                    *)

LEMMA StackStays ==
  ASSUME UNCHANGED <<program, made>>, NEW t, NEW stack, StackSound(t, stack)
  PROVE  StackSound(t, stack)'
BY DEF StackSound, FrameSound, Fits, Wants, Lazy, NotMade

LEMMA WiredStays ==
  ASSUME Linked(program), program' = program, factories \subseteq factories',
         \A type \in Types : cache[type] # Absent => cache'[type] # Absent
  PROVE  /\ Wired => Wired'
         /\ \A type \in Types : Reachable(type) => Reachable(type)'
<1>1. \A type \in Types : Reachable(type) => Reachable(type)'
  BY DEF Reachable
<1>2. program.provided \subseteq Types
  BY DEF Linked
<1>3. Verified' = Verified
  BY DEF Verified
<1> QED
  BY <1>1, <1>2, <1>3 DEF Wired

(* A task's stack changes, while the task has nothing to store.             *)
LEMMA StackMoves ==
  ASSUME ContainerInv, NEW t \in Tasks, NEW to, frames' = [frames EXCEPT ![t] = to],
         UNCHANGED <<program, made, cache, factories, boots, hook, fate>>,
         StackSound(t, to), frames[t] = << >> \/ frames[t][1].new = 0,
         t = Main /\ to # << >> =>
           hook \in 1..Len(program.order) /\ to[Len(to)].type = program.order[hook],
         t \in Threads /\ to # << >> => Wired /\ \A k \in 1..Len(to) : to[k].type \in program.provided
  PROVE  ContainerInv'
<1>1. MadeSound' /\ CacheSound' /\ OneBuildEach'
  BY DEF ContainerInv, MadeSound, CacheSound, OneBuildEach, Fits
<1>2. frames'[t] = to /\ \A q \in Tasks : q # t => frames'[q] = frames[q]
  BY DEF ContainerInv
<1>3. Wired' = Wired /\ Booted' = Booted /\ Verified' = Verified
      /\ \A type : Reachable(type)' = Reachable(type)
  BY DEF Wired, Booted, Verified, Reachable
<1>4. BootSound'
  <2>1. Main \in Tasks /\ BootSound
    BY DEF Tasks, ContainerInv
  <2>2. CASE t = Main
    BY <1>2, <1>3, <2>1, <2>2 DEF BootSound
  <2>3. CASE t # Main
    BY <1>2, <1>3, <2>1, <2>3 DEF BootSound
  <2> QED
    BY <2>2, <2>3
<1>5. ASSUME NEW q \in Tasks PROVE StackSound(q, frames[q])' /\ FoundAgain(q)'
  <2>1. PICK stack : stack = frames'[q]
    OBVIOUS
  <2>2. StackSound(q, stack)
    BY <1>2, <2>1 DEF ContainerInv
  <2>3. StackSound(q, stack)'
    BY <2>2, StackStays
  <2>4. StackSound(q, frames[q])'
    BY <2>1, <2>3
  <2>5. FoundAgain(q)
    BY DEF ContainerInv
  <2>6. q = t => \A type \in Types : Lazy(type) /\ cache[type] = Absent => NotMade(q, type)
    BY <2>5 DEF FoundAgain
  <2>7. FoundAgain(q)'
    <3>1. CASE q = t
      BY <2>6, <3>1 DEF FoundAgain, NotMade, Lazy
    <3>2. CASE q # t
      <4>1. frames'[q] = frames[q]
        BY <1>2, <3>2
      <4> QED
        BY <2>5, <4>1 DEF FoundAgain, NotMade, Lazy
    <3> QED
      BY <3>1, <3>2
  <2> QED
    BY <2>4, <2>7
<1>6. ASSUME NEW q \in Threads PROVE ThreadSound(q)'
  <2>1. q \in Tasks /\ ThreadSound(q)
    BY DEF Tasks, ContainerInv
  <2>2. CASE q = t
    BY <1>2, <1>3, <2>1, <2>2 DEF ThreadSound
  <2>3. CASE q # t
    BY <1>2, <1>3, <2>1, <2>3 DEF ThreadSound
  <2> QED
    BY <2>2, <2>3
<1>7. frames' = [q \in Tasks |-> frames'[q]] /\ fate' = [q \in Tasks |-> fate'[q]]
  BY DEF ContainerInv
<1> QED
  BY <1>1, <1>4, <1>5, <1>6, <1>7 DEF ContainerInv

LEMMA InResolve ==
  ASSUME ContainerInv, NEW t \in Tasks, NEW type \in Types, Resolve(t, type),
         UNCHANGED <<program, made, cache, factories, boots, hook>>,
         frames[t] # << >> => Wants(frames[t][1], type),
         t \in Threads => Wired /\ type \in program.provided, t = Main => frames[Main] # << >>
  PROVE  ContainerInv'
<1>1. /\ MadeSound /\ CacheSound /\ BootSound /\ FoundAgain(t)
      /\ t \in Threads => ThreadSound(t)
  BY DEF ContainerInv
<1>2. PICK stack \in Seq(Build) : stack = frames[t] /\ StackSound(t, stack)
  BY DEF ContainerInv, StackSound
<1>3. frames[t] = << >> \/ frames[t][1].new = 0
  BY DEF Wants
<1>4. Len(stack) \in Nat /\ (stack # << >> => Len(stack) >= 1)
  BY <1>2
<1>5. /\ t = Main /\ stack # << >> =>
           hook \in 1..Len(program.order) /\ stack[Len(stack)].type = program.order[hook]
      /\ t \in Threads /\ stack # << >> => Wired /\ \A k \in 1..Len(stack) : stack[k].type \in program.provided
  BY <1>1, <1>2 DEF BootSound, ThreadSound
<1>6. CASE cache[type] # Absent
  <2>1. PICK i \in 1..Len(made) : i = cache[type] /\ made[i].type = type
    BY <1>1, <1>6 DEF CacheSound
  <2>2. i \in Nat
    BY <1>1 DEF MadeSound
  <2>3. PICK to : to = Handed(stack, i)
    OBVIOUS
  <2>4. frames' = [frames EXCEPT ![t] = to] /\ fate' = fate
    BY <1>2, <1>6, <2>1, <2>3 DEF Resolve
  <2>5. CASE stack = << >>
    <3>1. to = << >>
      BY <2>3, <2>5 DEF Handed
    <3> QED
      BY <1>2, <1>3, <2>4, <2>5, <3>1, StackMoves
  <2>6. CASE stack # << >>
    <3>1. Wants(stack[1], made[i].type)
      BY <1>2, <2>1, <2>6
    <3>2. StackSound(t, to)
      BY <1>1, <1>2, <2>3, <2>6, <3>1, HandedSound
    <3>3. to \in Seq(Build) /\ Len(to) = Len(stack) /\ to # << >> /\ \A k \in 1..Len(stack) : to[k].type = stack[k].type
      <4>1. /\ to \in Seq(Build) /\ Len(to) = Len(stack) /\ \A k \in 2..Len(stack) : to[k] = stack[k]
            /\ to[1] = [stack[1] EXCEPT !.uses = Append(@, i)]
        BY <2>2, <2>3, <2>6, HandedShape
      <4>2. to[1].type = stack[1].type
        BY <2>6, <4>1, PoppedShape DEF Build
      <4>3. \A k \in 1..Len(stack) : k = 1 \/ k \in 2..Len(stack)
        BY <1>4
      <4>4. to # << >>
        BY <1>4, <2>6, <4>1
      <4> QED
        BY <4>1, <4>2, <4>3, <4>4
    <3>4. to[Len(to)].type = stack[Len(stack)].type
      BY <1>4, <2>6, <3>3
    <3> QED
      BY <1>3, <1>5, <2>4, <2>6, <3>2, <3>3, <3>4, StackMoves
  <2> QED
    BY <2>5, <2>6
<1>7. CASE cache[type] = Absent /\ type \in factories
  <2>1. PICK to : to = <<Frame(type)>> \o stack
    OBVIOUS
  <2>2. frames' = [frames EXCEPT ![t] = to] /\ fate' = fate
    BY <1>2, <1>7, <2>1 DEF Resolve
  <2>3. Lazy(type) => NotMade(t, type)
    BY <1>1, <1>3, <1>7 DEF FoundAgain
  <2>4. StackSound(t, to)
    BY <1>1, <1>2, <2>1, <2>3, PushedSound
  <2>5. Frame(type) \in Build /\ Frame(type).type = type
    BY DEF Frame, Build
  <2>6. /\ Len(to) = Len(stack) + 1 /\ to[1].type = type
        /\ \A k \in 2..(Len(stack) + 1) : to[k] = stack[k - 1] /\ k - 1 \in 1..Len(stack)
    BY <1>2, <2>1, <2>5, PushedShape
  <2>7. stack # << >> => to[Len(to)] = stack[Len(stack)]
    <3> SUFFICES ASSUME stack # << >> PROVE to[Len(to)] = stack[Len(stack)]
      OBVIOUS
    <3>1. Len(to) \in 2..(Len(stack) + 1) /\ Len(to) - 1 = Len(stack)
      BY <1>4, <2>6
    <3> QED
      BY <2>6, <3>1
  <2>8. t \in Threads => Wired /\ \A k \in 1..Len(to) : to[k].type \in program.provided
    <3> SUFFICES ASSUME t \in Threads, NEW k \in 1..Len(to) PROVE to[k].type \in program.provided
      OBVIOUS
    <3>1. k = 1 \/ k \in 2..(Len(stack) + 1)
      BY <1>4, <2>6
    <3> QED
      BY <1>4, <1>5, <2>6, <3>1
  <2> QED
    BY <1>2, <1>3, <1>5, <2>2, <2>4, <2>7, <2>8, StackMoves
<1>8. CASE cache[type] = Absent /\ type \notin factories
  <2>1. frames' = frames /\ fate' = [fate EXCEPT ![t] = "unresolved"]
    BY <1>8 DEF Resolve
  <2>2. t \notin Threads
    BY <1>8 DEF Wired, Reachable
  <2>3. t = Main /\ Main \in Tasks
    BY <2>2 DEF Tasks
  <2>4. fate'[Main] = "unresolved" /\ \A q \in Threads : fate'[q] = fate[q] /\ q \in Tasks
    BY <2>1, <2>2, <2>3 DEF ContainerInv, Tasks
  <2>5. MadeSound' /\ CacheSound' /\ OneBuildEach'
    BY DEF ContainerInv, MadeSound, CacheSound, OneBuildEach, Fits
  <2>6. Wired' = Wired /\ ~ Booted' /\ Verified' = Verified
        /\ \A x : Reachable(x)' = Reachable(x)
    BY <2>4 DEF Wired, Booted, Verified, Reachable
  <2>7. BootSound'
    <3>1. hook > 0 /\ boots > 0 /\ Verified
      BY <1>1, <2>3 DEF BootSound
    <3> QED
      BY <1>1, <2>1, <2>6, <3>1 DEF BootSound
  <2>8. \A q \in Threads : ThreadSound(q)'
    BY <2>1, <2>4, <2>6 DEF ContainerInv, ThreadSound
  <2>9. ASSUME NEW q \in Tasks PROVE StackSound(q, frames[q])' /\ FoundAgain(q)'
    <3>1. PICK s : s = frames[q]
      OBVIOUS
    <3>2. StackSound(q, s) /\ FoundAgain(q)
      BY <3>1 DEF ContainerInv
    <3>3. StackSound(q, s)'
      BY <3>2, StackStays
    <3>4. FoundAgain(q)'
      BY <2>1, <3>2 DEF FoundAgain, NotMade, Lazy
    <3> QED
      BY <2>1, <3>1, <3>3, <3>4
  <2>10. frames' = [q \in Tasks |-> frames'[q]] /\ fate' = [q \in Tasks |-> fate'[q]]
    BY <2>1 DEF ContainerInv
  <2> QED
    BY <2>5, <2>7, <2>8, <2>9, <2>10 DEF ContainerInv
<1> QED
  BY <1>6, <1>7, <1>8

(* A step that leaves the stacks and the instances alone.                   *)
LEMMA BootMoves ==
  ASSUME ContainerInv, UNCHANGED <<program, made, cache, frames>>,
         factories \subseteq factories', factories' \subseteq Types,
         fate' = [t \in Tasks |-> fate'[t]], \A t \in Threads : fate'[t] = fate[t], BootSound'
  PROVE  ContainerInv'
<1>1. MadeSound' /\ CacheSound' /\ OneBuildEach'
  BY DEF ContainerInv, MadeSound, CacheSound, OneBuildEach, Fits
<1>2. Wired => Wired'
  BY WiredStays DEF ContainerInv, MadeSound
<1>3. \A t \in Threads : ThreadSound(t)'
  BY <1>2 DEF ContainerInv, ThreadSound
<1>4. ASSUME NEW t \in Tasks PROVE StackSound(t, frames[t])' /\ FoundAgain(t)'
  <2>1. PICK stack : stack = frames[t]
    OBVIOUS
  <2>2. StackSound(t, stack) /\ FoundAgain(t)
    BY <2>1 DEF ContainerInv
  <2>3. StackSound(t, stack)'
    BY <2>2, StackStays
  <2>4. FoundAgain(t)'
    BY <2>2 DEF FoundAgain, NotMade, Lazy
  <2> QED
    BY <2>1, <2>3, <2>4
<1>5. frames' = [t \in Tasks |-> frames'[t]]
  BY DEF ContainerInv
<1> QED
  BY <1>1, <1>3, <1>4, <1>5 DEF ContainerInv

LEMMA InBoot ==
  ASSUME ContainerInv, Boot \/ RunHook \/ BootOver
  PROVE  ContainerInv'
<1>1. /\ MadeSound /\ CacheSound /\ BootSound /\ Linked(program) /\ Main \in Tasks
      /\ fate = [t \in Tasks |-> fate[t]] /\ \A t \in Threads : t \in Tasks /\ t # Main
  BY ContainerAssumption DEF ContainerInv, MadeSound, Tasks
<1>2. PICK n \in Nat : n = Len(program.order)
  BY <1>1 DEF Linked
<1>3. boots \in Nat /\ hook \in 0..(n + 1)
  BY <1>1, <1>2 DEF BootSound
<1>4. CASE Boot
  <2>1. hook = 0 /\ fate[Main] = "runs" /\ boots' = boots + 1
        /\ UNCHANGED <<program, made, cache, factories, frames, asks>>
    BY <1>4 DEF Boot
  <2>2. frames[Main] = << >>
    BY <1>1, <1>2, <1>3, <2>1 DEF BootSound
  <2>3. /\ Verified' = Verified /\ Wired' = Wired
        /\ \A type : Reachable(type)' = Reachable(type)
    BY <2>1 DEF Verified, Wired, Reachable
  <2>4. boots > 0 => Wired
    BY <1>1, <2>1 DEF BootSound, Booted
  <2>5. CASE Verified /\ hook' = 1 /\ fate' = fate
    <3>1. boots' \in Nat /\ boots' > 0 /\ hook' \in 0..(n + 1) /\ hook' > 0
      BY <1>2, <1>3, <2>1, <2>5
    <3>2. \A k \in 1..n : ~ (k < hook')
      BY <2>5
    <3>3. Booted' => Wired'
      <4>1. boots' > 1 => boots > 0
        BY <1>3, <2>1
      <4> QED
        BY <2>3, <2>4, <2>5, <4>1 DEF Booted
    <3>4. BootSound'
      BY <1>2, <2>1, <2>2, <2>3, <2>5, <3>1, <3>2, <3>3 DEF BootSound
    <3> QED
      BY <1>1, <2>1, <2>5, <3>4, BootMoves DEF CacheSound
  <2>6. CASE hook' = hook /\ fate' = [fate EXCEPT ![Main] = "incomplete"]
    <3>1. /\ fate'[Main] = "incomplete" /\ \A t \in Threads : fate'[t] = fate[t]
          /\ fate' = [t \in Tasks |-> fate'[t]]
      BY <1>1, <2>6
    <3>2. boots' \in Nat
      BY <1>3, <2>1
    <3>3. BootSound'
      BY <1>1, <1>2, <2>1, <2>2, <2>3, <2>6, <3>1, <3>2 DEF BootSound, Booted
    <3> QED
      BY <1>1, <2>1, <3>1, <3>3, BootMoves DEF CacheSound
  <2> QED
    BY <1>4, <2>5, <2>6 DEF Boot
<1>5. CASE RunHook
  <2>1. /\ hook \in 1..n /\ frames[Main] = << >> /\ fate[Main] = "runs"
        /\ UNCHANGED <<program, made, cache, boots, fate, asks>>
    BY <1>2, <1>5 DEF RunHook
  <2>2. PICK type \in Types : type = program.order[hook]
    BY <1>1, <1>2, <2>1 DEF Linked
  <2>3. CASE Lazy(type) /\ factories' = factories \cup {type} /\ hook' = hook + 1 /\ frames' = frames
    <3>1. /\ Wired => Wired'
          /\ \A x \in Types : Reachable(x) => Reachable(x)'
      BY <1>1, <2>1, <2>3, WiredStays
    <3>2. Reachable(type)'
      BY <2>3 DEF Reachable
    <3>3. hook' \in 0..(n + 1) /\ hook' > 0
      BY <2>1, <2>3
    <3>4. ASSUME NEW k \in 1..n, k < hook' PROVE Reachable(program.order[k])'
      <4>1. PICK x \in Types : x = program.order[k]
        BY <1>1, <1>2 DEF Linked
      <4>2. k < hook \/ k = hook
        BY <2>1, <2>3, <3>4
      <4>3. Reachable(x)'
        BY <1>1, <1>2, <2>2, <3>1, <3>2, <4>1, <4>2 DEF BootSound
      <4> QED
        BY <2>1, <4>1, <4>3 DEF Reachable
    <3>5. Booted' => Wired'
      BY <1>1, <2>1, <3>1, <3>3 DEF BootSound, Booted
    <3>6. Verified'
      BY <1>1, <2>1 DEF BootSound, Verified
    <3>7. BootSound'
      BY <1>1, <1>2, <2>1, <2>3, <3>3, <3>4, <3>5, <3>6 DEF BootSound
    <3> QED
      BY <1>1, <2>1, <2>3, <3>7, BootMoves DEF CacheSound
  <2>4. CASE ~ Lazy(type) /\ frames' = [frames EXCEPT ![Main] = <<Frame(type)>>] /\ UNCHANGED <<factories, hook>>
    <3>1. << >> \in Seq(Build) /\ StackSound(Main, << >>)
      BY DEF StackSound
    <3>2. PICK to : to = <<Frame(type)>> \o << >>
      OBVIOUS
    <3>3. StackSound(Main, to)
      BY <1>1, <2>4, <3>1, <3>2, PushedSound
    <3>4. Frame(type) \in Build /\ Frame(type).type = type
      BY DEF Frame, Build
    <3>5. to = <<Frame(type)>> /\ Len(to) = 1 /\ to[1] = Frame(type)
      BY <3>2, <3>4
    <3> QED
      BY <1>1, <1>2, <2>1, <2>2, <2>4, <3>3, <3>4, <3>5, StackMoves
  <2> QED
    BY <1>5, <2>2, <2>3, <2>4 DEF RunHook, Lazy
<1>6. CASE BootOver
  <2>1. hook = n + 1 /\ hook' = 0
        /\ UNCHANGED <<program, made, cache, factories, boots, frames, fate, asks>>
    BY <1>2, <1>6 DEF BootOver
  <2>2. /\ Verified' = Verified /\ Wired' = Wired
        /\ \A type : Reachable(type)' = Reachable(type)
    BY <2>1 DEF Verified, Wired, Reachable
  <2>3. Verified /\ boots > 0
    BY <1>1, <1>2, <2>1 DEF BootSound
  <2>4. ASSUME NEW type \in program.provided PROVE Reachable(type)
    <3>1. type \in Types /\ (program.kind[type] = "value" \/ type \in ToSet(program.order))
      BY <1>1 DEF Linked
    <3>2. CASE program.kind[type] = "value"
      BY <1>1, <3>1, <3>2 DEF CacheSound, Reachable
    <3>3. CASE type \in ToSet(program.order)
      <4>1. PICK k \in 1..n : program.order[k] = type
        <5>1. PICK order \in Seq(Types) : order = program.order
          BY <1>1 DEF Linked
        <5>2. \E k \in 1..Len(order) : order[k] = type
          BY <3>3, <5>1 DEF ToSet
        <5> QED
          BY <1>2, <5>1, <5>2
      <4> QED
        BY <1>1, <1>2, <2>1, <4>1 DEF BootSound
    <3> QED
      BY <3>1, <3>2, <3>3
  <2>5. Wired
    BY <2>3, <2>4 DEF Wired
  <2>6. frames[Main] = << >>
    BY <1>1, <1>2, <2>1 DEF BootSound
  <2>7. BootSound'
    BY <1>1, <1>2, <2>1, <2>2, <2>3, <2>5, <2>6 DEF BootSound
  <2> QED
    BY <1>1, <2>1, <2>7, BootMoves DEF CacheSound
<1> QED
  BY <1>4, <1>5, <1>6

LEMMA InTask ==
  ASSUME ContainerInv, (\E t \in Threads : Ask(t)) \/ \E t \in Tasks : Depend(t)
  PROVE  ContainerInv'
<1>1. /\ MadeSound /\ BootSound /\ Linked(program) /\ \A t \in Threads : t \in Tasks /\ t # Main
  BY ContainerAssumption DEF ContainerInv, MadeSound, Tasks
<1>2. ASSUME NEW t \in Threads, Ask(t) PROVE ContainerInv'
  <2>1. PICK type \in program.provided : Resolve(t, type)
    BY <1>2 DEF Ask
  <2>2. /\ frames[t] = << >> /\ UNCHANGED <<program, made, cache, factories, boots, hook>>
        /\ Booted /\ type \in Types
    BY <1>1, <1>2 DEF Ask, Booted, Linked
  <2>3. Wired
    BY <1>1, <2>2 DEF BootSound
  <2> QED
    BY <1>1, <2>1, <2>2, <2>3, InResolve
<1>3. ASSUME NEW t \in Tasks, Depend(t) PROVE ContainerInv'
  <2>1. PICK stack \in Seq(Build) : stack = frames[t] /\ StackSound(t, stack) /\ stack # << >>
    BY <1>3 DEF ContainerInv, StackSound, Depend, Building
  <2>2. PICK f \in Build : f = stack[1] /\ f = Head(stack)
    BY <2>1, PoppedShape
  <2>3. PICK needs \in Seq(Types) : needs = program.needs[f.type]
    BY <1>1, <2>2 DEF Linked, Build
  <2>4. PICK n \in Nat : n = Len(f.uses)
    BY <2>2 DEF Build
  <2>5. /\ f.new = 0 /\ n < Len(needs) /\ Resolve(t, needs[n + 1])
        /\ UNCHANGED <<program, made, cache, factories, boots, hook>>
    BY <1>3, <2>1, <2>2, <2>3, <2>4 DEF Depend, Received, Needs
  <2>6. PICK type \in Types : type = needs[n + 1] /\ n + 1 \in 1..Len(needs)
    BY <2>3, <2>4, <2>5
  <2>7. Wants(frames[t][1], type)
    BY <2>1, <2>2, <2>3, <2>4, <2>5, <2>6 DEF Wants
  <2>8. t \in Threads => Wired /\ type \in program.provided
    <3> SUFFICES ASSUME t \in Threads PROVE Wired /\ type \in program.provided
      OBVIOUS
    <3>1. Wired /\ f.type \in program.provided
      <4>1. 1 \in 1..Len(stack) /\ ThreadSound(t)
        BY <2>1 DEF ContainerInv
      <4> QED
        BY <2>1, <2>2, <4>1 DEF ThreadSound
    <3>2. type \in ToSet(needs)
      BY <2>3, <2>6 DEF ToSet
    <3> QED
      BY <2>3, <3>1, <3>2 DEF Wired, Verified
  <2>9. Resolve(t, type)
    BY <2>5, <2>6
  <2> QED
    BY <2>1, <2>5, <2>7, <2>8, <2>9, InResolve
<1> QED
  BY <1>2, <1>3

(* A task makes an instance.                                                *)
LEMMA StackGrows ==
  ASSUME MadeSound, NEW t, NEW new \in Instance, made' = Append(made, new), program' = program,
         new.by # t, NEW stack, StackSound(t, stack)
  PROVE  StackSound(t, stack)'
<1>1. PICK n \in Nat : n = Len(made)
  BY DEF MadeSound
<1>2. Len(made') = n + 1 /\ made'[n + 1] = new /\ \A i \in 1..n : made'[i] = made[i]
  BY <1>1 DEF MadeSound
<1>3. ASSUME NEW f, FrameSound(t, f) PROVE FrameSound(t, f)'
  <2>1. Fits(f.type, f.uses, n)
    BY <1>1, <1>3 DEF FrameSound
  <2>2. Fits(f.type, f.uses, n + 1)'
    BY <1>1, <1>2, <2>1 DEF Fits
  <2>3. f.new = 0 /\ Lazy(f.type) => NotMade(t, f.type)'
    BY <1>1, <1>2, <1>3 DEF FrameSound, NotMade
  <2>4. f.new # 0 => f.new \in 1..(n + 1) /\ made'[f.new].type = f.type
    BY <1>1, <1>2, <1>3 DEF FrameSound
  <2> QED
    BY <1>2, <1>3, <2>2, <2>3, <2>4 DEF FrameSound, Lazy
<1> QED
  BY <1>3 DEF StackSound, Wants

LEMMA InConstruct ==
  ASSUME ContainerInv, NEW t \in Tasks, Construct(t)
  PROVE  ContainerInv'
<1>1. /\ MadeSound /\ CacheSound /\ BootSound /\ OneBuildEach /\ Linked(program) /\ FoundAgain(t)
      /\ \A q \in Threads : q \in Tasks /\ q # Main
      /\ UNCHANGED <<program, cache, factories, boots, hook, fate>>
  BY ContainerAssumption DEF ContainerInv, MadeSound, Tasks, Construct
<1>2. PICK stack \in Seq(Build) : stack = frames[t] /\ StackSound(t, stack) /\ stack # << >>
  BY DEF ContainerInv, StackSound, Construct, Building
<1>3. PICK f \in Build : f = stack[1] /\ f = Head(stack) /\ FrameSound(t, f)
  BY <1>2, PoppedShape DEF StackSound
<1>4. PICK n \in Nat : n = Len(made)
  BY <1>1 DEF MadeSound
<1>5. PICK new : new = [type |-> f.type, uses |-> f.uses, by |-> t]
  OBVIOUS
<1>6. new \in Instance /\ new.type = f.type /\ new.uses = f.uses /\ new.by = t /\ f.type \in Types
  BY <1>5 DEF Instance, Build
<1>7. /\ made' = Append(made, new) /\ f.new = 0 /\ Len(f.uses) = Len(program.needs[f.type])
      /\ frames' = [frames EXCEPT ![t][1].new = Len(made')]
  BY <1>2, <1>3, <1>5 DEF Construct, Received, Needs
<1>8. /\ made' \in Seq(Instance) /\ Len(made') = n + 1 /\ made'[n + 1] = new
      /\ \A i \in 1..n : made'[i] = made[i]
  BY <1>1, <1>4, <1>6, <1>7 DEF MadeSound
<1>9. PICK top : top = [f EXCEPT !.new = n + 1]
  OBVIOUS
<1>10. top \in Build /\ top.type = f.type /\ top.uses = f.uses /\ top.new = n + 1
  <2>1. PICK m \in Nat : m = n + 1
    OBVIOUS
  <2>2. top = [f EXCEPT !.new = m]
    BY <1>9, <2>1
  <2>3. top \in Build /\ top.type = f.type /\ top.uses = f.uses /\ top.new = m
    BY <2>2 DEF Build
  <2> QED
    BY <2>1, <2>3
<1>11. PICK to : to = [stack EXCEPT ![1] = top]
  OBVIOUS
<1>12. /\ Len(stack) \in Nat \ {0} /\ to \in Seq(Build) /\ Len(to) = Len(stack) /\ to[1] = top
       /\ \A k \in 2..Len(stack) : to[k] = stack[k]
  BY <1>2, <1>10, <1>11
<1>13. \A k \in 1..Len(stack) : k = 1 \/ k \in 2..Len(stack)
  BY <1>12
<1>14. \A k \in 1..Len(stack) : to[k].type = stack[k].type
  BY <1>3, <1>10, <1>12, <1>13
<1>15. frames' = [frames EXCEPT ![t] = to]
  BY <1>2, <1>3, <1>7, <1>8, <1>9, <1>11 DEF ContainerInv
<1>16. frames'[t] = to /\ \A q \in Tasks : q # t => frames'[q] = frames[q]
  BY <1>15 DEF ContainerInv
<1>17. MadeSound'
  <2> SUFFICES ASSUME NEW i \in 1..(n + 1)
               PROVE  /\ Fits(made[i].type, made[i].uses, i - 1)'
                      /\ Len(made'[i].uses) = Len(program.needs[made'[i].type])
    BY <1>1, <1>8 DEF MadeSound
  <2>1. CASE i = n + 1
    <3>1. \A k \in 1..Len(f.uses) : f.uses[k] \in 1..n /\ made[f.uses[k]].type = program.needs[f.type][k]
      BY <1>3, <1>4 DEF FrameSound, Fits
    <3>2. Len(f.uses) \in Nat
      BY DEF Build
    <3>3. \A k \in 1..Len(f.uses) : f.uses[k] \in 1..n /\ made'[f.uses[k]].type = program.needs[f.type][k]
      BY <1>8, <3>1
    <3>4. made'[i].type = f.type /\ made'[i].uses = f.uses /\ i - 1 = n
      BY <1>6, <1>8, <2>1
    <3>5. /\ Len(f.uses) <= Len(program'.needs[f.type])
          /\ \A k \in 1..Len(f.uses) : f.uses[k] \in 1..n /\ made'[f.uses[k]].type = program'.needs[f.type][k]
      <4>1. program' = program
        BY <1>1
      <4>2. Len(f.uses) <= Len(program.needs[f.type])
        BY <1>7, <3>2
      <4> QED
        BY <3>3, <4>1, <4>2
    <3>6. Fits(made[i].type, made[i].uses, i - 1)'
      BY <3>4, <3>5 DEF Fits
    <3> QED
      BY <1>7, <3>4, <3>6
  <2>2. CASE i \in 1..n
    <3>1. made'[i] = made[i] /\ Fits(made[i].type, made[i].uses, i - 1)
          /\ Len(made[i].uses) = Len(program.needs[made[i].type])
      BY <1>1, <1>4, <1>8, <2>2 DEF MadeSound
    <3>2. \A j \in 1..(i - 1) : made'[j] = made[j]
      BY <1>8, <2>2
    <3> QED
      BY <1>1, <3>1, <3>2 DEF Fits
  <2> QED
    BY <2>1, <2>2
<1>18. CacheSound'
  <2>1. \A i \in 1..n : i \in 1..(n + 1) /\ made'[i] = made[i]
    BY <1>8
  <2>2. \A type \in Types : cache[type] # Absent =>
          cache[type] \in 1..(n + 1) /\ made'[cache[type]].type = type
    BY <1>1, <1>4, <2>1 DEF CacheSound
  <2> QED
    BY <1>1, <1>8, <2>2 DEF CacheSound
<1>19. OneBuildEach'
  <2>1. DOMAIN made = 1..n /\ DOMAIN made' = 1..(n + 1)
    BY <1>1, <1>4, <1>8 DEF MadeSound
  <2>2. Lazy(f.type) => \A i \in 1..n : made[i].type = f.type => made[i].by # t
    BY <1>3, <1>4, <1>7 DEF FrameSound, NotMade
  <2>3. \A i, j \in 1..n : program.kind[made[i].type] = "lazy" /\ made[i].type = made[j].type
                             /\ made[i].by = made[j].by => i = j
    BY <1>1, <2>1 DEF OneBuildEach
  <2>4. \A i \in 1..(n + 1) : i = n + 1 \/ i \in 1..n
    BY <1>4
  <2> QED
    BY <1>1, <1>6, <1>8, <2>1, <2>2, <2>3, <2>4 DEF OneBuildEach, Lazy
<1>20. Wired' = Wired /\ Booted' = Booted /\ Verified' = Verified
       /\ \A type : Reachable(type)' = Reachable(type)
  BY <1>1 DEF Wired, Booted, Verified, Reachable
<1>21. BootSound'
  <2>1. t # Main => frames'[Main] = frames[Main]
    BY <1>16 DEF Tasks
  <2>2. t = Main => frames[Main] = stack /\ frames'[Main] = to /\ Len(to) = Len(stack)
                    /\ to[Len(to)].type = stack[Len(stack)].type
    BY <1>2, <1>12, <1>14, <1>16
  <2>3. frames'[Main] # << >> =>
          /\ hook \in 1..Len(program.order)
          /\ frames'[Main][Len(frames'[Main])].type = program.order[hook]
    BY <1>1, <1>2, <2>1, <2>2 DEF BootSound
  <2> QED
    BY <1>1, <1>20, <2>3 DEF BootSound
<1>22. StackSound(t, to)'
  <2>1. \A k \in 2..Len(stack) : stack[k].type # f.type
    BY <1>1, <1>2, <1>3, <1>7, NoTwin
  <2>2. ASSUME NEW g, FrameSound(t, g), g.type # f.type PROVE FrameSound(t, g)'
    <3>1. Fits(g.type, g.uses, n)
      BY <1>4, <2>2 DEF FrameSound
    <3>2. Fits(g.type, g.uses, n + 1)'
      BY <1>1, <1>4, <1>8, <3>1 DEF Fits
    <3>3. g.new = 0 /\ Lazy(g.type) => NotMade(t, g.type)'
      BY <1>4, <1>6, <1>8, <2>2 DEF FrameSound, NotMade
    <3>4. g.new # 0 => g.new \in 1..(n + 1) /\ made'[g.new].type = g.type
      BY <1>4, <1>8, <2>2 DEF FrameSound
    <3> QED
      BY <1>1, <1>8, <2>2, <3>2, <3>3, <3>4 DEF FrameSound, Lazy
  <2>3. FrameSound(t, top)'
    <3>1. Fits(f.type, f.uses, n)
      BY <1>3, <1>4 DEF FrameSound
    <3>2. Fits(f.type, f.uses, n + 1)'
      BY <1>1, <1>4, <1>8, <3>1 DEF Fits
    <3>3. top.new # 0 /\ top.new \in 1..(n + 1) /\ made'[top.new].type = top.type
      BY <1>4, <1>6, <1>8, <1>10
    <3> QED
      BY <1>1, <1>7, <1>8, <1>10, <3>2, <3>3 DEF FrameSound
  <2>4. \A k \in 2..Len(stack) : FrameSound(t, to[k])'
    BY <1>2, <1>12, <2>1, <2>2 DEF StackSound
  <2>5. ASSUME NEW k \in 2..Len(to) PROVE Wants(to[k], to[k - 1].type)'
    <3>1. k - 1 \in 1..Len(stack) /\ k \in 2..Len(stack)
      BY <1>12, <2>5
    <3>2. to[k] = stack[k] /\ to[k - 1].type = stack[k - 1].type
      BY <1>12, <1>14, <3>1
    <3>3. Wants(stack[k], stack[k - 1].type)
      BY <1>2, <3>1 DEF StackSound
    <3> QED
      BY <1>1, <3>2, <3>3 DEF Wants
  <2>6. \A k \in 1..Len(to) : FrameSound(t, to[k])'
    BY <1>12, <1>13, <2>3, <2>4
  <2> QED
    BY <1>12, <2>5, <2>6 DEF StackSound
<1>23. ASSUME NEW q \in Tasks PROVE StackSound(q, frames[q])' /\ FoundAgain(q)'
  <2>1. CASE q = t
    <3>1. \A type \in Types : Lazy(type) /\ cache[type] = Absent => NotMade(t, type)
      BY <1>1, <1>2, <1>3, <1>7 DEF FoundAgain
    <3>2. ASSUME NEW type \in Types, type # f.type, NotMade(t, type) PROVE NotMade(t, type)'
      BY <1>4, <1>6, <1>8, <3>2 DEF NotMade
    <3>3. to # << >> /\ to[1].type = f.type /\ to[1].new # 0
      BY <1>10, <1>12
    <3>4. FoundAgain(t)'
      BY <1>1, <1>16, <3>1, <3>2, <3>3 DEF FoundAgain, Lazy
    <3> QED
      BY <1>16, <1>22, <2>1, <3>4
  <2>2. CASE q # t
    <3>1. PICK s : s = frames[q]
      OBVIOUS
    <3>2. StackSound(q, s) /\ FoundAgain(q) /\ frames'[q] = s
      BY <1>16, <2>2, <3>1 DEF ContainerInv
    <3>3. StackSound(q, s)'
      BY <1>1, <1>6, <1>7, <2>2, <3>2, StackGrows
    <3>4. \A type : NotMade(q, type) => NotMade(q, type)'
      BY <1>4, <1>6, <1>8, <2>2 DEF NotMade
    <3>5. FoundAgain(q)'
      BY <1>1, <3>1, <3>2, <3>4 DEF FoundAgain, Lazy
    <3> QED
      BY <3>2, <3>3, <3>5
  <2> QED
    BY <2>1, <2>2
<1>24. ASSUME NEW q \in Threads PROVE ThreadSound(q)'
  <2>1. q \in Tasks /\ ThreadSound(q)
    BY <1>1 DEF ContainerInv
  <2>2. CASE q = t
    <3>1. Wired /\ \A k \in 1..Len(to) : to[k].type \in program.provided
      BY <1>2, <1>12, <1>14, <2>1, <2>2 DEF ThreadSound
    <3> QED
      BY <1>1, <1>16, <1>20, <2>1, <2>2, <3>1 DEF ThreadSound
  <2>3. CASE q # t
    BY <1>1, <1>16, <1>20, <2>1, <2>3 DEF ThreadSound
  <2> QED
    BY <2>2, <2>3
<1>25. frames' = [q \in Tasks |-> frames'[q]] /\ fate' = [q \in Tasks |-> fate'[q]]
  BY <1>1, <1>15 DEF ContainerInv
<1> QED
  BY <1>17, <1>18, <1>19, <1>21, <1>23, <1>24, <1>25 DEF ContainerInv

(* ... and stores it.                                                       *)
LEMMA InStore ==
  ASSUME ContainerInv, NEW t \in Tasks, Store(t)
  PROVE  ContainerInv'
<1>1. /\ MadeSound /\ CacheSound /\ BootSound /\ OneBuildEach /\ Linked(program)
      /\ Main \in Tasks /\ \A q \in Threads : q \in Tasks /\ q # Main
      /\ UNCHANGED <<program, made, factories, boots, fate>>
  BY ContainerAssumption DEF ContainerInv, MadeSound, Tasks, Store
<1>2. PICK stack \in Seq(Build) : stack = frames[t] /\ StackSound(t, stack) /\ stack # << >>
  BY DEF ContainerInv, StackSound, Store, Building
<1>3. PICK f \in Build : f = stack[1] /\ f = Head(stack) /\ FrameSound(t, f)
  BY <1>2, PoppedShape DEF StackSound
<1>4. PICK new \in 1..Len(made) : new = f.new /\ new # 0 /\ made[new].type = f.type
  BY <1>2, <1>3 DEF FrameSound, Store
<1>5. new \in Nat /\ f.type \in Types /\ new # Absent
  BY <1>1, ContainerAssumption DEF MadeSound, Build
<1>6. PICK rest \in Seq(Build) : rest = Tail(stack)
  BY <1>2, PoppedShape
<1>7. StackSound(t, rest) /\ (rest # << >> => Wants(rest[1], f.type))
  BY <1>2, <1>3, <1>6, PoppedSound
<1>8. PICK n \in Nat : /\ n + 1 = Len(stack) /\ Len(rest) = n
                       /\ \A k \in 1..n : rest[k] = stack[k + 1] /\ k + 1 \in 1..Len(stack)
  <2>1. Len(stack) \in Nat /\ Len(stack) # 0
    BY <1>2
  <2>2. PICK n \in Nat : n + 1 = Len(stack)
    <3>1. Len(stack) - 1 \in Nat /\ Len(stack) - 1 + 1 = Len(stack)
      BY <2>1
    <3> QED
      BY <3>1
  <2> QED
    BY <1>2, <1>6, <2>2, PoppedShape
<1>9. PICK to : to = Handed(rest, new)
  OBVIOUS
<1>10. /\ cache' = [cache EXCEPT ![f.type] = new] /\ frames' = [frames EXCEPT ![t] = to]
       /\ hook' = IF t = Main /\ n = 0 THEN hook + 1 ELSE hook
  <2>1. (Len(stack) = 1) <=> (n = 0)
    BY <1>8
  <2>2. hook' = IF t = Main /\ Len(stack) = 1 THEN hook + 1 ELSE hook
    BY <1>2 DEF Store
  <2>3. cache' = [cache EXCEPT ![Head(stack).type] = Head(stack).new]
        /\ frames' = [frames EXCEPT ![t] = Handed(Tail(frames[t]), Head(stack).new)]
    BY <1>2 DEF Store
  <2> QED
    BY <1>2, <1>3, <1>4, <1>6, <1>9, <2>1, <2>2, <2>3
<1>11. frames'[t] = to /\ \A q \in Tasks : q # t => frames'[q] = frames[q]
  BY <1>10 DEF ContainerInv
<1>12. /\ cache'[f.type] = new
       /\ \A type \in Types : type # f.type => cache'[type] = cache[type]
  BY <1>1, <1>5, <1>10 DEF CacheSound
<1>13. to \in Seq(Build) /\ Len(to) = n /\ \A k \in 1..n : to[k].type = stack[k + 1].type /\ k + 1 \in 1..Len(stack)
  <2>1. CASE rest = << >>
    BY <1>6, <1>8, <1>9, <2>1 DEF Handed
  <2>2. CASE rest # << >>
    <3>1. /\ to \in Seq(Build) /\ Len(to) = n /\ \A k \in 2..n : to[k] = rest[k]
          /\ to[1] = [rest[1] EXCEPT !.uses = Append(@, new)]
      BY <1>5, <1>6, <1>8, <1>9, <2>2, HandedShape
    <3>2. to[1].type = rest[1].type
      BY <1>6, <2>2, <3>1, PoppedShape DEF Build
    <3>3. \A k \in 1..n : k = 1 \/ k \in 2..n
      OBVIOUS
    <3> QED
      BY <1>8, <3>1, <3>2, <3>3
  <2> QED
    BY <2>1, <2>2
<1>14. StackSound(t, to)
  <2>1. CASE rest = << >>
    BY <1>7, <1>9, <2>1 DEF Handed
  <2>2. CASE rest # << >>
    BY <1>1, <1>4, <1>7, <1>9, <2>2, HandedSound
  <2> QED
    BY <2>1, <2>2
<1>15. \A type \in Types : cache[type] # Absent => cache'[type] # Absent
  BY <1>5, <1>12
<1>16. /\ Wired => Wired'
       /\ \A type \in Types : Reachable(type) => Reachable(type)'
  BY <1>1, <1>15, WiredStays
<1>17. MadeSound' /\ OneBuildEach'
  BY <1>1 DEF MadeSound, OneBuildEach, Fits
<1>18. CacheSound'
  <2>1. cache' \in [Types -> Nat \cup {Absent}]
    BY <1>1, <1>5, <1>10 DEF CacheSound
  <2>2. ASSUME NEW type \in Types
        PROVE  /\ cache'[type] # Absent => cache'[type] \in 1..Len(made) /\ made[cache'[type]].type = type
               /\ program.kind[type] = "value" => cache'[type] # Absent
    BY <1>1, <1>4, <1>5, <1>12 DEF CacheSound
  <2> QED
    BY <1>1, <2>1, <2>2 DEF CacheSound
<1>19. BootSound'
  <2>1. frames[Main] # << >> =>
           /\ hook \in 1..Len(program.order)
           /\ frames[Main][Len(frames[Main])].type = program.order[hook]
    BY <1>1 DEF BootSound
  <2>2. Verified' = Verified /\ \A k \in 1..Len(program.order) : program.order[k] \in Types
    BY <1>1 DEF Verified, Linked
  <2>3. \A k \in 1..Len(program.order) : k < hook => Reachable(program.order[k])'
    <3> SUFFICES ASSUME NEW k \in 1..Len(program.order), k < hook PROVE Reachable(program.order[k])'
      OBVIOUS
    <3>1. PICK type \in Types : type = program.order[k]
      BY <2>2
    <3>2. Reachable(type)'
      BY <1>1, <1>16, <3>1 DEF BootSound
    <3> QED
      BY <1>1, <3>1, <3>2 DEF Reachable
  <2>4. PICK last \in Nat : last = Len(program.order)
    BY <1>1 DEF Linked
  <2>5. boots \in Nat /\ hook \in 0..(last + 1) /\ (hook > 0 => boots > 0)
    BY <1>1, <2>4 DEF BootSound
  <2>6. CASE t = Main /\ n = 0
    <3>1. hook' = hook + 1 /\ hook \in 1..last /\ program.order[hook] = f.type /\ to = << >>
      <4>1. to = << >>
        BY <1>13, <2>6
      <4> QED
        BY <1>2, <1>3, <1>8, <1>10, <2>1, <2>4, <2>6, <4>1
    <3>2. Reachable(f.type)'
      BY <1>5, <1>12 DEF Reachable
    <3>3. \A k \in 1..last : k < hook' => Reachable(program.order[k])'
      <4> SUFFICES ASSUME NEW k \in 1..last, k < hook' PROVE Reachable(program.order[k])'
        OBVIOUS
      <4>1. k < hook \/ k = hook
        BY <3>1
      <4>2. CASE k = hook
        <5>1. program'.order[k] = f.type
          BY <1>1, <3>1, <4>2
        <5> QED
          BY <1>1, <3>2, <5>1 DEF Reachable
      <4> QED
        BY <2>3, <2>4, <4>1, <4>2
    <3>4. Booted' => Wired'
      BY <1>1, <1>16, <2>5, <3>1 DEF BootSound, Booted
    <3>5. hook' \in 0..(last + 1) /\ hook' > 0 /\ boots > 0
      BY <2>5, <3>1
    <3>6. Verified
      BY <1>1, <2>5, <3>1 DEF BootSound
    <3> QED
      BY <1>1, <1>11, <2>2, <2>4, <2>5, <2>6, <3>1, <3>3, <3>4, <3>5, <3>6 DEF BootSound
  <2>7. CASE ~ (t = Main /\ n = 0)
    <3>1. hook' = hook
      BY <1>10, <2>7
    <3>2. Booted' => Wired'
      BY <1>1, <1>16, <3>1 DEF BootSound, Booted
    <3>3. frames'[Main] # << >> =>
            /\ hook \in 1..Len(program.order)
            /\ frames'[Main][Len(frames'[Main])].type = program.order[hook]
      <4>1. CASE t # Main
        BY <1>1, <1>11, <2>1, <4>1
      <4>2. CASE t = Main
        <5>1. n \in 1..n /\ Len(to) = n
          BY <1>13, <2>7, <4>2
        <5>2. to[n].type = stack[Len(stack)].type
          BY <1>8, <1>13, <5>1
        <5> QED
          BY <1>2, <1>11, <2>1, <4>2, <5>1, <5>2
      <4> QED
        BY <4>1, <4>2
    <3> QED
      BY <1>1, <2>2, <2>3, <3>1, <3>2, <3>3 DEF BootSound
  <2> QED
    BY <2>6, <2>7
<1>20. ASSUME NEW q \in Tasks PROVE StackSound(q, frames[q])' /\ FoundAgain(q)'
  <2>1. PICK s : s = frames'[q]
    OBVIOUS
  <2>2. StackSound(q, s)
    BY <1>11, <1>14, <2>1 DEF ContainerInv
  <2>3. StackSound(q, s)'
    BY <1>1, <2>2, StackStays
  <2>4. FoundAgain(q)
    BY DEF ContainerInv
  <2>5. \A type \in Types : cache'[type] = Absent => cache[type] = Absent /\ type # f.type
    BY <1>5, <1>12
  <2>6. FoundAgain(q)'
    <3>1. CASE q = t
      <4>1. \A type \in Types : Lazy(type) /\ cache'[type] = Absent => NotMade(t, type)
        BY <1>2, <1>3, <2>4, <2>5, <3>1 DEF FoundAgain
      <4> QED
        BY <1>1, <3>1, <4>1 DEF FoundAgain, NotMade, Lazy
    <3>2. CASE q # t
      <4>1. frames'[q] = frames[q]
        BY <1>11, <3>2
      <4> QED
        BY <1>1, <2>4, <2>5, <4>1 DEF FoundAgain, NotMade, Lazy
    <3> QED
      BY <3>1, <3>2
  <2> QED
    BY <2>1, <2>3, <2>6
<1>21. ASSUME NEW q \in Threads PROVE ThreadSound(q)'
  <2>1. q \in Tasks /\ ThreadSound(q)
    BY <1>1 DEF ContainerInv
  <2>2. CASE q = t
    <3>1. Wired /\ \A k \in 1..Len(stack) : stack[k].type \in program.provided
      BY <1>2, <2>1, <2>2 DEF ThreadSound
    <3>2. \A k \in 1..Len(to) : to[k].type \in program.provided
      BY <1>13, <3>1
    <3> QED
      BY <1>1, <1>11, <1>16, <2>1, <2>2, <3>1, <3>2 DEF ThreadSound
  <2>3. CASE q # t
    BY <1>1, <1>11, <1>16, <2>1, <2>3 DEF ThreadSound
  <2> QED
    BY <2>2, <2>3
<1>22. frames' = [q \in Tasks |-> frames'[q]] /\ fate' = [q \in Tasks |-> fate'[q]]
  BY <1>1, <1>10 DEF ContainerInv
<1> QED
  BY <1>17, <1>18, <1>19, <1>20, <1>21, <1>22 DEF ContainerInv

LEMMA ContainerNextSound == ContainerInv /\ [ContainerNext]_container => ContainerInv'
<1> SUFFICES ASSUME ContainerInv, [ContainerNext]_container PROVE ContainerInv'
  OBVIOUS
<1>1. CASE UNCHANGED container
  <2>1. /\ UNCHANGED <<program, made, cache, frames, factories, fate, boots, hook>>
    BY <1>1 DEF container
  <2>2. BootSound'
    BY <2>1 DEF ContainerInv, BootSound, Booted, Wired, Verified, Reachable
  <2> QED
    BY <2>1, <2>2, BootMoves DEF ContainerInv, CacheSound
<1>2. CASE ContainerNext
  BY <1>2, InBoot, InTask, InConstruct, InStore DEF ContainerNext
<1> QED
  BY <1>1, <1>2

LEMMA ContainerInitSound == ASSUME NEW p, Linked(p), ContainerInit(p) PROVE ContainerInv
<1> DEFINE S == {type \in Types : p.kind[type] = "value"}
<1>1. IsFiniteSet(S)
  BY ContainerAssumption, FS_Subset
<1>2. PICK values \in Seq(S) : values = Values(p) /\ \A x \in S : \E i \in 1..Len(values) : values[i] = x
  BY <1>1, InSomeOrder DEF Values
<1>3. PICK n \in Nat : n = Len(values)
  BY <1>2
<1>4. /\ program = p /\ Linked(program)
      /\ made = [i \in 1..n |-> [type |-> values[i], uses |-> << >>, by |-> Main]]
      /\ cache = [type \in Types |-> IF p.kind[type] = "value"
                                     THEN CHOOSE i \in DOMAIN made : made[i].type = type ELSE Absent]
      /\ factories = {} /\ boots = 0 /\ hook = 0
      /\ frames = [t \in Tasks |-> << >>] /\ fate = [t \in Tasks |-> "runs"]
  BY <1>2, <1>3 DEF ContainerInit
<1>5. Main \in Tasks /\ \A t \in Threads : t \in Tasks
  BY DEF Tasks
<1>6. /\ \A i \in 1..n : made[i].type \in S /\ made[i].uses = << >> /\ made[i].by = Main
                        /\ made[i] \in Instance
      /\ made \in Seq(Instance) /\ Len(made) = n /\ DOMAIN made = 1..n
  <2>1. ASSUME NEW i \in 1..n
        PROVE  made[i].type \in S /\ made[i].uses = << >> /\ made[i].by = Main /\ made[i] \in Instance
    <3>1. values[i] \in S
      BY <1>2, <1>3
    <3>2. made[i] = [type |-> values[i], uses |-> << >>, by |-> Main]
      BY <1>4
    <3> QED
      BY <1>5, <3>1, <3>2 DEF Instance
  <2> QED
    BY <1>4, <2>1
<1>7. MadeSound
  <2>1. \A i \in 1..n : program.needs[made[i].type] = << >>
    BY <1>4, <1>6 DEF Linked
  <2>2. \A i \in 1..n : Len(made[i].uses) = 0 /\ Len(program.needs[made[i].type]) = 0
    BY <1>6, <2>1
  <2>3. \A i \in 1..n : Fits(made[i].type, made[i].uses, i - 1)
    BY <2>2 DEF Fits
  <2> QED
    BY <1>4, <1>6, <2>2, <2>3 DEF MadeSound
<1>8. CacheSound
  <2>1. ASSUME NEW type \in S PROVE cache[type] \in 1..n /\ made[cache[type]].type = type
    <3>1. \E i \in DOMAIN made : made[i].type = type
      BY <1>2, <1>3, <1>4, <1>6
    <3>2. cache[type] = CHOOSE i \in DOMAIN made : made[i].type = type
      BY <1>4
    <3> QED
      BY <1>6, <3>1, <3>2
  <2>2. \A type \in Types : type \notin S => cache[type] = Absent
    BY <1>4
  <2>3. cache \in [Types -> Nat \cup {Absent}]
    <3>1. \A type \in Types : cache[type] \in Nat \cup {Absent}
      BY <2>1, <2>2
    <3>2. cache = [type \in Types |-> cache[type]]
      BY <1>4
    <3> QED
      BY <3>1, <3>2
  <2>4. \A type \in S : cache[type] # Absent
    BY <2>1, ContainerAssumption
  <2> QED
    BY <1>4, <1>6, <2>1, <2>2, <2>3, <2>4 DEF CacheSound
<1>9. OneBuildEach
  BY <1>4, <1>6 DEF OneBuildEach
<1>10. BootSound
  BY <1>4, <1>5 DEF BootSound, Booted, Linked
<1>11. ASSUME NEW t \in Tasks PROVE StackSound(t, frames[t]) /\ FoundAgain(t)
  <2>1. frames[t] = << >>
    BY <1>4
  <2>2. StackSound(t, frames[t])
    BY <2>1 DEF StackSound
  <2>3. \A type \in Types : Lazy(type) => NotMade(t, type)
    BY <1>4, <1>6 DEF Lazy, NotMade
  <2> QED
    BY <2>2, <2>3 DEF FoundAgain
<1>12. \A t \in Threads : ThreadSound(t)
  BY <1>4, <1>5 DEF ThreadSound
<1>13. frames = [t \in Tasks |-> frames[t]] /\ fate = [t \in Tasks |-> fate[t]]
  BY <1>4
<1> QED
  BY <1>7, <1>8, <1>9, <1>10, <1>11, <1>12, <1>13 DEF ContainerInv

(* For every program, whatever needs what, circles too, and in whatever     *)
(* order its hooks run: a task builds a lazy type once, and after a boot no *)
(* resolve of a handler panics (resolve, boot_di_container).                *)
THEOREM ContainerSound ==
  ASSUME NEW p, Linked(p)
  PROVE  ContainerSpec(p) => []ContainerIsSound
<1>1. ContainerInit(p) => ContainerInv
  BY ContainerInitSound
<1>2. ContainerInv /\ [ContainerNext]_container => ContainerInv'
  BY ContainerNextSound
<1>3. ContainerInv => ContainerIsSound
  <2> SUFFICES ASSUME ContainerInv PROVE ContainerTypeOK /\ BootedIsWired
    BY DEF ContainerIsSound, ContainerInv
  <2>1. BootedIsWired
    BY DEF ContainerInv, ThreadSound, BootedIsWired
  <2>2. MadeSound /\ CacheSound
    BY DEF ContainerInv
  <2>3. ASSUME NEW i \in DOMAIN made
        PROVE  made[i].type \in Types /\ ToSet(made[i].uses) \subseteq 1..(i - 1)
    <3>1. i \in 1..Len(made) /\ made[i] \in Instance
      BY <2>2 DEF MadeSound
    <3>2. made[i].type \in Types /\ made[i].uses \in Seq(Nat)
      BY <3>1 DEF Instance
    <3>3. \A k \in 1..Len(made[i].uses) : made[i].uses[k] \in 1..(i - 1)
      BY <2>2, <3>1 DEF MadeSound, Fits
    <3> QED
      BY <3>2, <3>3 DEF ToSet
  <2>4. ContainerTypeOK
    BY <2>2, <2>3 DEF ContainerTypeOK, CacheSound
  <2> QED
    BY <2>1, <2>4
<1> QED
  BY <1>1, <1>2, <1>3, PTL DEF ContainerSpec

-----------------------------------------------------------------------------
(* Cron: the ticks of a bunch are a second apart by their due times, so     *)
(* that only as many of them can see one occurrence within a second.        *)

(* When the tick that enqueued the i-th job was due at the latest, counted  *)
(* back from the next tick.                                                 *)
Spread(i) == (Len(fired) - i + 1) * Second

CronInv ==
  /\ {time, tick} \subseteq Nat /\ time <= tick + MaxLate
  /\ looked # NoTick => looked \in Nat /\ tick <= looked /\ looked <= time
  /\ fired \in Seq(Nat)
  /\ \A i \in 1..Len(fired) : tick + Second + MaxLate > fired[i] + Spread(i)
  /\ CronBounded

(* Whole seconds.                                                           *)
LEMMA Quotient ==
  ASSUME NEW n \in Int, NEW d \in Nat \ {0}
  PROVE  /\ n \div d \in Int
         /\ d * (n \div d) <= n /\ n < d * (n \div d) + d
OBVIOUS

(* As many whole seconds as there are in a span.                            *)
LEMMA WholeFits ==
  ASSUME NEW k \in Nat, NEW n \in Nat, NEW d \in Nat \ {0}, k * d <= n
  PROVE  k < (n + d) \div d
<1>1. PICK q \in Int : q = (n + d) \div d
  BY Quotient
<1>2. n + d < d * q + d
  BY <1>1, Quotient
<1>3. k >= q => k * d >= d * q
  BY <1>1
<1> QED
  BY <1>1, <1>2, <1>3

LEMMA CronStarts == ASSUME NEW start \in Nat, CronInit(start) PROVE CronInv
BY CronAssumption DEF CronInit, CronInv, CronBounded

LEMMA CronLooks == ASSUME CronInv, CronTick PROVE CronInv'
<1>1. looked' \in Nat /\ tick' <= looked' /\ looked' <= time'
  BY DEF CronInv, CronTick
<1> QED
  BY <1>1 DEF CronInv, CronTick, CronBounded, Spread

LEMMA CronFlows == ASSUME CronInv, Flow PROVE CronInv'
<1>1. /\ time' \in Nat /\ tick' \in Nat /\ time' <= tick' + MaxLate
      /\ looked' # NoTick => looked' \in Nat /\ tick' <= looked' /\ looked' <= time'
  BY CronAssumption DEF CronInv, Flow
<1> QED
  BY <1>1 DEF CronInv, Flow, CronBounded, Spread

(* The occurrence a tick looks at is in the future.                         *)
LEMMA Ahead == ASSUME time \in Nat PROVE Upcoming \in Nat /\ time < Upcoming
<1>1. PICK q \in Int : q = time \div Period
  BY CronAssumption, Quotient
<1>2. Period \in Nat \ {0}
  BY CronAssumption
<1>5. Period * q <= time /\ time < Period * q + Period
  BY <1>1, <1>2, Quotient
<1>3. Upcoming = (q + 1) * Period
  BY <1>1 DEF Upcoming
<1>4. (q + 1) * Period = Period * q + Period
  BY <1>1, <1>2
<1> QED
  BY <1>1, <1>2, <1>3, <1>4, <1>5

(* A tick enqueues an occurrence that was less than a second away.          *)
LEMMA Near == ASSUME time \in Nat, looked \in Nat, Within(Upcoming) PROVE Upcoming - looked < Second
<1>1. PICK d \in Int : d = Upcoming - looked
  BY Ahead
<1>2. d < Second * (d \div Second) + Second /\ Second \in Nat \ {0} /\ d \div Second = 0
  BY <1>1, Quotient, CronAssumption DEF Within
<1> QED
  BY <1>1, <1>2

LEMMA CronFires == ASSUME CronInv, Fire PROVE CronInv'
<1>1. /\ {time, tick, looked} \subseteq Nat /\ time <= tick + MaxLate
      /\ tick <= looked /\ looked <= time
      /\ time' = time /\ tick' = tick + Second /\ looked' = NoTick
      /\ Second \in Nat \ {0} /\ MaxLate \in Nat
  BY CronAssumption DEF CronInv, Fire
<1>2. \A i \in 1..Len(fired) : tick + Second + MaxLate > fired[i] + Spread(i)
  BY DEF CronInv
<1>3. fired \in Seq(Nat) /\ Len(fired) \in Nat
  BY DEF CronInv
<1>4. {time', tick'} \subseteq Nat /\ time' <= tick' + MaxLate
  BY <1>1
<1>5. CASE ~Within(Upcoming)
  <2>1. fired' = fired
    BY <1>5 DEF Fire
  <2>2. \A i \in 1..Len(fired) : Spread(i)' = Spread(i)
    BY <2>1 DEF Spread
  <2>3. \A i \in 1..Len(fired) : Spread(i) \in Int /\ fired[i] \in Nat
    BY <1>1, <1>3 DEF Spread
  <2>4. \A i \in 1..Len(fired') : tick' + Second + MaxLate > fired'[i] + Spread(i)'
    <3> SUFFICES ASSUME NEW i \in 1..Len(fired) PROVE tick' + Second + MaxLate > fired[i] + Spread(i)
      <4>1. ASSUME NEW i \in 1..Len(fired) PROVE fired'[i] = fired[i] /\ Spread(i)' = Spread(i)
        BY <2>1, <2>2
      <4> QED
        BY <2>1, <4>1
    <3>1. PICK x \in Int, y \in Nat : x = Spread(i) /\ y = fired[i]
      BY <2>3
    <3>2. tick + Second + MaxLate > y + x
      BY <1>2, <3>1
    <3>3. tick \in Nat
      BY <1>1
    <3>4. tick' + Second + MaxLate > y + x
      BY <1>1, <3>2, <3>3
    <3> QED
      BY <3>1, <3>4
  <2>5. CronBounded'
    BY <2>1 DEF CronInv, CronBounded
  <2> QED
    BY <1>1, <1>3, <1>4, <2>1, <2>4, <2>5 DEF CronInv
<1>6. CASE Within(Upcoming)
  <2>1. PICK o \in Nat : o = Upcoming
    BY <1>1, Ahead
  <2>2. time < o /\ o - looked < Second
    BY <1>1, <1>6, <2>1, Ahead, Near
  <2>3. fired' = Append(fired, o)
    BY <1>6, <2>1 DEF Fire
  <2>4. PICK n \in Nat : n = Len(fired)
    BY <1>3
  <2>5. /\ fired' \in Seq(Nat) /\ Len(fired') = n + 1 /\ fired'[n + 1] = o
        /\ \A i \in 1..n : fired'[i] = fired[i] /\ fired[i] \in Nat
        /\ \A i \in 1..(n + 1) : i \in 1..n \/ i = n + 1
    BY <1>3, <2>3, <2>4
  <2>6. \A i \in 1..n : tick + Second + MaxLate > fired[i] + (n - i + 1) * Second
    BY <1>2, <2>4 DEF Spread
  <2>7. ASSUME NEW i \in 1..(n + 1)
        PROVE  tick' + Second + MaxLate > fired'[i] + (n + 1 - i + 1) * Second
    <3>1. CASE i \in 1..n
      <4>1. tick + Second + MaxLate > fired[i] + (n - i + 1) * Second /\ fired[i] \in Nat
        BY <2>5, <2>6, <3>1
      <4>2. (n + 1 - i + 1) * Second = (n - i + 1) * Second + Second
        BY <1>1
      <4>3. PICK m \in Int : m = (n - i + 1) * Second
        BY <1>1
      <4> QED
        <5>1. PICK f \in Nat : f = fired[i]
          BY <4>1
        <5>2. tick + Second + MaxLate > f + m
          BY <4>1, <4>3, <5>1
        <5>3. (n + 1 - i + 1) * Second = m + Second
          BY <4>2, <4>3
        <5>4. tick' + Second + MaxLate > f + (m + Second)
          BY <1>1, <4>3, <5>1, <5>2
        <5>5. fired'[i] = f
          BY <2>5, <3>1, <5>1
        <5> QED
          BY <5>3, <5>4, <5>5
    <3>2. CASE i = n + 1
      <4>1. (n + 1 - i + 1) * Second = Second /\ fired'[i] = o
        BY <1>1, <2>5, <3>2
      <4> QED
        BY <1>1, <2>2, <4>1
    <3> QED
      BY <2>5, <3>1, <3>2
  <2>8. \A i \in 1..Len(fired') : tick' + Second + MaxLate > fired'[i] + Spread(i)'
    BY <2>5, <2>7 DEF Spread
  <2>9. CronBounded'
    <3> SUFFICES ASSUME NEW i \in 1..(n + 1), NEW j \in 1..(n + 1), fired'[i] = fired'[j]
                 PROVE  j - i < (MaxLate + 2 * Second - 2) \div Second
      BY <2>5 DEF CronBounded
    <3>1. CASE i \in 1..n /\ j \in 1..n
      <4>1. DOMAIN fired = 1..n
        BY <1>3, <2>4
      <4>2. fired[i] = fired[j] /\ i \in DOMAIN fired /\ j \in DOMAIN fired
        BY <2>5, <3>1, <4>1
      <4> QED
        BY <4>2 DEF CronInv, CronBounded
    <3>2. CASE j \in 1..n /\ i = n + 1
      <4>1. PICK m \in Nat : m = MaxLate + 2 * Second - 2
        BY <1>1
      <4>2. m \in Int /\ Second \in Nat \ {0}
        BY <1>1
      <4>3. m \div Second \in Int /\ m < Second * (m \div Second) + Second
        BY ONLY <4>2, Quotient
      <4>4. PICK q \in Int : q = m \div Second
        BY <4>3
      <4>5. q >= 0
        BY <1>1, <4>3, <4>4
      <4> QED
        BY <3>2, <4>1, <4>4, <4>5
    <3>3. CASE j = n + 1
      <4>1. PICK k \in Nat : k = n + 1 - i
        BY <2>4
      <4>2. k * Second <= MaxLate + Second - 2
        <5>1. CASE i \in 1..n
          <6>1. tick + Second + MaxLate > o + (n - i + 1) * Second
            BY <2>5, <2>6, <3>3, <5>1
          <6>2. n - i + 1 = k
            BY <4>1
          <6>3. tick + Second + MaxLate > o + k * Second
            BY <6>1, <6>2
          <6>4. PICK m \in Nat : m = k * Second
            BY <1>1, <4>1
          <6> QED
            BY <1>1, <2>2, <6>3, <6>4
        <5>2. CASE i = n + 1
          <6>1. k * Second = 0
            BY <1>1, <4>1, <5>2
          <6> QED
            BY <1>1, <2>2, <6>1
        <5> QED
          BY <2>5, <5>1, <5>2
      <4>3. PICK m \in Nat : m = MaxLate + Second - 2
        BY <1>1, <2>2
      <4>4. MaxLate + 2 * Second - 2 = m + Second /\ k * Second <= m
        BY <1>1, <4>2, <4>3
      <4>5. k < (m + Second) \div Second
        BY <1>1, <4>4, WholeFits
      <4> QED
        BY <3>3, <4>1, <4>4, <4>5
    <3> QED
      BY <2>5, <3>1, <3>2, <3>3
  <2> QED
    BY <1>1, <1>4, <2>5, <2>8, <2>9 DEF CronInv
<1> QED
  BY <1>5, <1>6

(* Bunched ticks of the scheduler (Burst, run_cron_scheduler) enqueue one   *)
(* occurrence again and again, but no longer than the ticks are late.       *)
THEOREM CronSound == ASSUME NEW start \in Nat PROVE CronSpec(start) => []CronBounded
<1>1. CronInit(start) => CronInv
  BY CronStarts
<1>2. CronInv /\ [CronNext]_cron => CronInv'
  <2> SUFFICES ASSUME CronInv, [CronNext]_cron PROVE CronInv'
    OBVIOUS
  <2>1. CASE UNCHANGED cron
    BY <2>1 DEF CronInv, CronBounded, Spread, cron
  <2> QED
    BY <2>1, CronLooks, CronFires, CronFlows DEF CronNext
<1>3. CronInv => CronBounded
  BY DEF CronInv
<1> QED
  BY <1>1, <1>2, <1>3, PTL DEF CronSpec

-----------------------------------------------------------------------------
(* AdminData: table and journal, imports and pages.                         *)

Cells == [Columns -> Admins \cup {Original}]
Contents == Cells \cup {Unread}
Statements == {"begin", "find", "delete", "update", "note", "insert"}
Places == Statements \cup {"start", "commit", "count", "fetch", "done"}

(* The places of a request, by its operation.                               *)
AtPlace(op, place) ==
  \/ place \in {"start", "done"}
  \/ op \in {"delete", "bulk"} /\ place \in {"find", "delete", "note"}
  \/ op = "patch" /\ place \in {"find", "update", "note"}
  \/ op \in {"bulk", "import"} /\ place \in {"begin", "commit"}
  \/ op = "import" /\ place = "insert"
  \/ op = "scroll" /\ place \in {"count", "fetch"}

Doings ==
  [cmd : AdminCommands, at : Places, todo : Seq(Nat), old : Contents, new : Contents,
   pending : SUBSET Ids, errors : Nat, page : Nat, pages : Nat, shown : Seq(SUBSET Ids),
   sets : Seq(SUBSET Ids), status : {0, 200, 400}]
Entries == [by : Admins, id : Nat, old : Contents, new : Contents]

DataTyped ==
  /\ DOMAIN rows \subseteq Ids /\ rows \in [DOMAIN rows -> Cells]
  /\ journal \in Seq(Entries)
  /\ holders \subseteq Admins /\ IsFiniteSet(holders) /\ Cardinality(holders) <= Connections
  /\ doing \in [Admins -> Doings]
  /\ wrote \in [Admins -> SUBSET Ids]

(* What is to do: the id of the command until a single edit is over, an     *)
(* item at every statement of a list.                                       *)
Desk(d) ==
  /\ AtPlace(d.cmd.op, d.at)
  /\ d.at \in Statements => d.todo # << >>
  /\ d.cmd.op \in {"delete", "patch"} /\ d.at # "done" => d.todo = d.cmd.ids
  /\ d.at = "update" => d.cmd.column \in Columns
  /\ d.cmd.op # "import" => d.pending = {}
  /\ d.cmd.op \notin {"bulk", "scroll"} => d.errors = 0

(* The rows a request has changed and not noted: at most the one at hand.   *)
Owed(d, mine, notes) ==
  /\ d.cmd.op # "import" /\ d.at # "done" /\ d.errors = 0
       => mine \subseteq notes \cup (IF d.at = "note" THEN {Head(d.todo)} ELSE {})
  /\ d.cmd.op # "import" /\ d.at = "done" /\ d.status = 200 => mine \subseteq notes
  /\ d.cmd.op = "scroll" => mine = {}

(* The row of the entry to come is changed or about to be.                  *)
Worthy(a, d, ids, all) ==
  /\ d.at = "delete" =>
       /\ d.new = Unread
       /\ Head(d.todo) \in ids \/ \E b \in Admins : Head(d.todo) \in all[b]
  /\ d.at = "note" =>
       \E b \in Admins : Head(d.todo) \in all[b] /\ (d.new # Unread => b = a)

(* An import under way: nothing of it is in the table.                      *)
Importing(a, d, mine, table) ==
  d.cmd.op = "import" =>
    /\ d.at # "done" =>
         /\ mine = {} /\ Cardinality(d.pending) + Len(d.todo) = Len(d.cmd.ids)
         /\ d.at = "commit" => d.todo = << >>
    /\ d.at = "done" /\ d.status = 200 => Cardinality(mine) = Len(d.cmd.ids)
    /\ ~(d.at = "done" /\ d.status = 200) => \A id \in DOMAIN table, c \in Columns : table[id][c] # a

(* A scroll under way: the pages are those of the tables it has seen.       *)
Scrolled(d) ==
  d.cmd.op = "scroll" =>
    /\ Len(d.sets) = 2 * Len(d.shown) + (IF d.at = "fetch" THEN 1 ELSE 0)
    /\ d.at # "done" => d.page = Len(d.shown)
    /\ d.errors = 0 =>
         /\ \A k \in 1..Len(d.shown) : d.shown[k] = PageOf(d.sets[2 * k], k - 1)
         /\ d.at = "fetch" => d.pages = (Cardinality(d.sets[Len(d.sets)]) + PageSize - 1) \div PageSize
         /\ d.at = "done" =>
              d.shown # << >> /\ Cardinality(d.sets[2 * Len(d.shown) - 1]) <= Len(d.shown) * PageSize

AtDesk(a) ==
  /\ Desk(doing[a]) /\ Owed(doing[a], wrote[a], Noted(a)) /\ Worthy(a, doing[a], DOMAIN rows, wrote)
  /\ Importing(a, doing[a], wrote[a], rows) /\ Scrolled(doing[a])

(* No entry speaks of a row that nobody changed.                            *)
Truthful ==
  \A i \in DOMAIN journal : \E a \in Admins :
    journal[i].id \in wrote[a] /\ (journal[i].new # Unread => a = journal[i].by)

DataInv == DataTyped /\ (\A a \in Admins : AtDesk(a)) /\ Truthful /\ EditsHold

(* What a step of a request changes for the others.                         *)
MovesFor(a) ==
  /\ \A b \in Admins : doing'[b].cmd = doing[b].cmd /\ (b # a => doing'[b] = doing[b] /\ wrote'[b] = wrote[b])
  /\ wrote[a] \subseteq wrote'[a]
  /\ \A id \in DOMAIN rows : id \in DOMAIN rows' \/ id \in wrote'[a]
  /\ \A id \in DOMAIN rows', c \in Columns :
       rows'[id][c] = a \/ (id \in DOMAIN rows /\ rows'[id][c] = rows[id][c])
  /\ \A b \in Admins : Noted(b) \subseteq Noted(b)'

(* The parts of a command.                                                  *)
LEMMA CommandShape ==
  ASSUME NEW c \in AdminCommands
  PROVE  /\ c.op \in {"delete", "bulk", "import", "patch", "scroll"} /\ c.ids \in Seq(Nat)
         /\ c.op \in {"delete", "patch"} => Len(c.ids) = 1 /\ c.ids # << >>
         /\ c.op = "patch" => c.column \in Columns \cup {Locked}
         /\ c.op = "scroll" => c.ids = << >>
<1>1. ASSUME NEW s \in [1..1 -> Nat] PROVE s \in Seq(Nat) /\ Len(s) = 1 /\ s # << >>
  <2>1. /\ <<s[1]>> \in Seq(Nat) /\ Len(<<s[1]>>) = 1 /\ <<s[1]>> # << >>
        /\ DOMAIN <<s[1]>> = 1..1 /\ <<s[1]>>[1] = s[1] /\ <<s[1]>> \in [1..1 -> Nat]
    OBVIOUS
  <2>2. \A i \in 1..1 : i = 1
    OBVIOUS
  <2>3. s = <<s[1]>>
    BY <2>1, <2>2
  <2> QED
    BY <2>1, <2>3
<1>2. << >> \in Seq(Nat)
  OBVIOUS
<1>3. CASE c \in [op : {"delete"}, ids : [1..1 -> Nat]]
  BY <1>1, <1>3
<1>4. CASE c \in [op : {"bulk", "import"}, ids : Seq(Nat)]
  BY <1>4
<1>5. CASE c \in [op : {"patch"}, ids : [1..1 -> Nat], column : Columns \cup {Locked}, parses : BOOLEAN]
  BY <1>1, <1>5
<1>6. CASE c \in [op : {"scroll"}, ids : {<< >>}]
  BY <1>2, <1>6
<1> QED
  BY <1>3, <1>4, <1>5, <1>6 DEF AdminCommands

(* A set of ids is finite.                                                  *)
LEMMA FiniteIds == ASSUME NEW s \in SUBSET Ids PROVE IsFiniteSet(s) /\ Cardinality(s) \in Nat
<1>1. 1 \in Int /\ LastId \in Int
  BY AdminAssumption
<1>2. IsFiniteSet(1..LastId)
  BY <1>1, FS_Interval
<1>3. IsFiniteSet(s)
  BY <1>2, FS_Subset DEF Ids
<1> QED
  BY <1>3, FS_CardinalityType

(* The items after the first.                                               *)
LEMMA RestOfList ==
  ASSUME NEW s \in Seq(Nat), s # << >>
  PROVE  /\ Len(s) \in Nat \ {0} /\ Head(s) \in Nat
         /\ Tail(s) \in Seq(Nat) /\ Len(Tail(s)) = Len(s) - 1
OBVIOUS

(* A list of no items.                                                      *)
LEMMA EmptyList == ASSUME NEW s \in Seq(Nat) PROVE (Len(s) = 0 <=> s = << >>) /\ Len(s) \in Nat
OBVIOUS

(* Before the first request.                                                *)
LEMMA DataInit ==
  ASSUME NEW present \in SUBSET Ids, NEW commands \in [Admins -> AdminCommands],
         AdminInit(present, commands)
  PROVE  DataInv
<1>1. DataTyped
  <2>1. rows \in [present -> Cells]
    BY DEF AdminInit, Cells
  <2>2. Cardinality({}) = 0 /\ IsFiniteSet({})
    BY FS_EmptySet
  <2>3. \A a \in Admins : commands[a].ids \in Seq(Nat)
    BY CommandShape
  <2>4. doing \in [Admins -> Doings]
    BY <2>3 DEF AdminInit, Doings, Contents, Places
  <2> QED
    BY <2>1, <2>2, <2>4, AdminAssumption DEF AdminInit, DataTyped
<1>2. ASSUME NEW a \in Admins PROVE AtDesk(a)
  <2>1. PICK d : d = doing[a]
    OBVIOUS
  <2>2. /\ d.cmd = commands[a] /\ d.at = "start" /\ d.todo = commands[a].ids /\ d.pending = {}
        /\ d.errors = 0 /\ d.page = 0 /\ d.shown = << >> /\ d.sets = << >> /\ d.status = 0
        /\ wrote[a] = {}
    BY <2>1 DEF AdminInit
  <2>3. d.cmd.op \in {"delete", "bulk", "import", "patch", "scroll"} /\ Len(d.cmd.ids) \in Nat
    BY <2>2, CommandShape
  <2>4. Desk(d)
    BY <2>2, <2>3 DEF Desk, AtPlace, Statements
  <2>5. Owed(d, {}, Noted(a)) /\ Worthy(a, d, DOMAIN rows, wrote)
    BY <2>2 DEF Owed, Worthy
  <2>6. Importing(a, d, {}, rows)
    <3>1. \A id \in DOMAIN rows, c \in Columns : rows[id][c] = Original
      BY DEF AdminInit
    <3>2. Cardinality({}) = 0
      BY FS_EmptySet
    <3> QED
      BY <2>2, <2>3, <3>1, <3>2, AdminAssumption DEF Importing
  <2>7. Scrolled(d)
    BY <2>2 DEF Scrolled
  <2> QED
    BY <2>1, <2>2, <2>4, <2>5, <2>6, <2>7 DEF AtDesk
<1>3. Truthful
  BY DEF AdminInit, Truthful
<1>4. EditsHold
  <2>1. \A a \in Admins : wrote[a] = {}
    BY DEF AdminInit
  <2> QED
    BY <2>1 DEF EditsHold, Patches
<1> QED
  BY <1>1, <1>2, <1>3, <1>4 DEF DataInv

(* A step of one request does not disturb what is known of another.         *)
LEMMA OthersStay ==
  ASSUME DataInv, NEW a \in Admins, MovesFor(a), NEW b \in Admins, b # a
  PROVE  AtDesk(b)'
<1>1. PICK d : d = doing[b]
  OBVIOUS
<1>2. PICK w : w = wrote[b]
  OBVIOUS
<1>3. doing'[b] = d /\ wrote'[b] = w
  BY <1>1, <1>2 DEF MovesFor
<1>4. /\ Desk(d) /\ Owed(d, w, Noted(b)) /\ Worthy(b, d, DOMAIN rows, wrote)
      /\ Importing(b, d, w, rows) /\ Scrolled(d)
  BY <1>1, <1>2 DEF DataInv, AtDesk
<1>5. Owed(d, w, Noted(b)')
  <2>1. Noted(b) \subseteq Noted(b)'
    BY DEF MovesFor
  <2> QED
    BY <1>4, <2>1 DEF Owed
<1>6. \A c \in Admins : wrote[c] \subseteq wrote'[c]
  BY DEF MovesFor
<1>7. Worthy(b, d, DOMAIN rows', wrote')
  <2>1. \A id \in DOMAIN rows : id \in DOMAIN rows' \/ id \in wrote'[a]
    BY DEF MovesFor
  <2> QED
    BY <1>4, <1>6, <2>1 DEF Worthy
<1>8. Importing(b, d, w, rows')
  <2>1. \A id \in DOMAIN rows', c \in Columns :
          rows'[id][c] = a \/ (id \in DOMAIN rows /\ rows'[id][c] = rows[id][c])
    BY DEF MovesFor
  <2> QED
    BY <1>4, <2>1 DEF Importing
<1> QED
  BY <1>3, <1>4, <1>5, <1>7, <1>8 DEF AtDesk

(* A step that leaves table and journal alone.                              *)
LEMMA QuietStep ==
  ASSUME DataInv, NEW a \in Admins, NEW e \in Doings, e.cmd = doing[a].cmd,
         doing' \in [Admins -> Doings], doing'[a] = e, \A b \in Admins : b # a => doing'[b] = doing[b],
         UNCHANGED <<rows, journal, wrote>>,
         holders' \subseteq Admins, IsFiniteSet(holders'), Cardinality(holders') <= Connections,
         Desk(e), Owed(e, wrote[a], Noted(a)), Worthy(a, e, DOMAIN rows, wrote),
         Importing(a, e, wrote[a], rows), Scrolled(e)
  PROVE  DataInv'
<1>1. DataTyped'
  BY DEF DataInv, DataTyped
<1>2. \A b \in Admins : Noted(b)' = Noted(b)
  BY DEF Noted
<1>3. MovesFor(a)
  BY <1>2 DEF MovesFor
<1>4. AtDesk(a)'
  BY <1>2 DEF AtDesk
<1>5. \A b \in Admins : AtDesk(b)'
  BY <1>3, <1>4, OthersStay
<1>6. Truthful'
  BY DEF DataInv, Truthful
<1>7. EditsHold'
  <2>1. \A b \in Admins : doing'[b].cmd = doing[b].cmd
    BY <1>3 DEF MovesFor
  <2>2. \A id, c : Patches(id, c)' = Patches(id, c)
    BY <2>1 DEF Patches, Op
  <2>3. \A id : Replaced(id)' <=> Replaced(id)
    BY <2>1 DEF Replaced, Op
  <2> QED
    BY <2>2, <2>3 DEF DataInv, EditsHold
<1> QED
  BY <1>1, <1>5, <1>6, <1>7 DEF DataInv

(* A request that is turned down.                                           *)
LEMMA Refusal ==
  ASSUME NEW a \in Admins, NEW d \in Doings, NEW e \in Doings, NEW mine, NEW notes, NEW table, NEW all,
         Desk(d), d.cmd.op # "scroll", Importing(a, d, mine, table), d.at # "done",
         e.cmd = d.cmd, e.at = "done", e.status = 400, e.errors = d.errors, e.pending \in {d.pending, {}}
  PROVE  /\ Desk(e) /\ Owed(e, mine, notes) /\ Worthy(a, e, DOMAIN table, all)
         /\ Importing(a, e, mine, table) /\ Scrolled(e)
<1>1. Desk(e)
  BY DEF Desk, AtPlace, Statements
<1>2. Owed(e, mine, notes) /\ Worthy(a, e, DOMAIN table, all) /\ Scrolled(e)
  BY DEF Owed, Worthy, Scrolled
<1>3. Importing(a, e, mine, table)
  BY DEF Importing
<1> QED
  BY <1>1, <1>2, <1>3

(* The next item of a bulk delete.                                          *)
LEMMA NextItem ==
  ASSUME NEW a \in Admins, NEW d \in Doings, NEW e \in Doings, NEW mine, NEW notes, NEW table, NEW all,
         Desk(d), d.cmd.op = "bulk", d.at \in {"find", "delete", "note"},
         e.cmd = d.cmd, e.at = (IF Len(d.todo) = 1 THEN "commit" ELSE "find"), e.todo = Tail(d.todo),
         e.pending = d.pending, e.errors # 0 \/ mine \subseteq notes
  PROVE  /\ Desk(e) /\ Owed(e, mine, notes) /\ Worthy(a, e, DOMAIN table, all)
         /\ Importing(a, e, mine, table) /\ Scrolled(e)
<1>1. Desk(e)
  <2>1. d.todo \in Seq(Nat) /\ d.todo # << >>
    BY DEF Desk, Doings, Statements
  <2>2. Len(d.todo) # 1 => Tail(d.todo) # << >>
    <3>1. PICK s \in Seq(Nat) : s = Tail(d.todo)
      BY <2>1, RestOfList
    <3>2. Len(d.todo) \in Nat \ {0} /\ Len(s) = Len(d.todo) - 1
      BY <2>1, <3>1, RestOfList
    <3>3. Len(s) = 0 <=> s = << >>
      BY EmptyList
    <3>4. Len(d.todo) # 1 => Len(s) # 0
      BY <3>2
    <3> QED
      BY <3>1, <3>3, <3>4
  <2> QED
    BY <2>2 DEF Desk, AtPlace, Statements
<1>2. Owed(e, mine, notes) /\ Worthy(a, e, DOMAIN table, all) /\ Scrolled(e)
  BY DEF Owed, Worthy, Scrolled
<1>3. Importing(a, e, mine, table)
  BY DEF Importing
<1> QED
  BY <1>1, <1>2, <1>3

(* The request of a is at e now.                                            *)
Turns(a, e) ==
  /\ e \in Doings /\ e.cmd = doing[a].cmd
  /\ doing' \in [Admins -> Doings] /\ doing'[a] = e
  /\ \A b \in Admins : b # a => doing'[b] = doing[b]

(* A request at its next place.                                             *)
LEMMA MovedShape ==
  ASSUME NEW d \in Doings, NEW place \in Places, NEW e, e = [d EXCEPT !.at = place]
  PROVE  /\ e \in Doings /\ e.cmd = d.cmd /\ e.at = place /\ e.todo = d.todo /\ e.old = d.old
         /\ e.new = d.new /\ e.pending = d.pending /\ e.errors = d.errors /\ e.page = d.page
         /\ e.pages = d.pages /\ e.shown = d.shown /\ e.sets = d.sets /\ e.status = d.status
<1>1. e \in Doings
  <2>1. [d EXCEPT !.at = place] \in Doings
    BY DEF Doings
  <2> QED
    BY <2>1
<1>2. /\ e.cmd = d.cmd /\ e.at = place /\ e.todo = d.todo /\ e.old = d.old /\ e.new = d.new
  BY DEF Doings
<1>3. /\ e.pending = d.pending /\ e.errors = d.errors /\ e.page = d.page /\ e.pages = d.pages
  BY DEF Doings
<1>4. e.shown = d.shown /\ e.sets = d.sets /\ e.status = d.status
  BY DEF Doings
<1> QED
  BY <1>1, <1>2, <1>3, <1>4

(* MoveOn, Reply, RollBack and Deleted: where they leave the request.       *)
LEMMA MovingOn ==
  ASSUME DataTyped, NEW a \in Admins, NEW place \in Places, MoveOn(a, place)
  PROVE  Turns(a, [doing[a] EXCEPT !.at = place])
<1>1. PICK d \in Doings : d = doing[a]
  BY DEF DataTyped
<1>2. [d EXCEPT !.at = place] \in Doings /\ [d EXCEPT !.at = place].cmd = d.cmd
  BY DEF Doings
<1> QED
  BY <1>1, <1>2 DEF DataTyped, MoveOn, Turns

(* A request that was answered.                                             *)
LEMMA AnsweredTyped ==
  ASSUME DataTyped, NEW a \in Admins, NEW status \in {200, 400}
  PROVE  Answered(a, status) \in Doings /\ Answered(a, status).cmd = doing[a].cmd
<1>1. << >> \in Seq(Nat) /\ "done" \in Places
  BY DEF Places
<1>2. PICK d \in Doings : d = doing[a]
  BY DEF DataTyped
<1>3. [d EXCEPT !.at = "done", !.status = status, !.todo = << >>] \in Doings
  BY <1>1 DEF Doings
<1> QED
  BY <1>2, <1>3 DEF Answered

LEMMA Replying ==
  ASSUME DataTyped, NEW a \in Admins, NEW status \in {200, 400}, Reply(a, status)
  PROVE  Turns(a, Answered(a, status))
BY AnsweredTyped DEF DataTyped, Reply, Turns

LEMMA RollingBack ==
  ASSUME DataTyped, NEW a \in Admins, RollBack(a)
  PROVE  Turns(a, [Answered(a, 400) EXCEPT !.pending = {}])
<1>1. PICK e \in Doings : e = Answered(a, 400)
  BY AnsweredTyped
<1>2. [e EXCEPT !.pending = {}] \in Doings
  BY DEF Doings
<1>3. [Answered(a, 400) EXCEPT !.pending = {}].cmd = doing[a].cmd
  BY DEF Answered
<1> QED
  BY <1>1, <1>2, <1>3 DEF DataTyped, RollBack, Turns

(* The bulk delete of a is at its next item.                                *)
NextOfBulk(a, failed) ==
  [doing[a] EXCEPT !.at = IF Len(doing[a].todo) = 1 THEN "commit" ELSE "find",
                   !.todo = Tail(@), !.errors = @ + (IF failed THEN 1 ELSE 0)]

LEMMA GoingOn ==
  ASSUME DataTyped, NEW a \in Admins, NEW failed \in BOOLEAN, Deleted(a, failed),
         doing[a].todo # << >>, Op(a) = "bulk"
  PROVE  Turns(a, NextOfBulk(a, failed))
<1>1. NextOfBulk(a, failed) \in Doings
  <2>1. PICK d \in Doings : d = doing[a]
    BY DEF DataTyped
  <2>2. d.todo \in Seq(Nat) /\ d.todo # << >> /\ d.errors \in Nat
    BY <2>1 DEF Doings
  <2>3. PICK s \in Seq(Nat) : s = Tail(d.todo)
    BY <2>2, RestOfList
  <2>4. PICK n \in Nat : n = d.errors + (IF failed THEN 1 ELSE 0)
    BY <2>2
  <2>5. PICK place \in Places : place = (IF Len(d.todo) = 1 THEN "commit" ELSE "find")
    BY DEF Places, Statements
  <2>6. [d EXCEPT !.at = place, !.todo = s, !.errors = n] \in Doings
    BY DEF Doings
  <2>7. NextOfBulk(a, failed) = [d EXCEPT !.at = place, !.todo = s, !.errors = n]
    BY <2>1, <2>3, <2>4, <2>5 DEF NextOfBulk
  <2> QED
    BY <2>6, <2>7
<1>2. NextOfBulk(a, failed).cmd = doing[a].cmd
  BY DEF NextOfBulk
<1>3. doing' = [doing EXCEPT ![a] = NextOfBulk(a, failed)]
  BY DEF Deleted, NextOfBulk, DataTyped
<1> QED
  BY <1>1, <1>2, <1>3 DEF DataTyped, Turns

(* A connection is given back.                                              *)
LEMMA Released ==
  ASSUME NEW a, NEW hs \in SUBSET Admins, IsFiniteSet(hs), Cardinality(hs) <= Connections
  PROVE  hs \ {a} \subseteq Admins /\ IsFiniteSet(hs \ {a}) /\ Cardinality(hs \ {a}) <= Connections
<1>1. IsFiniteSet(hs \ {a}) /\ Cardinality(hs \ {a}) <= Cardinality(hs)
  BY FS_Subset
<1>2. Cardinality(hs) \in Nat /\ Cardinality(hs \ {a}) \in Nat /\ Connections \in Nat
  BY <1>1, FS_CardinalityType, AdminAssumption
<1> QED
  BY <1>1, <1>2

(* Steps that leave table and journal alone and turn the request down.      *)
LEMMA TurnedDown ==
  ASSUME DataInv, NEW a \in Admins, UNCHANGED <<rows, journal, wrote>>, Op(a) # "scroll", ~IsAt(a, "done"),
         \/ Reply(a, 400) /\ UNCHANGED holders
         \/ RollBack(a)
  PROVE  DataInv'
<1>1. PICK d : d = doing[a]
  OBVIOUS
<1>2. /\ d \in Doings /\ d.cmd.op # "scroll" /\ d.at # "done"
      /\ Desk(d) /\ Importing(a, d, wrote[a], rows)
  BY <1>1 DEF DataInv, DataTyped, AtDesk, Op, IsAt
<1>3. DataTyped
  BY DEF DataInv
<1>4. CASE Reply(a, 400) /\ UNCHANGED holders
  <2>1. PICK e : e = Answered(a, 400)
    OBVIOUS
  <2>2. Turns(a, e)
    BY <1>3, <1>4, <2>1, Replying
  <2>3. /\ e \in Doings /\ e.cmd = d.cmd /\ e.at = "done" /\ e.status = 400 /\ e.errors = d.errors
        /\ e.pending = d.pending
    BY <1>1, <1>2, <2>1, <2>2 DEF Answered, Turns, Doings
  <2>4. /\ Desk(e) /\ Owed(e, wrote[a], Noted(a)) /\ Worthy(a, e, DOMAIN rows, wrote)
        /\ Importing(a, e, wrote[a], rows) /\ Scrolled(e)
    BY <1>2, <2>3, Refusal
  <2> QED
    BY <1>3, <1>4, <2>2, <2>4, QuietStep DEF Turns, DataTyped
<1>5. CASE RollBack(a)
  <2>1. PICK e : e = [Answered(a, 400) EXCEPT !.pending = {}]
    OBVIOUS
  <2>2. Turns(a, e)
    BY <1>3, <1>5, <2>1, RollingBack
  <2>3. /\ e \in Doings /\ e.cmd = d.cmd /\ e.at = "done" /\ e.status = 400 /\ e.errors = d.errors
        /\ e.pending = {}
    BY <1>1, <1>2, <2>1, <2>2 DEF Answered, Turns, Doings
  <2>4. /\ Desk(e) /\ Owed(e, wrote[a], Noted(a)) /\ Worthy(a, e, DOMAIN rows, wrote)
        /\ Importing(a, e, wrote[a], rows) /\ Scrolled(e)
    BY <1>2, <2>3, Refusal
  <2>5. holders' \subseteq Admins /\ IsFiniteSet(holders') /\ Cardinality(holders') <= Connections
    BY <1>3, <1>5, Released DEF RollBack, DataTyped
  <2> QED
    BY <2>2, <2>4, <2>5, QuietStep DEF Turns
<1> QED
  BY <1>4, <1>5

(* Steps of a delete or of a bulk delete whose row is over.                 *)
LEMMA ItemOver ==
  ASSUME DataInv, NEW a \in Admins, UNCHANGED <<rows, journal, wrote, holders>>,
         Op(a) \in {"delete", "bulk"}, doing[a].at \in {"find", "delete", "note"}, Deleted(a, TRUE)
  PROVE  DataInv'
<1>1. CASE Op(a) = "delete"
  BY <1>1, TurnedDown DEF Deleted, IsAt
<1>2. CASE Op(a) = "bulk"
  <2>1. PICK d : d = doing[a]
    OBVIOUS
  <2>2. DataTyped /\ d \in Doings /\ Desk(d) /\ d.todo # << >> /\ d.cmd.op = "bulk"
    BY <1>2, <2>1 DEF DataInv, DataTyped, AtDesk, Desk, Statements, Op
  <2>3. PICK e : e = NextOfBulk(a, TRUE)
    OBVIOUS
  <2>4. Turns(a, e)
    BY <1>2, <2>1, <2>2, <2>3, GoingOn
  <2>5. /\ e \in Doings /\ e.cmd = d.cmd /\ e.at = (IF Len(d.todo) = 1 THEN "commit" ELSE "find")
        /\ e.todo = Tail(d.todo) /\ e.pending = d.pending /\ e.errors = d.errors + 1
    BY <2>1, <2>2, <2>3, <2>4 DEF NextOfBulk, Turns, Doings
  <2>6. e.errors # 0
    BY <2>2, <2>5 DEF Doings
  <2>7. /\ Desk(e) /\ Owed(e, wrote[a], Noted(a)) /\ Worthy(a, e, DOMAIN rows, wrote)
        /\ Importing(a, e, wrote[a], rows) /\ Scrolled(e)
    BY <2>1, <2>2, <2>5, <2>6, NextItem
  <2> QED
    BY <2>2, <2>4, <2>7, QuietStep DEF Turns, DataTyped
<1> QED
  BY <1>1, <1>2

(* The statements of the handlers, one by one.                              *)
LEMMA AtStart == ASSUME DataInv, NEW a \in Admins, Start(a) PROVE DataInv'
<1>1. PICK d \in Doings : d = doing[a]
  BY DEF DataInv, DataTyped
<1>2. /\ DataTyped /\ d.at = "start" /\ UNCHANGED <<rows, journal, holders, wrote>>
      /\ Desk(d) /\ Owed(d, wrote[a], Noted(a)) /\ Importing(a, d, wrote[a], rows) /\ Scrolled(d)
  BY <1>1 DEF Start, IsAt, DataInv, AtDesk
<1>3. d.cmd.op \in {"delete", "bulk", "import", "patch", "scroll"}
      /\ (d.cmd.op \in {"delete", "patch"} => d.todo # << >>)
  BY <1>1, <1>2, CommandShape DEF Desk, Doings
<1>4. ASSUME NEW place \in Places, MoveOn(a, place),
             \/ d.cmd.op \in {"delete", "patch"} /\ place = "find"
             \/ d.cmd.op = "scroll" /\ place = "count"
             \/ d.cmd.op \in {"bulk", "import"} /\ place = "begin" /\ d.todo # << >>
      PROVE  DataInv'
  <2>1. PICK e : e = [d EXCEPT !.at = place]
    OBVIOUS
  <2>2. Turns(a, e)
    BY <1>1, <1>2, <1>4, <2>1, MovingOn
  <2>3. /\ e \in Doings /\ e.cmd = d.cmd /\ e.at = place /\ e.todo = d.todo /\ e.pending = d.pending
        /\ e.errors = d.errors /\ e.status = d.status /\ e.shown = d.shown /\ e.sets = d.sets
        /\ e.page = d.page
    BY <2>1, MovedShape
  <2>4. Desk(e)
    BY <1>2, <1>3, <1>4, <2>3 DEF Desk, AtPlace, Statements
  <2>5. Owed(e, wrote[a], Noted(a)) /\ Worthy(a, e, DOMAIN rows, wrote)
    BY <1>2, <1>4, <2>3 DEF Owed, Worthy
  <2>6. Importing(a, e, wrote[a], rows)
    BY <1>2, <1>4, <2>3 DEF Importing
  <2>7. Scrolled(e)
    BY <1>2, <1>4, <2>3 DEF Scrolled
  <2> QED
    BY <1>2, <2>2, <2>4, <2>5, <2>6, <2>7, QuietStep DEF Turns, DataTyped
<1>5. CASE d.cmd.op \in {"delete", "patch"}
  BY <1>1, <1>3, <1>4, <1>5 DEF Start, Op, Places, Statements
<1>6. CASE d.cmd.op = "scroll"
  BY <1>1, <1>4, <1>6 DEF Start, Op, Places
<1>7. CASE d.cmd.op \in {"bulk", "import"} /\ d.todo # << >>
  BY <1>1, <1>4, <1>7 DEF Start, Op, Places, Statements
<1>8. CASE d.cmd.op \in {"bulk", "import"} /\ d.todo = << >>
  <2>1. Reply(a, 400)
    BY <1>1, <1>8 DEF Start, Op
  <2> QED
    BY <1>1, <1>2, <1>8, <2>1, TurnedDown DEF Op, IsAt
<1> QED
  BY <1>3, <1>5, <1>6, <1>7, <1>8

LEMMA AtBegin == ASSUME DataInv, NEW a \in Admins, Begin(a) PROVE DataInv'
<1>1. PICK d \in Doings : d = doing[a]
  BY DEF DataInv, DataTyped
<1>2. /\ DataTyped /\ d.at = "begin" /\ UNCHANGED <<rows, journal, wrote>>
      /\ Desk(d) /\ Owed(d, wrote[a], Noted(a)) /\ Importing(a, d, wrote[a], rows)
  BY <1>1 DEF Begin, IsAt, DataInv, AtDesk
<1>3. d.cmd.op \in {"bulk", "import"} /\ d.todo # << >>
  BY <1>2, CommandShape DEF Desk, AtPlace, Statements
<1>4. PICK place \in Places : place = (IF d.cmd.op = "bulk" THEN "find" ELSE "insert")
  BY DEF Places, Statements
<1>5. PICK e : e = [d EXCEPT !.at = place]
  OBVIOUS
<1>6. Turns(a, e)
  BY <1>1, <1>2, <1>4, <1>5, MovingOn DEF Begin, Op
<1>7. /\ e \in Doings /\ e.cmd = d.cmd /\ e.at = place /\ e.todo = d.todo /\ e.pending = d.pending
      /\ e.errors = d.errors /\ e.status = d.status
  BY <1>5, MovedShape
<1>8. Desk(e)
  BY <1>2, <1>3, <1>4, <1>7 DEF Desk, AtPlace, Statements
<1>9. Owed(e, wrote[a], Noted(a)) /\ Worthy(a, e, DOMAIN rows, wrote) /\ Scrolled(e)
  BY <1>2, <1>3, <1>4, <1>7 DEF Owed, Worthy, Scrolled
<1>10. Importing(a, e, wrote[a], rows)
  BY <1>2, <1>4, <1>7 DEF Importing
<1>11. holders' \subseteq Admins /\ IsFiniteSet(holders') /\ Cardinality(holders') <= Connections
  <2>1. /\ holders' = holders \cup {a} /\ IsFiniteSet(holders) /\ holders \subseteq Admins
        /\ Cardinality(holders) < Connections
    BY <1>2 DEF Begin, Free, DataTyped
  <2>2. IsFiniteSet(holders') /\ Cardinality(holders') \in {Cardinality(holders), Cardinality(holders) + 1}
    BY <2>1, FS_AddElement
  <2>3. Cardinality(holders) \in Nat /\ Cardinality(holders') \in Nat /\ Connections \in Nat
    BY <2>1, <2>2, FS_CardinalityType, AdminAssumption
  <2> QED
    BY <2>1, <2>2, <2>3
<1> QED
  BY <1>1, <1>2, <1>6, <1>8, <1>9, <1>10, <1>11, QuietStep DEF Turns

LEMMA AtLook == ASSUME DataInv, NEW a \in Admins, Look(a) PROVE DataInv'
<1>1. PICK d \in Doings : d = doing[a]
  BY DEF DataInv, DataTyped
<1>2. /\ DataTyped /\ d.at = "find" /\ UNCHANGED <<rows, journal, holders, wrote>>
      /\ Desk(d) /\ Owed(d, wrote[a], Noted(a)) /\ Importing(a, d, wrote[a], rows)
  BY <1>1 DEF Look, IsAt, DataInv, AtDesk
<1>3. d.cmd.op \in {"delete", "bulk", "patch"} /\ d.todo # << >> /\ Id(a) = Head(d.todo)
  BY <1>1, <1>2, CommandShape DEF Desk, AtPlace, Statements, Id
<1>4. CASE Id(a) \notin DOMAIN rows /\ d.cmd.op # "patch"
  <2>1. Deleted(a, TRUE)
    BY <1>1, <1>4 DEF Look, Op
  <2> QED
    BY <1>1, <1>2, <1>3, <1>4, <2>1, ItemOver DEF Op
<1>5. CASE d.cmd.op = "patch" /\ (Id(a) \notin DOMAIN rows \/ d.cmd.column = Locked \/ ~d.cmd.parses)
  <2>1. Reply(a, 400)
    BY <1>1, <1>5 DEF Look, Op
  <2> QED
    BY <1>1, <1>2, <1>5, <2>1, TurnedDown DEF Op, IsAt
<1>6. CASE Id(a) \in DOMAIN rows /\ (d.cmd.op = "patch" => d.cmd.column # Locked)
           /\ doing' = [doing EXCEPT ![a].at = IF Op(a) = "patch" THEN "update" ELSE "delete",
                                     ![a].old = rows[Id(a)], ![a].new = Unread]
  <2>1. PICK place \in Places : place = (IF d.cmd.op = "patch" THEN "update" ELSE "delete")
    BY DEF Places, Statements
  <2>2. PICK row \in Contents : row = rows[Id(a)]
    BY <1>2, <1>6 DEF DataTyped, Contents
  <2>3. PICK e : e = [d EXCEPT !.at = place, !.old = row, !.new = Unread]
    OBVIOUS
  <2>4. e \in Doings /\ e.cmd = d.cmd
    <3>1. Unread \in Contents
      BY DEF Contents
    <3>2. PICK u \in Contents : u = Unread
      BY <3>1
    <3>4. [d EXCEPT !.at = place, !.old = row, !.new = u] \in Doings
      BY DEF Doings
    <3>3. e.cmd = d.cmd
      BY <2>3 DEF Doings
    <3> QED
      BY <2>3, <3>2, <3>3, <3>4
  <2>5. doing' = [doing EXCEPT ![a] = e]
    BY <1>1, <1>2, <1>6, <2>1, <2>2, <2>3 DEF Op, DataTyped
  <2>6. Turns(a, e)
    BY <1>1, <1>2, <2>4, <2>5 DEF Turns, DataTyped
  <2>7. /\ e.at = place /\ e.todo = d.todo /\ e.pending = d.pending /\ e.errors = d.errors
        /\ e.status = d.status /\ e.new = Unread
    BY <2>3 DEF Doings
  <2>8. d.cmd.op = "patch" => d.cmd.column \in Columns
    BY <1>6, CommandShape DEF Doings
  <2>9. Desk(e)
    BY <1>2, <1>3, <2>1, <2>4, <2>7, <2>8 DEF Desk, AtPlace, Statements
  <2>10. Owed(e, wrote[a], Noted(a)) /\ Worthy(a, e, DOMAIN rows, wrote) /\ Scrolled(e)
    BY <1>2, <1>3, <1>6, <2>1, <2>4, <2>7 DEF Owed, Worthy, Scrolled
  <2>11. Importing(a, e, wrote[a], rows)
    BY <1>3, <2>4 DEF Importing
  <2> QED
    BY <1>1, <1>2, <2>4, <2>6, <2>9, <2>10, <2>11, QuietStep DEF Turns, DataTyped
<1> QED
  BY <1>1, <1>3, <1>4, <1>5, <1>6 DEF Look, Op

(* The row goes, if it is still there: then another request took it.        *)
LEMMA AtDelete == ASSUME DataInv, NEW a \in Admins, Delete(a) PROVE DataInv'
<1>1. PICK d \in Doings : d = doing[a]
  BY DEF DataInv, DataTyped
<1>2. /\ DataTyped /\ d.at = "delete" /\ UNCHANGED <<journal, holders>> /\ MoveOn(a, "note")
      /\ Desk(d) /\ Owed(d, wrote[a], Noted(a)) /\ Worthy(a, d, DOMAIN rows, wrote)
  BY <1>1 DEF Delete, IsAt, DataInv, AtDesk
<1>3. d.cmd.op \in {"delete", "bulk"} /\ d.todo # << >>
  BY <1>2, CommandShape DEF Desk, AtPlace, Statements
<1>4. PICK id \in Nat : id = Id(a) /\ id = Head(d.todo)
  BY <1>1, <1>3, RestOfList DEF Id, Doings
<1>5. /\ rows' = [i \in DOMAIN rows \ {id} |-> rows[i]]
      /\ wrote' = [wrote EXCEPT ![a] = @ \cup ({id} \cap DOMAIN rows)]
  BY <1>4 DEF Delete
<1>6. PICK e : e = [d EXCEPT !.at = "note"]
  OBVIOUS
<1>7. "note" \in Places
  BY DEF Places, Statements
<1>8. Turns(a, e)
  BY <1>1, <1>2, <1>6, <1>7, MovingOn
<1>9. /\ e \in Doings /\ e.cmd = d.cmd /\ e.at = "note" /\ e.todo = d.todo /\ e.pending = d.pending
      /\ e.errors = d.errors /\ e.status = d.status /\ e.new = d.new
  BY <1>6, <1>7, MovedShape
<1>10. /\ wrote' \in [Admins -> SUBSET Ids] /\ wrote'[a] = wrote[a] \cup ({id} \cap DOMAIN rows)
       /\ \A b \in Admins : wrote[b] \subseteq wrote'[b] /\ (b # a => wrote'[b] = wrote[b])
  BY <1>2, <1>5 DEF DataTyped
<1>11. DataTyped'
  BY <1>2, <1>5, <1>8, <1>10 DEF DataTyped, Turns
<1>12. \A b \in Admins : Noted(b)' = Noted(b)
  BY <1>2 DEF Noted
<1>13. MovesFor(a)
  BY <1>1, <1>5, <1>8, <1>10, <1>12 DEF MovesFor, Turns
<1>14. AtDesk(a)'
  <2>1. Desk(e)
    BY <1>2, <1>3, <1>9 DEF Desk, AtPlace, Statements
  <2>2. Owed(e, wrote'[a], Noted(a))
    BY <1>2, <1>3, <1>4, <1>9, <1>10 DEF Owed
  <2>3. Worthy(a, e, DOMAIN rows', wrote')
    <3>1. \E b \in Admins : id \in wrote'[b]
      BY <1>2, <1>4, <1>10 DEF Worthy
    <3>2. e.new = Unread
      BY <1>2, <1>9 DEF Worthy
    <3> QED
      BY <1>4, <1>9, <3>1, <3>2 DEF Worthy
  <2>4. Importing(a, e, wrote'[a], rows') /\ Scrolled(e)
    BY <1>3, <1>9 DEF Importing, Scrolled
  <2> QED
    BY <1>8, <1>12, <2>1, <2>2, <2>3, <2>4 DEF AtDesk, Turns
<1>15. \A b \in Admins : AtDesk(b)'
  BY <1>13, <1>14, OthersStay
<1>16. Truthful'
  BY <1>2, <1>10 DEF DataInv, Truthful
<1>17. EditsHold'
  <2>1. \A b \in Admins : doing'[b].cmd = doing[b].cmd
    BY <1>13 DEF MovesFor
  <2>2. \A i, c : Patches(i, c)' = Patches(i, c)
    BY <2>1 DEF Patches, Op
  <2>3. \A i : Replaced(i) => Replaced(i)'
    BY <1>10, <2>1 DEF Replaced, Op
  <2>4. \A i, c : \A b \in Patches(i, c) : b # a /\ b \in Admins
    BY <1>1, <1>3 DEF Patches, Op
  <2>5. \A i \in DOMAIN rows' : i \in DOMAIN rows /\ rows'[i] = rows[i]
    BY <1>5
  <2> SUFFICES ASSUME NEW i \in DOMAIN rows', NEW c \in Columns,
                      \E b \in Patches(i, c)' : i \in wrote'[b], ~Replaced(i)'
               PROVE  rows'[i][c] \in Patches(i, c)'
    BY DEF EditsHold
  <2>6. \E b \in Patches(i, c) : i \in wrote[b]
    BY <1>10, <2>2, <2>4
  <2>7. rows[i][c] \in Patches(i, c)
    BY <2>3, <2>5, <2>6 DEF DataInv, EditsHold
  <2> QED
    BY <2>2, <2>5, <2>7
<1> QED
  BY <1>11, <1>15, <1>16, <1>17 DEF DataInv

(* One cell of the row as it is now.                                        *)
LEMMA AtUpdate == ASSUME DataInv, NEW a \in Admins, Update(a) PROVE DataInv'
<1>1. PICK d \in Doings : d = doing[a]
  BY DEF DataInv, DataTyped
<1>2. /\ DataTyped /\ d.at = "update" /\ UNCHANGED <<journal, holders>>
      /\ Desk(d) /\ Owed(d, wrote[a], Noted(a))
  BY <1>1 DEF Update, IsAt, DataInv, AtDesk
<1>3. /\ d.cmd.op = "patch" /\ d.todo # << >> /\ d.todo = d.cmd.ids /\ d.cmd.column \in Columns
      /\ d.errors = 0
  BY <1>2, CommandShape DEF Desk, AtPlace, Statements
<1>4. PICK id \in Nat : id = Id(a) /\ id = Head(d.todo)
  BY <1>1, <1>3, RestOfList DEF Id, Doings
<1>5. d.cmd.ids = <<id>>
  <2>1. d.cmd.ids \in Seq(Nat) /\ Len(d.cmd.ids) = 1
    BY <1>3, CommandShape DEF Doings
  <2>2. PICK s \in Seq(Nat) : s = d.cmd.ids
    BY <2>1
  <2>3. Len(s) = 1 => s = <<Head(s)>>
    OBVIOUS
  <2> QED
    BY <1>3, <1>4, <2>1, <2>2, <2>3
<1>6. CASE id \notin DOMAIN rows
  <2>1. Reply(a, 400) /\ UNCHANGED <<rows, wrote>>
    BY <1>4, <1>6 DEF Update
  <2> QED
    BY <1>1, <1>2, <1>3, <2>1, TurnedDown DEF Op, IsAt
<1>7. CASE id \in DOMAIN rows
  <2>1. PICK row : row = Written(a, rows[id])
    OBVIOUS
  <2>2. row \in Cells /\ row[d.cmd.column] = a /\ \A c \in Columns : c # d.cmd.column => row[c] = rows[id][c]
    <3>1. rows[id] \in Cells
      BY <1>2, <1>7 DEF DataTyped
    <3> QED
      BY <1>1, <1>3, <2>1, <3>1 DEF Written, Cells
  <2>3. /\ rows' = [rows EXCEPT ![id] = row]
        /\ doing' = [doing EXCEPT ![a].at = "note", ![a].new = row]
        /\ wrote' = [wrote EXCEPT ![a] = @ \cup {id}]
    BY <1>4, <1>7, <2>1 DEF Update
  <2>4. PICK e : e = [d EXCEPT !.at = "note", !.new = row]
    OBVIOUS
  <2>5. e \in Doings
    <3>1. PICK new \in Contents : new = row
      BY <2>2 DEF Contents
    <3>2. PICK place \in Places : place = "note"
      BY DEF Places, Statements
    <3>3. [d EXCEPT !.at = place, !.new = new] \in Doings
      BY DEF Doings
    <3> QED
      BY <2>4, <3>1, <3>2, <3>3
  <2>6. /\ e.cmd = d.cmd /\ e.at = "note" /\ e.todo = d.todo /\ e.pending = d.pending
        /\ e.errors = d.errors
    BY <2>4 DEF Doings
  <2>7. Turns(a, e)
    <3>1. doing' = [doing EXCEPT ![a] = e]
      BY <1>1, <1>2, <2>3, <2>4 DEF DataTyped
    <3> QED
      BY <1>1, <1>2, <2>5, <2>6, <3>1 DEF Turns, DataTyped
  <2>8. id \in Ids
    BY <1>2, <1>7 DEF DataTyped
  <2>9. /\ wrote' \in [Admins -> SUBSET Ids] /\ wrote'[a] = wrote[a] \cup {id}
        /\ \A b \in Admins : wrote[b] \subseteq wrote'[b] /\ (b # a => wrote'[b] = wrote[b])
    BY <1>2, <2>3, <2>8 DEF DataTyped
  <2>10. /\ DOMAIN rows' = DOMAIN rows /\ rows' \in [DOMAIN rows -> Cells] /\ rows'[id] = row
         /\ \A i \in DOMAIN rows : i # id => rows'[i] = rows[i]
    BY <1>2, <1>7, <2>2, <2>3 DEF DataTyped
  <2>11. DataTyped'
    BY <1>2, <2>7, <2>9, <2>10 DEF DataTyped, Turns
  <2>12. \A b \in Admins : Noted(b)' = Noted(b)
    BY <1>2 DEF Noted
  <2>13. MovesFor(a)
    <3>1. \A i \in DOMAIN rows', c \in Columns :
            rows'[i][c] = a \/ (i \in DOMAIN rows /\ rows'[i][c] = rows[i][c])
      BY <2>2, <2>10
    <3> QED
      BY <1>1, <2>7, <2>9, <2>10, <2>12, <3>1 DEF MovesFor, Turns
  <2>14. AtDesk(a)'
    <3>1. Desk(e)
      BY <1>2, <1>3, <2>6 DEF Desk, AtPlace, Statements
    <3>2. Owed(e, wrote'[a], Noted(a))
      BY <1>2, <1>3, <1>4, <2>6, <2>9 DEF Owed
    <3>3. Worthy(a, e, DOMAIN rows', wrote')
      BY <1>4, <2>6, <2>9 DEF Worthy
    <3>4. Importing(a, e, wrote'[a], rows') /\ Scrolled(e)
      BY <1>3, <2>6 DEF Importing, Scrolled
    <3> QED
      BY <2>7, <2>12, <3>1, <3>2, <3>3, <3>4 DEF AtDesk, Turns
  <2>15. \A b \in Admins : AtDesk(b)'
    BY <2>13, <2>14, OthersStay
  <2>16. Truthful'
    BY <1>2, <2>9 DEF DataInv, Truthful
  <2>17. EditsHold'
    <3>1. \A b \in Admins : doing'[b].cmd = doing[b].cmd
      BY <2>13 DEF MovesFor
    <3>2. \A i, c : Patches(i, c)' = Patches(i, c)
      BY <3>1 DEF Patches, Op
    <3>3. \A i : Replaced(i) => Replaced(i)'
      BY <2>9, <3>1 DEF Replaced, Op
    <3>4. a \in Patches(id, d.cmd.column)
      BY <1>1, <1>3, <1>5 DEF Patches, Op
    <3>5. \A i, c : a \in Patches(i, c) => c = d.cmd.column /\ i = id
      BY <1>1, <1>5 DEF Patches
    <3> SUFFICES ASSUME NEW i \in DOMAIN rows', NEW c \in Columns,
                        \E b \in Patches(i, c)' : i \in wrote'[b], ~Replaced(i)'
                 PROVE  rows'[i][c] \in Patches(i, c)'
      BY DEF EditsHold
    <3>6. CASE i = id /\ c = d.cmd.column
      BY <2>2, <2>10, <3>2, <3>4, <3>6
    <3>7. CASE ~(i = id /\ c = d.cmd.column)
      <4>1. a \notin Patches(i, c)
        BY <3>5, <3>7
      <4>2. \E b \in Patches(i, c) : i \in wrote[b]
        <5>1. \A b \in Patches(i, c) : b \in Admins
          BY DEF Patches
        <5>2. PICK b \in Patches(i, c) : i \in wrote'[b]
          BY <3>2
        <5>3. wrote'[b] = wrote[b]
          BY <2>9, <4>1, <5>1, <5>2
        <5> QED
          BY <5>2, <5>3
      <4>3. rows[i][c] \in Patches(i, c)
        BY <2>10, <3>3, <4>2 DEF DataInv, EditsHold
      <4>4. rows'[i][c] = rows[i][c]
        BY <2>2, <2>10, <3>7
      <4> QED
        BY <3>2, <4>3, <4>4
    <3> QED
      BY <3>6, <3>7
  <2> QED
    BY <2>11, <2>15, <2>16, <2>17 DEF DataInv
<1> QED
  BY <1>6, <1>7

(* The entry pays what is owed.                                             *)
LEMMA AtNote == ASSUME DataInv, NEW a \in Admins, Note(a) PROVE DataInv'
<1>1. PICK d \in Doings : d = doing[a]
  BY DEF DataInv, DataTyped
<1>2. /\ DataTyped /\ d.at = "note" /\ UNCHANGED <<rows, holders, wrote>>
      /\ Desk(d) /\ Owed(d, wrote[a], Noted(a)) /\ Worthy(a, d, DOMAIN rows, wrote)
  BY <1>1 DEF Note, IsAt, DataInv, AtDesk
<1>3. d.cmd.op \in {"delete", "bulk", "patch"} /\ d.todo # << >>
  BY <1>2, CommandShape DEF Desk, AtPlace, Statements
<1>4. PICK id \in Nat : id = Id(a) /\ id = Head(d.todo)
  BY <1>1, <1>3, RestOfList DEF Id, Doings
<1>5. PICK entry \in Entries : entry = [by |-> a, id |-> id, old |-> d.old, new |-> d.new]
  <2>1. d.old \in Contents /\ d.new \in Contents
    BY DEF Doings
  <2>2. [by |-> a, id |-> id, old |-> d.old, new |-> d.new] \in Entries
    BY <2>1 DEF Entries
  <2> QED
    BY <2>2
<1>6. journal' = Append(journal, entry)
  BY <1>1, <1>4, <1>5 DEF Note, Entry
<1>7. PICK n \in Nat : n = Len(journal)
  BY <1>2 DEF DataTyped
<1>8. /\ journal' \in Seq(Entries) /\ DOMAIN journal = 1..n /\ DOMAIN journal' = 1..(n + 1)
      /\ journal'[n + 1] = entry /\ \A i \in 1..n : journal'[i] = journal[i]
      /\ n + 1 \in 1..(n + 1) /\ \A i \in 1..(n + 1) : i \in 1..n \/ i = n + 1
      /\ \A i \in 1..n : i \in 1..(n + 1)
  BY <1>2, <1>6, <1>7 DEF DataTyped
<1>9. \A b \in Admins : Noted(b) \subseteq Noted(b)'
  BY <1>8 DEF Noted
<1>10. id \in Noted(a)'
  <2>1. journal'[n + 1].by = a /\ journal'[n + 1].id = id
    BY <1>5, <1>8
  <2> QED
    BY <1>8, <2>1 DEF Noted
<1>11. PICK e : /\ Turns(a, e) /\ e.cmd = d.cmd
                /\ \/ e = Answered(a, 200) /\ d.cmd.op # "bulk"
                   \/ e = NextOfBulk(a, FALSE) /\ d.cmd.op = "bulk"
  <2>1. CASE d.cmd.op # "bulk"
    <3>1. Reply(a, 200)
      BY <1>1, <2>1 DEF Note, Deleted, Op
    <3>2. Turns(a, Answered(a, 200))
      BY <1>1, <1>2, <3>1, Replying
    <3>3. Answered(a, 200).cmd = d.cmd
      BY <1>1, <3>2 DEF Turns
    <3> QED
      BY <2>1, <3>2, <3>3
  <2>2. CASE d.cmd.op = "bulk"
    <3>1. Deleted(a, FALSE)
      BY <1>1, <2>2 DEF Note, Op
    <3>2. Turns(a, NextOfBulk(a, FALSE))
      BY <1>1, <1>2, <1>3, <2>2, <3>1, GoingOn DEF Op
    <3>3. NextOfBulk(a, FALSE).cmd = d.cmd
      BY <1>1, <3>2 DEF Turns
    <3> QED
      BY <2>2, <3>2, <3>3
  <2> QED
    BY <2>1, <2>2
<1>12. DataTyped'
  BY <1>2, <1>8, <1>11 DEF DataTyped, Turns
<1>13. MovesFor(a)
  BY <1>1, <1>2, <1>9, <1>11 DEF MovesFor, Turns
<1>14. AtDesk(a)'
  <2>1. d.errors = 0 => wrote[a] \subseteq Noted(a)'
    BY <1>2, <1>3, <1>4, <1>9, <1>10 DEF Owed
  <2>2. CASE e = Answered(a, 200) /\ d.cmd.op # "bulk"
    <3>1. e.at = "done" /\ e.errors = d.errors /\ e.pending = d.pending
      BY <1>1, <2>2 DEF Answered, Doings
    <3>2. Desk(e)
      BY <1>2, <1>3, <1>11, <3>1 DEF Desk, AtPlace, Statements
    <3>3. d.errors = 0
      BY <1>2, <1>3, <2>2 DEF Desk
    <3>4. Owed(e, wrote[a], Noted(a)') /\ Worthy(a, e, DOMAIN rows, wrote)
      BY <1>3, <1>11, <2>1, <3>1, <3>3 DEF Owed, Worthy
    <3>5. Importing(a, e, wrote[a], rows) /\ Scrolled(e)
      BY <1>3, <1>11 DEF Importing, Scrolled
    <3> QED
      BY <1>2, <1>11, <3>2, <3>4, <3>5 DEF AtDesk, Turns
  <2>3. CASE e = NextOfBulk(a, FALSE) /\ d.cmd.op = "bulk"
    <3>1. /\ e.at = (IF Len(d.todo) = 1 THEN "commit" ELSE "find") /\ e.todo = Tail(d.todo)
          /\ e.pending = d.pending /\ e.errors = d.errors
      BY <1>1, <2>3 DEF NextOfBulk, Doings
    <3>2. e \in Doings
      BY <1>11 DEF Turns
    <3>3. /\ Desk(e) /\ Owed(e, wrote[a], Noted(a)') /\ Worthy(a, e, DOMAIN rows, wrote)
          /\ Importing(a, e, wrote[a], rows) /\ Scrolled(e)
      BY <1>2, <1>11, <2>1, <2>3, <3>1, <3>2, NextItem
    <3> QED
      BY <1>2, <1>11, <3>3 DEF AtDesk, Turns
  <2> QED
    BY <1>11, <2>2, <2>3
<1>15. \A b \in Admins : AtDesk(b)'
  BY <1>13, <1>14, OthersStay
<1>16. Truthful'
  <2>1. \E b \in Admins : id \in wrote[b] /\ (d.new # Unread => b = a)
    BY <1>2, <1>4 DEF Worthy
  <2>2. entry.id = id /\ entry.new = d.new /\ entry.by = a
    BY <1>5
  <2> SUFFICES ASSUME NEW i \in 1..(n + 1)
               PROVE  \E b \in Admins : journal'[i].id \in wrote[b] /\ (journal'[i].new # Unread => b = journal'[i].by)
    BY <1>2, <1>8 DEF Truthful
  <2>3. CASE i \in 1..n
    BY <1>8, <2>3 DEF DataInv, Truthful
  <2>4. CASE i = n + 1
    BY <1>8, <2>1, <2>2, <2>4
  <2> QED
    BY <1>8, <2>3, <2>4
<1>17. EditsHold'
  <2>1. \A b \in Admins : doing'[b].cmd = doing[b].cmd
    BY <1>13 DEF MovesFor
  <2>2. \A i, c : Patches(i, c)' = Patches(i, c)
    BY <2>1 DEF Patches, Op
  <2>3. \A i : Replaced(i)' <=> Replaced(i)
    BY <1>2, <2>1 DEF Replaced, Op
  <2> QED
    BY <1>2, <2>2, <2>3 DEF DataInv, EditsHold
<1> QED
  BY <1>12, <1>15, <1>16, <1>17 DEF DataInv

(* A row of an import, seen by its transaction alone.                       *)
LEMMA AtInsert == ASSUME DataInv, NEW a \in Admins, Insert(a) PROVE DataInv'
<1>1. PICK d \in Doings : d = doing[a]
  BY DEF DataInv, DataTyped
<1>2. /\ DataTyped /\ d.at = "insert" /\ UNCHANGED <<journal, wrote>>
      /\ Desk(d) /\ Owed(d, wrote[a], Noted(a)) /\ Importing(a, d, wrote[a], rows)
  BY <1>1 DEF Insert, IsAt, DataInv, AtDesk
<1>3. d.cmd.op = "import" /\ d.todo # << >> /\ d.todo \in Seq(Nat) /\ d.pending \subseteq Ids
  BY <1>2, CommandShape DEF Desk, AtPlace, Statements, Doings
<1>4. PICK id \in Ids :
        \/ id \in DOMAIN rows \cup d.pending /\ RollBack(a) /\ UNCHANGED rows
        \/ /\ id \notin DOMAIN rows \cup d.pending
           /\ doing' = [doing EXCEPT ![a].pending = @ \cup {id}, ![a].todo = Tail(@),
                                   ![a].at = IF Len(doing[a].todo) = 1 THEN "commit" ELSE @]
           /\ UNCHANGED <<rows, holders>>
  BY <1>1 DEF Insert, Visible
<1>5. CASE RollBack(a) /\ UNCHANGED rows
  BY <1>1, <1>2, <1>3, <1>5, TurnedDown DEF Op, IsAt
<1>6. CASE /\ id \notin DOMAIN rows \cup d.pending
           /\ doing' = [doing EXCEPT ![a].pending = @ \cup {id}, ![a].todo = Tail(@),
                                   ![a].at = IF Len(doing[a].todo) = 1 THEN "commit" ELSE @]
           /\ UNCHANGED <<rows, holders>>
  <2>1. PICK s \in Seq(Nat) : s = Tail(d.todo) /\ Len(s) = Len(d.todo) - 1 /\ Len(d.todo) \in Nat \ {0}
    BY <1>3, RestOfList
  <2>2. PICK p \in SUBSET Ids : p = d.pending \cup {id}
    BY <1>3
  <2>3. PICK place \in Places : place = (IF Len(d.todo) = 1 THEN "commit" ELSE "insert")
    BY DEF Places, Statements
  <2>4. PICK e : e = [d EXCEPT !.pending = p, !.todo = s, !.at = place]
    OBVIOUS
  <2>5. e \in Doings
    <3>1. [d EXCEPT !.pending = p, !.todo = s, !.at = place] \in Doings
      BY DEF Doings
    <3> QED
      BY <2>4, <3>1
  <2>6. /\ e.cmd = d.cmd /\ e.at = place /\ e.todo = s /\ e.pending = p /\ e.errors = d.errors
        /\ e.status = d.status
    BY <2>4 DEF Doings
  <2>7. doing' = [doing EXCEPT ![a] = e]
    BY <1>1, <1>2, <1>6, <2>1, <2>2, <2>3, <2>4 DEF DataTyped
  <2>8. Turns(a, e)
    BY <1>1, <1>2, <2>5, <2>6, <2>7 DEF Turns, DataTyped
  <2>9. Len(s) = 0 <=> s = << >>
    BY EmptyList
  <2>10. Desk(e)
    <3>1. place = "insert" => s # << >>
      BY <2>1, <2>3, <2>9
    <3>2. d.errors = 0
      BY <1>2, <1>3 DEF Desk
    <3> QED
      BY <1>3, <2>3, <2>6, <3>1, <3>2 DEF Desk, AtPlace, Statements
  <2>11. Owed(e, wrote[a], Noted(a)) /\ Worthy(a, e, DOMAIN rows, wrote) /\ Scrolled(e)
    BY <1>3, <2>3, <2>6 DEF Owed, Worthy, Scrolled
  <2>12. Importing(a, e, wrote[a], rows)
    <3>1. /\ wrote[a] = {} /\ Cardinality(d.pending) + Len(d.todo) = Len(d.cmd.ids)
          /\ \A i \in DOMAIN rows, c \in Columns : rows[i][c] # a
      BY <1>2, <1>3 DEF Importing
    <3>2. IsFiniteSet(d.pending)
      BY <1>3, FiniteIds
    <3>3. Cardinality(p) = Cardinality(d.pending) + 1 /\ Cardinality(d.pending) \in Nat
      BY <1>6, <2>2, <3>2, FS_AddElement, FS_CardinalityType
    <3>4. Cardinality(p) + Len(s) = Len(d.cmd.ids)
      BY <2>1, <3>1, <3>3
    <3>5. place = "commit" => s = << >>
      BY <2>1, <2>3, <2>9
    <3> QED
      BY <2>3, <2>6, <3>1, <3>4, <3>5 DEF Importing
  <2> QED
    BY <1>1, <1>2, <1>6, <2>5, <2>6, <2>8, <2>10, <2>11, <2>12, QuietStep DEF Turns, DataTyped
<1> QED
  BY <1>4, <1>5, <1>6

LEMMA AtRefused == ASSUME DataInv, NEW a \in Admins, Refused(a) PROVE DataInv'
<1>1. DataTyped /\ Desk(doing[a]) /\ doing[a].at = "insert"
  BY DEF DataInv, AtDesk, Refused, IsAt
<1>2. Op(a) # "scroll"
  BY <1>1 DEF Desk, AtPlace, Op
<1> QED
  BY <1>1, <1>2, TurnedDown DEF Refused, IsAt

(* The rows of an import appear together.                                   *)
LEMMA AtCommit == ASSUME DataInv, NEW a \in Admins, Commit(a) PROVE DataInv'
<1>1. PICK d \in Doings : d = doing[a]
  BY DEF DataInv, DataTyped
<1>2. /\ DataTyped /\ d.at = "commit" /\ UNCHANGED journal /\ holders' = holders \ {a}
      /\ Desk(d) /\ Owed(d, wrote[a], Noted(a)) /\ Importing(a, d, wrote[a], rows)
  BY <1>1 DEF Commit, IsAt, DataInv, AtDesk
<1>3. d.cmd.op \in {"bulk", "import"}
  BY <1>2, CommandShape DEF Desk, AtPlace
<1>4. PICK p \in SUBSET Ids : p = d.pending
  BY DEF Doings
<1>5. rows' = WithNew(a, p) /\ wrote' = [wrote EXCEPT ![a] = @ \cup p]
  BY <1>1, <1>4 DEF Commit
<1>6. PICK status \in {200, 400} : status = (IF d.errors > 0 THEN 400 ELSE 200)
  OBVIOUS
<1>7. PICK e : e = [Answered(a, status) EXCEPT !.pending = {}]
  OBVIOUS
<1>8. e \in Doings
  <2>1. PICK f \in Doings : f = Answered(a, status)
    BY <1>2, AnsweredTyped
  <2>2. [f EXCEPT !.pending = {}] \in Doings
    BY DEF Doings
  <2> QED
    BY <1>7, <2>1, <2>2
<1>9. /\ e.cmd = d.cmd /\ e.at = "done" /\ e.todo = << >> /\ e.pending = {} /\ e.errors = d.errors
      /\ e.status = status
  BY <1>1, <1>7 DEF Answered, Doings
<1>10. Turns(a, e)
  <2>1. doing' = [doing EXCEPT ![a] = e]
    BY <1>1, <1>6, <1>7 DEF Commit
  <2> QED
    BY <1>1, <1>2, <1>8, <1>9, <2>1 DEF Turns, DataTyped
<1>11. /\ wrote' \in [Admins -> SUBSET Ids] /\ wrote'[a] = wrote[a] \cup p
       /\ \A b \in Admins : wrote[b] \subseteq wrote'[b] /\ (b # a => wrote'[b] = wrote[b])
  BY <1>2, <1>5 DEF DataTyped
<1>12. /\ DOMAIN rows' = DOMAIN rows \cup p /\ rows' \in [DOMAIN rows' -> Cells]
       /\ \A i \in p, c \in Columns : rows'[i][c] = a
       /\ \A i \in DOMAIN rows : i \notin p => rows'[i] = rows[i]
  BY <1>2, <1>5 DEF WithNew, DataTyped, Cells
<1>13. holders' \subseteq Admins /\ IsFiniteSet(holders') /\ Cardinality(holders') <= Connections
  BY <1>2, Released DEF DataTyped
<1>14. DataTyped'
  BY <1>2, <1>10, <1>11, <1>12, <1>13 DEF DataTyped, Turns
<1>15. \A b \in Admins : Noted(b)' = Noted(b)
  BY <1>2 DEF Noted
<1>16. MovesFor(a)
  <2>1. \A i \in DOMAIN rows', c \in Columns :
          rows'[i][c] = a \/ (i \in DOMAIN rows /\ rows'[i][c] = rows[i][c])
    BY <1>12
  <2> QED
    BY <1>1, <1>9, <1>10, <1>11, <1>12, <1>15, <2>1 DEF MovesFor, Turns
<1>17. d.cmd.op = "bulk" => p = {} /\ wrote'[a] = wrote[a]
  BY <1>2, <1>4, <1>11 DEF Desk
<1>18. AtDesk(a)'
  <2>1. Desk(e)
    BY <1>2, <1>3, <1>9 DEF Desk, AtPlace, Statements
  <2>2. Owed(e, wrote'[a], Noted(a))
    <3>1. d.errors \in Nat
      BY DEF Doings
    <3> QED
      BY <1>2, <1>3, <1>6, <1>9, <1>17, <3>1 DEF Owed
  <2>3. Worthy(a, e, DOMAIN rows', wrote') /\ Scrolled(e)
    BY <1>3, <1>9 DEF Worthy, Scrolled
  <2>4. Importing(a, e, wrote'[a], rows')
    <3>1. CASE d.cmd.op = "import"
      <4>1. d.errors = 0 /\ status = 200
        BY <1>2, <1>6, <3>1 DEF Desk
      <4>2. wrote'[a] = p /\ Cardinality(p) + Len(<< >>) = Len(d.cmd.ids)
        BY <1>2, <1>4, <1>11, <3>1 DEF Importing
      <4>3. Cardinality(p) \in Nat /\ Len(<< >>) = 0
        <5>1. IsFiniteSet(p)
          BY FiniteIds
        <5>2. << >> \in Seq(Nat)
          OBVIOUS
        <5> QED
          BY <5>1, <5>2, FS_CardinalityType, EmptyList
      <4>4. Cardinality(p) = Len(d.cmd.ids)
        BY <4>2, <4>3
      <4> QED
        BY <1>9, <4>1, <4>2, <4>4 DEF Importing
    <3>2. CASE d.cmd.op # "import"
      BY <1>9, <3>2 DEF Importing
    <3> QED
      BY <3>1, <3>2
  <2> QED
    BY <1>10, <1>15, <2>1, <2>2, <2>3, <2>4 DEF AtDesk, Turns
<1>19. \A b \in Admins : AtDesk(b)'
  BY <1>16, <1>18, OthersStay
<1>20. Truthful'
  BY <1>2, <1>11 DEF DataInv, Truthful
<1>21. EditsHold'
  <2>1. \A b \in Admins : doing'[b].cmd = doing[b].cmd
    BY <1>16 DEF MovesFor
  <2>2. \A i, c : Patches(i, c)' = Patches(i, c)
    BY <2>1 DEF Patches, Op
  <2>3. \A i : Replaced(i) => Replaced(i)'
    BY <1>11, <2>1 DEF Replaced, Op
  <2>4. \A i, c : \A b \in Patches(i, c) : b # a /\ b \in Admins
    BY <1>1, <1>3 DEF Patches, Op
  <2>5. \A i \in p : Replaced(i)'
    BY <1>1, <1>3, <1>11, <2>1 DEF Replaced, Op
  <2> SUFFICES ASSUME NEW i \in DOMAIN rows', NEW c \in Columns,
                      \E b \in Patches(i, c)' : i \in wrote'[b], ~Replaced(i)'
               PROVE  rows'[i][c] \in Patches(i, c)'
    BY DEF EditsHold
  <2>6. i \in DOMAIN rows /\ rows'[i] = rows[i]
    BY <1>12, <2>5
  <2>7. \E b \in Patches(i, c) : i \in wrote[b]
    BY <1>11, <2>2, <2>4
  <2>8. rows[i][c] \in Patches(i, c)
    BY <2>3, <2>6, <2>7 DEF DataInv, EditsHold
  <2> QED
    BY <2>2, <2>6, <2>8
<1> QED
  BY <1>14, <1>19, <1>20, <1>21 DEF DataInv

-----------------------------------------------------------------------------
(* A ceiling.                                                               *)
LEMMA Ceiling ==
  ASSUME NEW c \in Nat, NEW p \in Nat \ {0}, NEW n \in Nat, (c + p - 1) \div p <= n
  PROVE  c <= n * p
<1>1. PICK q \in Int : q = (c + p - 1) \div p
  BY Quotient
<1>2. c + p - 1 < p * q + p /\ q <= n
  BY <1>1, Quotient
<1>3. p * q <= p * n
  BY <1>2
<1>4. PICK m \in Nat : m = n * p
  OBVIOUS
<1>5. p * n = m
  BY <1>4
<1>6. PICK r \in Int : r = p * q
  OBVIOUS
<1> QED
  BY <1>2, <1>3, <1>4, <1>5, <1>6

(* The count of a page, or none when it fails.                              *)
LEMMA AtCount == ASSUME DataInv, NEW a \in Admins, Count(a) \/ (Fault(a) /\ IsAt(a, "count")) PROVE DataInv'
<1>1. PICK d \in Doings : d = doing[a]
  BY DEF DataInv, DataTyped
<1>2. /\ DataTyped /\ d.at = "count" /\ UNCHANGED <<rows, journal, holders, wrote>>
      /\ Desk(d) /\ Owed(d, wrote[a], Noted(a)) /\ Scrolled(d)
  BY <1>1 DEF Count, Fault, IsAt, DataInv, AtDesk
<1>3. d.cmd.op = "scroll"
  BY <1>2, CommandShape DEF Desk, AtPlace
<1>4. PICK there : there = DOMAIN rows
  OBVIOUS
<1>5. there \in SUBSET Ids /\ Cardinality(there) \in Nat
  BY <1>2, <1>4, FiniteIds DEF DataTyped
<1>6. (Cardinality(there) + PageSize - 1) \div PageSize \in Nat
  <2>1. PICK c \in Nat : c = Cardinality(there) + PageSize - 1
    BY <1>5, AdminAssumption
  <2>2. c \div PageSize \in Nat
    BY AdminAssumption, Quotient
  <2> QED
    BY <2>1, <2>2
<1>7. PICK pages \in Nat, errors \in Nat :
        /\ \/ pages = (Cardinality(there) + PageSize - 1) \div PageSize /\ errors = d.errors
           \/ errors = 1
        /\ doing' = [doing EXCEPT ![a] = [d EXCEPT !.at = "fetch", !.sets = Append(d.sets, there),
                                                !.pages = pages, !.errors = errors]]
  <2>1. CASE Count(a)
    <3>1. PICK pages \in Nat, errors \in Nat :
            pages = (Cardinality(there) + PageSize - 1) \div PageSize /\ errors = d.errors
      BY <1>6 DEF Doings
    <3>2. [d EXCEPT !.at = "fetch", !.sets = Append(d.sets, there), !.pages = pages]
            = [d EXCEPT !.at = "fetch", !.sets = Append(d.sets, there), !.pages = pages, !.errors = errors]
      <4>1. d = [d EXCEPT !.errors = errors]
        BY <3>1 DEF Doings
      <4>2. PICK f : f = [d EXCEPT !.errors = errors]
        OBVIOUS
      <4>3. [d EXCEPT !.at = "fetch", !.sets = Append(d.sets, there), !.pages = pages, !.errors = errors]
            = [f EXCEPT !.at = "fetch", !.sets = Append(d.sets, there), !.pages = pages]
        BY <4>2 DEF Doings
      <4> QED
        BY <4>1, <4>2, <4>3
    <3>3. doing' = [doing EXCEPT ![a] = [d EXCEPT !.at = "fetch", !.sets = Append(d.sets, there), !.pages = pages]]
      BY <1>1, <1>2, <1>4, <2>1, <3>1 DEF Count, DataTyped
    <3> QED
      BY <3>1, <3>2, <3>3
  <2>2. CASE Fault(a) /\ IsAt(a, "count")
    <3>1. doing' = [doing EXCEPT ![a] = [d EXCEPT !.at = "fetch", !.sets = Append(d.sets, there),
                                               !.pages = 0, !.errors = 1]]
      BY <1>1, <1>2, <1>4, <2>2 DEF Fault, DataTyped, IsAt
    <3> QED
      BY <3>1
  <2> QED
    BY <2>1, <2>2
<1>8. PICK sets \in Seq(SUBSET Ids) : sets = Append(d.sets, there)
  <2>1. PICK s \in Seq(SUBSET Ids) : s = d.sets
    BY DEF Doings
  <2>2. Append(s, there) \in Seq(SUBSET Ids)
    BY <1>5
  <2> QED
    BY <2>1, <2>2
<1>9. PICK n \in Nat, m \in Nat : n = Len(d.shown) /\ m = Len(d.sets)
  BY DEF Doings
<1>10. Len(sets) = m + 1 /\ sets[m + 1] = there /\ \A k \in 1..m : sets[k] = d.sets[k]
  BY <1>5, <1>8, <1>9 DEF Doings
<1>11. m = 2 * n /\ d.page = n
  BY <1>2, <1>3, <1>9 DEF Scrolled
<1>12. PICK e : e = [d EXCEPT !.at = "fetch", !.sets = sets, !.pages = pages, !.errors = errors]
  OBVIOUS
<1>13. e \in Doings
  <2>1. PICK place \in Places : place = "fetch"
    BY DEF Places
  <2>2. [d EXCEPT !.at = place, !.sets = sets, !.pages = pages, !.errors = errors] \in Doings
    BY DEF Doings
  <2> QED
    BY <1>12, <2>1, <2>2
<1>14. /\ e.cmd = d.cmd /\ e.at = "fetch" /\ e.sets = sets /\ e.pages = pages /\ e.errors = errors
       /\ e.page = d.page /\ e.shown = d.shown /\ e.pending = d.pending
  BY <1>12 DEF Doings
<1>15. Turns(a, e)
  <2>1. doing' = [doing EXCEPT ![a] = e]
    BY <1>7, <1>8, <1>12
  <2> QED
    BY <1>1, <1>2, <1>13, <1>14, <2>1 DEF Turns, DataTyped
<1>16. Desk(e)
  BY <1>2, <1>3, <1>14 DEF Desk, AtPlace, Statements
<1>17. /\ Owed(e, wrote[a], Noted(a)) /\ Worthy(a, e, DOMAIN rows, wrote)
       /\ Importing(a, e, wrote[a], rows)
  BY <1>2, <1>3, <1>14 DEF Owed, Worthy, Importing
<1>18. Scrolled(e)
  <2>1. Len(e.sets) = 2 * Len(e.shown) + 1 /\ e.page = Len(e.shown)
    BY <1>9, <1>10, <1>11, <1>14
  <2>2. ASSUME errors = 0
        PROVE  /\ \A k \in 1..Len(e.shown) : e.shown[k] = PageOf(e.sets[2 * k], k - 1)
               /\ e.pages = (Cardinality(e.sets[Len(e.sets)]) + PageSize - 1) \div PageSize
    <3>1. d.errors = 0 /\ pages = (Cardinality(there) + PageSize - 1) \div PageSize
      BY <1>7, <2>2
    <3>2. \A k \in 1..n : d.shown[k] = PageOf(d.sets[2 * k], k - 1)
      BY <1>2, <1>3, <1>9, <3>1 DEF Scrolled
    <3>3. \A k \in 1..n : 2 * k \in 1..m
      BY <1>11
    <3>4. \A k \in 1..n : sets[2 * k] = d.sets[2 * k]
      BY <1>10, <3>3
    <3>5. e.sets[Len(e.sets)] = there
      BY <1>10, <1>14
    <3> QED
      BY <1>9, <1>14, <3>1, <3>2, <3>4, <3>5
  <2> QED
    BY <1>14, <2>1, <2>2 DEF Scrolled
<1> QED
  BY <1>1, <1>2, <1>13, <1>14, <1>15, <1>16, <1>17, <1>18, QuietStep DEF Turns, DataTyped

(* The rows of a page, or none when it fails.                               *)
LEMMA AtFetch == ASSUME DataInv, NEW a \in Admins, Fetch(a) \/ (Fault(a) /\ IsAt(a, "fetch")) PROVE DataInv'
<1>1. PICK d \in Doings : d = doing[a]
  BY DEF DataInv, DataTyped
<1>2. /\ DataTyped /\ d.at = "fetch" /\ UNCHANGED <<rows, journal, holders, wrote>>
      /\ Desk(d) /\ Owed(d, wrote[a], Noted(a)) /\ Scrolled(d)
  BY <1>1 DEF Fetch, Fault, IsAt, DataInv, AtDesk
<1>3. d.cmd.op = "scroll"
  BY <1>2, CommandShape DEF Desk, AtPlace
<1>4. PICK there \in SUBSET Ids : there = DOMAIN rows
  BY <1>2 DEF DataTyped
<1>5. PICK found \in SUBSET Ids, errors \in Nat :
        /\ errors = 0 => found = PageOf(there, d.page) /\ d.errors = 0
        /\ Shows(a, found, errors)
  <2>1. CASE Fetch(a)
    <3>1. PICK found \in SUBSET Ids : found = PageOf(there, d.page)
      BY DEF PageOf
    <3>3. PICK errors \in Nat : errors = d.errors
      BY DEF Doings
    <3>2. Shows(a, found, errors)
      BY <1>1, <1>4, <2>1, <3>1, <3>3 DEF Fetch
    <3> QED
      BY <3>1, <3>2, <3>3
  <2>2. CASE Fault(a) /\ IsAt(a, "fetch")
    <3>1. Shows(a, {}, 1)
      BY <2>2 DEF Fault, IsAt
    <3> QED
      BY <3>1
  <2> QED
    BY <2>1, <2>2
<1>6. PICK sets \in Seq(SUBSET Ids) : sets = Append(d.sets, there)
  <2>1. PICK s \in Seq(SUBSET Ids) : s = d.sets
    BY DEF Doings
  <2>2. Append(s, there) \in Seq(SUBSET Ids)
    OBVIOUS
  <2> QED
    BY <2>1, <2>2
<1>7. PICK shown \in Seq(SUBSET Ids) : shown = Append(d.shown, found)
  <2>1. PICK s \in Seq(SUBSET Ids) : s = d.shown
    BY DEF Doings
  <2>2. Append(s, found) \in Seq(SUBSET Ids)
    OBVIOUS
  <2> QED
    BY <2>1, <2>2
<1>8. PICK n \in Nat, m \in Nat : n = Len(d.shown) /\ m = Len(d.sets)
  BY DEF Doings
<1>9. Len(sets) = m + 1 /\ sets[m + 1] = there /\ \A k \in 1..m : sets[k] = d.sets[k]
  BY <1>6, <1>8 DEF Doings
<1>10. Len(shown) = n + 1 /\ shown[n + 1] = found /\ \A k \in 1..n : shown[k] = d.shown[k]
  BY <1>7, <1>8 DEF Doings
<1>11. m = 2 * n + 1 /\ d.page = n
  BY <1>2, <1>3, <1>8 DEF Scrolled
<1>12. PICK seen : seen = [d EXCEPT !.shown = shown, !.sets = sets, !.errors = errors]
  OBVIOUS
<1>13. seen \in Doings
  <2>1. [d EXCEPT !.shown = shown, !.sets = sets, !.errors = errors] \in Doings
    BY DEF Doings
  <2> QED
    BY <1>12, <2>1
<1>14. /\ seen.cmd = d.cmd /\ seen.at = d.at /\ seen.sets = sets /\ seen.pages = d.pages
       /\ seen.errors = errors /\ seen.page = d.page /\ seen.shown = shown /\ seen.pending = d.pending
  BY <1>12 DEF Doings
<1>15. PICK e : e = IF Spinner(d.page, d.pages) THEN [seen EXCEPT !.at = "count", !.page = n + 1]
                    ELSE [seen EXCEPT !.at = "done", !.status = 200]
  OBVIOUS
<1>16. e \in Doings
  <2>1. PICK count \in Places, done \in Places, page \in Nat, ok \in {0, 200, 400} :
          count = "count" /\ done = "done" /\ page = n + 1 /\ ok = 200
    BY DEF Places
  <2>2. [seen EXCEPT !.at = count, !.page = page] \in Doings
    BY <1>13 DEF Doings
  <2>3. [seen EXCEPT !.at = done, !.status = ok] \in Doings
    BY <1>13 DEF Doings
  <2> QED
    BY <1>15, <2>1, <2>2, <2>3
<1>17. /\ e.cmd = d.cmd /\ e.sets = sets /\ e.pages = d.pages /\ e.errors = errors
       /\ e.shown = shown /\ e.pending = d.pending
  BY <1>13, <1>14, <1>15 DEF Doings
<1>18. \/ e.at = "count" /\ e.page = n + 1
       \/ e.at = "done" /\ ~Spinner(d.page, d.pages)
  BY <1>13, <1>15 DEF Doings
<1>19. Turns(a, e)
  <2>1. doing' = [doing EXCEPT ![a] =
          IF Spinner(seen.page, seen.pages) THEN [seen EXCEPT !.at = "count", !.page = seen.page + 1]
          ELSE [seen EXCEPT !.at = "done", !.status = 200]]
    BY <1>1, <1>4, <1>5, <1>6, <1>7, <1>12 DEF Shows
  <2>2. doing' = [doing EXCEPT ![a] = e]
    <3>1. [seen EXCEPT !.at = "count", !.page = seen.page + 1] = [seen EXCEPT !.at = "count", !.page = n + 1]
      BY <1>11, <1>13, <1>14 DEF Doings
    <3>2. e = IF Spinner(seen.page, seen.pages) THEN [seen EXCEPT !.at = "count", !.page = seen.page + 1]
              ELSE [seen EXCEPT !.at = "done", !.status = 200]
      BY <1>14, <1>15, <3>1
    <3> QED
      BY <2>1, <3>2
  <2> QED
    BY <1>1, <1>2, <1>16, <1>17, <2>2 DEF Turns, DataTyped
<1>20. Desk(e)
  BY <1>2, <1>3, <1>17, <1>18 DEF Desk, AtPlace, Statements
<1>21. /\ Owed(e, wrote[a], Noted(a)) /\ Worthy(a, e, DOMAIN rows, wrote)
       /\ Importing(a, e, wrote[a], rows)
  BY <1>2, <1>3, <1>17, <1>18 DEF Owed, Worthy, Importing
<1>22. Scrolled(e)
  <2>1. Len(e.sets) = 2 * Len(e.shown) /\ (e.at # "done" => e.page = Len(e.shown)) /\ e.at # "fetch"
    BY <1>9, <1>10, <1>11, <1>17, <1>18
  <2>2. ASSUME errors = 0
        PROVE  \A k \in 1..Len(shown) : shown[k] = PageOf(sets[2 * k], k - 1)
    <3>1. d.errors = 0 /\ found = PageOf(there, d.page)
      BY <1>5, <2>2
    <3>2. \A k \in 1..n : d.shown[k] = PageOf(d.sets[2 * k], k - 1)
      BY <1>2, <1>3, <1>8, <3>1 DEF Scrolled
    <3>3. \A k \in 1..n : 2 * k \in 1..m
      BY <1>11
    <3>4. \A k \in 1..n : shown[k] = PageOf(sets[2 * k], k - 1)
      BY <1>9, <1>10, <3>2, <3>3
    <3>5. shown[n + 1] = PageOf(sets[2 * (n + 1)], n)
      BY <1>9, <1>10, <1>11, <3>1
    <3>6. \A k \in 1..(n + 1) : k \in 1..n \/ (k = n + 1 /\ k - 1 = n)
      OBVIOUS
    <3> QED
      BY <1>10, <3>4, <3>5, <3>6
  <2>3. ASSUME errors = 0, e.at = "done"
        PROVE  shown # << >> /\ Cardinality(sets[2 * Len(shown) - 1]) <= Len(shown) * PageSize
    <3>1. d.pages = (Cardinality(d.sets[m]) + PageSize - 1) \div PageSize
      BY <1>2, <1>3, <1>5, <1>8, <2>3 DEF Scrolled
    <3>2. d.sets[m] \in SUBSET Ids
      <4>1. PICK s \in Seq(SUBSET Ids) : s = d.sets
        BY DEF Doings
      <4>2. m >= 1
        BY <1>11
      <4>4. m = Len(s)
        BY <1>8, <4>1
      <4>3. m \in 1..Len(s)
        BY <4>2, <4>4
      <4> QED
        BY <4>1, <4>3
    <3>3. PICK c \in Nat : c = Cardinality(d.sets[m])
      BY <3>2, FiniteIds
    <3>4. ~(d.page + 1 < d.pages) /\ d.pages \in Nat
      BY <1>18, <2>3 DEF Spinner, Doings
    <3>5. (c + PageSize - 1) \div PageSize <= n + 1
      BY <1>11, <3>1, <3>3, <3>4
    <3>6. c <= (n + 1) * PageSize
      <4>1. n + 1 \in Nat /\ PageSize \in Nat \ {0}
        BY AdminAssumption
      <4> QED
        BY <3>5, <4>1, Ceiling
    <3>7. sets[2 * Len(shown) - 1] = d.sets[m]
      BY <1>9, <1>10, <1>11
    <3>8. shown # << >>
      BY <1>10
    <3> QED
      BY <1>10, <3>3, <3>6, <3>7, <3>8
  <2> QED
    BY <1>17, <2>1, <2>2, <2>3 DEF Scrolled
<1> QED
  BY <1>1, <1>2, <1>16, <1>17, <1>19, <1>20, <1>21, <1>22, QuietStep DEF Turns, DataTyped

(* A statement that fails.                                                  *)
LEMMA AtFault == ASSUME DataInv, NEW a \in Admins, Fault(a) PROVE DataInv'
<1>1. UNCHANGED <<rows, journal, wrote>> /\ DataTyped /\ Desk(doing[a])
  BY DEF Fault, DataInv, AtDesk
<1>2. CASE IsAt(a, "count") \/ IsAt(a, "fetch")
  BY <1>2, AtCount, AtFetch
<1>3. CASE IsAt(a, "begin")
  <2>1. Reply(a, 400) /\ UNCHANGED holders /\ Op(a) # "scroll"
    BY <1>1, <1>3 DEF Fault, IsAt, Desk, AtPlace, Op
  <2> QED
    BY <1>1, <1>3, <2>1, TurnedDown DEF IsAt
<1>4. CASE doing[a].at \in {"insert", "commit"}
  <2>1. RollBack(a) /\ Op(a) # "scroll"
    BY <1>1, <1>4 DEF Fault, IsAt, Desk, AtPlace, Op
  <2> QED
    BY <1>1, <1>4, <2>1, TurnedDown DEF IsAt
<1>5. CASE doing[a].at \in {"find", "delete", "update", "note"}
  <2>1. StatementFailed(a) /\ UNCHANGED holders
    BY <1>5 DEF Fault, IsAt
  <2>2. CASE Op(a) = "patch"
    BY <1>1, <1>5, <2>1, <2>2, TurnedDown DEF StatementFailed, IsAt
  <2>3. CASE Op(a) # "patch"
    <3>1. Op(a) \in {"delete", "bulk"} /\ doing[a].at \in {"find", "delete", "note"}
      BY <1>1, <1>5, <2>3 DEF Desk, AtPlace, Op
    <3> QED
      BY <1>1, <2>1, <2>3, <3>1, ItemOver DEF StatementFailed
  <2> QED
    BY <2>2, <2>3
<1> QED
  BY <1>2, <1>3, <1>4, <1>5 DEF Fault, IsAt

(* Every step of every request.                                             *)
LEMMA DataNext == DataInv /\ [AdminNext]_admin => DataInv'
<1> SUFFICES ASSUME DataInv, [AdminNext]_admin PROVE DataInv'
  OBVIOUS
<1>1. CASE UNCHANGED admin
  <2>1. \A a \in Admins : Noted(a)' = Noted(a)
    BY <1>1 DEF admin, Noted
  <2>2. \A a \in Admins : AtDesk(a)'
    BY <1>1, <2>1 DEF admin, DataInv, AtDesk
  <2>3. DataTyped' /\ Truthful'
    BY <1>1 DEF admin, DataInv, DataTyped, Truthful
  <2>4. EditsHold'
    <3>1. \A i, c : Patches(i, c)' = Patches(i, c)
      BY <1>1 DEF admin, Patches, Op
    <3>2. \A i : Replaced(i)' <=> Replaced(i)
      BY <1>1 DEF admin, Replaced, Op
    <3> QED
      BY <1>1, <3>1, <3>2 DEF admin, DataInv, EditsHold
  <2> QED
    BY <2>2, <2>3, <2>4 DEF DataInv
<1>2. CASE AdminNext
  <2>1. PICK a \in Admins : AdminStep(a)
    BY <1>2 DEF AdminNext
  <2> QED
    BY <2>1, AtStart, AtBegin, AtLook, AtDelete, AtUpdate, AtNote, AtInsert, AtRefused, AtCommit,
       AtCount, AtFetch, AtFault DEF AdminStep
<1> QED
  BY <1>1, <1>2

-----------------------------------------------------------------------------
(* Fewer rows are newer than a row in a smaller table.                      *)
LEMMA RankFalls ==
  ASSUME NEW S \in SUBSET Ids, NEW T \in SUBSET S, NEW id
  PROVE  /\ Cardinality(Newer(T, id)) \in Nat /\ Cardinality(Newer(S, id)) \in Nat
         /\ Cardinality(Newer(T, id)) <= Cardinality(Newer(S, id))
<1>1. Newer(T, id) \subseteq Newer(S, id) /\ Newer(S, id) \in SUBSET Ids
  BY DEF Newer
<1>2. IsFiniteSet(Newer(S, id)) /\ Cardinality(Newer(S, id)) \in Nat
  BY <1>1, FiniteIds
<1>3. IsFiniteSet(Newer(T, id)) /\ Cardinality(Newer(T, id)) <= Cardinality(Newer(S, id))
  BY <1>1, <1>2, FS_Subset
<1> QED
  BY <1>2, <1>3, FS_CardinalityType

(* A row has fewer newer ones than there are rows.                          *)
LEMMA RankBelow ==
  ASSUME NEW S \in SUBSET Ids, NEW id \in S
  PROVE  Cardinality(Newer(S, id)) < Cardinality(S) /\ Cardinality(S) \in Nat
<1>1. Newer(S, id) \in SUBSET S /\ Newer(S, id) # S
  BY DEF Newer, Ids
<1>2. IsFiniteSet(S) /\ Cardinality(S) \in Nat
  BY FiniteIds
<1>3. Cardinality(Newer(S, id)) <= Cardinality(S) /\ Cardinality(Newer(S, id)) # Cardinality(S)
  BY <1>1, <1>2, FS_Subset
<1>4. Cardinality(Newer(S, id)) \in Nat
  BY RankFalls
<1> QED
  BY <1>2, <1>3, <1>4

(* Pages of a table that only shrinks share no row.                         *)
LEMMA PagesApart ==
  ASSUME NEW S \in SUBSET Ids, NEW T \in SUBSET S, NEW k \in Nat, NEW l \in Nat, k < l
  PROVE  PageOf(S, k) \cap PageOf(T, l) = {}
<1> SUFFICES ASSUME NEW id \in PageOf(S, k) \cap PageOf(T, l) PROVE FALSE
  OBVIOUS
<1>1. PICK r \in Nat, q \in Nat : r = Cardinality(Newer(S, id)) /\ q = Cardinality(Newer(T, id)) /\ q <= r
  BY RankFalls
<1>2. r \in (k * PageSize)..((k + 1) * PageSize - 1) /\ q \in (l * PageSize)..((l + 1) * PageSize - 1)
  BY <1>1 DEF PageOf
<1>3. PageSize \in Nat \ {0}
  BY AdminAssumption
<1>4. PICK m \in Nat, n \in Nat : m = (k + 1) * PageSize /\ n = l * PageSize
  BY <1>3
<1>5. m <= n
  BY <1>3, <1>4
<1>6. r <= m - 1 /\ n <= q
  BY <1>2, <1>4
<1> QED
  BY <1>1, <1>5, <1>6

(* A row that is there from the first page on is on one: on the first whose *)
(* end its rank has not passed, as ranks only rise in a table that grows.   *)
LEMMA OnAPage ==
  ASSUME NEW n \in Nat \ {0}, NEW S \in [1..n -> SUBSET Ids], NEW id \in Nat,
         \A k, l \in 1..n : k < l => S[k] \subseteq S[l], \A k \in 1..n : id \in S[k],
         Cardinality(S[n]) <= n * PageSize
  PROVE  \E k \in 1..n : id \in PageOf(S[k], k - 1)
<1> DEFINE rank(k) == Cardinality(Newer(S[k], id))
           B == {k \in 1..n : rank(k) < k * PageSize}
<1>1. PageSize \in Nat \ {0}
  BY AdminAssumption
<1>2. \A k \in 1..n : rank(k) \in Nat
  BY RankFalls
<1>3. n \in B
  <2>1. rank(n) < Cardinality(S[n]) /\ Cardinality(S[n]) \in Nat
    BY RankBelow
  <2>2. PICK m \in Nat : m = n * PageSize
    BY <1>1
  <2> QED
    BY <1>2, <2>1, <2>2
<1>4. B \subseteq Nat /\ B # {}
  BY <1>3
<1> HIDE DEF B
<1>5. PICK k \in B : \A l \in B : ~ (<<l, k>> \in OpToRel(<, Nat))
  BY <1>4, WFMin, NatLessThanWellFounded
<1>6. \A l \in B : ~ (l < k)
  BY <1>4, <1>5 DEF OpToRel
<1>7. k \in 1..n /\ rank(k) < k * PageSize
  BY DEF B
<1>8. (k - 1) * PageSize <= rank(k)
  <2>1. CASE k = 1
    BY <1>1, <1>2, <1>7, <2>1
  <2>2. CASE k # 1
    <3>1. PICK j \in 1..n : j = k - 1
      BY <1>7, <2>2
    <3>2. j < k /\ j \notin B
      BY <1>6, <1>7, <3>1
    <3>3. ~(rank(j) < j * PageSize)
      BY <3>2 DEF B
    <3>4. rank(j) <= rank(k)
      BY <1>7, <3>2, RankFalls
    <3>5. PICK m \in Nat : m = j * PageSize
      BY <1>1
    <3>6. m <= rank(k)
      BY <1>2, <1>7, <3>3, <3>4, <3>5
    <3> QED
      BY <3>1, <3>5, <3>6
  <2> QED
    BY <2>1, <2>2
<1>9. id \in PageOf(S[k], k - 1)
  <2>1. PICK r \in Nat, m \in Nat, p \in Nat : r = rank(k) /\ m = k * PageSize /\ p = (k - 1) * PageSize
    BY <1>1, <1>2, <1>7
  <2>2. r \in p..(m - 1)
    BY <1>7, <1>8, <2>1
  <2>3. (k - 1 + 1) * PageSize = m
    BY <1>7, <2>1
  <2> QED
    BY <1>7, <2>1, <2>2, <2>3 DEF PageOf
<1> QED
  BY <1>7, <1>9

(* What the pages of a scroll add up to.                                    *)
LEMMA ScrollShown == DataInv => ScrollSeesAll
<1> SUFFICES ASSUME DataInv, NEW a \in Admins, Op(a) = "scroll", Done(a), doing[a].errors = 0
             PROVE  /\ (\A i, j \in 1..Len(doing[a].sets) : i < j => doing[a].sets[j] \subseteq doing[a].sets[i])
                         => \A k, l \in 1..Len(doing[a].shown) : k < l => doing[a].shown[k] \cap doing[a].shown[l] = {}
                    /\ (\A i, j \in 1..Len(doing[a].sets) : i < j => doing[a].sets[i] \subseteq doing[a].sets[j])
                         /\ (\A k \in 1..Len(doing[a].shown) : doing[a].sets[2 * k - 1] = doing[a].sets[2 * k])
                         => \A id \in doing[a].sets[1] : \E k \in 1..Len(doing[a].shown) : id \in doing[a].shown[k]
  BY DEF ScrollSeesAll
<1>1. PICK d \in Doings : d = doing[a]
  BY DEF DataInv, DataTyped
<1>2. PICK sets \in Seq(SUBSET Ids), shown \in Seq(SUBSET Ids) : sets = d.sets /\ shown = d.shown
  BY DEF Doings
<1>3. PICK n \in Nat, m \in Nat : n = Len(shown) /\ m = Len(sets)
  BY <1>2
<1>4. /\ m = 2 * n /\ shown # << >> /\ Cardinality(sets[2 * n - 1]) <= n * PageSize
      /\ \A k \in 1..n : shown[k] = PageOf(sets[2 * k], k - 1)
  <2>1. Scrolled(d) /\ d.cmd.op = "scroll" /\ d.at = "done" /\ d.errors = 0
    BY <1>1 DEF DataInv, AtDesk, Op, Done, IsAt
  <2>2. m = 2 * n
    BY <1>2, <1>3, <2>1 DEF Scrolled
  <2>3. shown # << >> /\ Cardinality(sets[2 * n - 1]) <= n * PageSize
    BY <1>2, <1>3, <2>1 DEF Scrolled
  <2>4. \A k \in 1..n : shown[k] = PageOf(sets[2 * k], k - 1)
    BY <1>2, <1>3, <2>1 DEF Scrolled
  <2> QED
    BY <2>2, <2>3, <2>4
<1>5. n # 0
  BY <1>3, <1>4
<1>6. \A i \in 1..m : sets[i] \in SUBSET Ids
  BY <1>3
<1>7. \A k \in 1..n : 2 * k \in 1..m /\ 2 * k - 1 \in 1..m
  BY <1>4
<1>8. ASSUME \A i, j \in 1..m : i < j => sets[j] \subseteq sets[i], NEW k \in 1..n, NEW l \in 1..n, k < l
      PROVE  shown[k] \cap shown[l] = {}
  <2>1. sets[2 * k] \in SUBSET Ids /\ sets[2 * l] \in SUBSET sets[2 * k]
    <3>1. 2 * k < 2 * l
      BY <1>8
    <3> QED
      BY <1>6, <1>7, <1>8, <3>1
  <2>2. k - 1 \in Nat /\ l - 1 \in Nat /\ k - 1 < l - 1
    BY <1>8
  <2>3. PageOf(sets[2 * k], k - 1) \cap PageOf(sets[2 * l], l - 1) = {}
    BY <2>1, <2>2, PagesApart
  <2> QED
    BY <1>4, <2>3
<1>9. ASSUME \A i, j \in 1..m : i < j => sets[i] \subseteq sets[j],
             \A k \in 1..n : sets[2 * k - 1] = sets[2 * k], NEW id \in sets[1]
      PROVE  \E k \in 1..n : id \in shown[k]
  <2>1. PICK S : S = [k \in 1..n |-> sets[2 * k]]
    OBVIOUS
  <2>2. S \in [1..n -> SUBSET Ids]
    BY <1>6, <1>7, <2>1
  <2>3. \A k, l \in 1..n : k < l => 2 * k < 2 * l
    OBVIOUS
  <2>4. \A k, l \in 1..n : k < l => S[k] \subseteq S[l]
    <3> SUFFICES ASSUME NEW k \in 1..n, NEW l \in 1..n, k < l PROVE S[k] \subseteq S[l]
      OBVIOUS
    <3>1. PICK i \in 1..m, j \in 1..m : i = 2 * k /\ j = 2 * l /\ i < j
      BY <1>7, <2>3
    <3>2. sets[i] \subseteq sets[j]
      BY <1>9, <3>1
    <3> QED
      BY <2>1, <3>1, <3>2
  <2>5. \A k \in 1..n : id \in S[k]
    <3>1. \A k \in 1..n : 1 < 2 * k /\ 1 \in 1..m
      BY <1>7
    <3>2. \A k \in 1..n : sets[1] \subseteq sets[2 * k]
      BY <1>7, <1>9, <3>1
    <3> QED
      BY <1>9, <2>1, <3>2
  <2>6. id \in Nat
    BY <1>4, <1>5, <1>6, <1>9 DEF Ids
  <2>7. Cardinality(S[n]) <= n * PageSize
    BY <1>4, <1>5, <1>9, <2>1
  <2>8. PICK k \in 1..n : id \in PageOf(S[k], k - 1)
    BY <1>5, <2>2, <2>4, <2>5, <2>6, <2>7, OnAPage
  <2> QED
    BY <1>4, <2>1, <2>8
<1> QED
  BY <1>1, <1>2, <1>3, <1>8, <1>9

(* Whatever fails and whoever is at the same row: table and journal agree,  *)
(* and no edit undoes that of another cell (update_column_value,            *)
(* delete_by_id).                                                           *)
THEOREM EditsSound ==
  ASSUME NEW present \in SUBSET Ids, NEW commands \in [Admins -> AdminCommands]
  PROVE  AdminSpec(present, commands) => []EditsAreAccounted
<1>1. AdminInit(present, commands) => DataInv
  BY DataInit
<1>2. DataInv /\ [AdminNext]_admin => DataInv'
  BY DataNext
<1>3. DataInv => EditsAreAccounted
  BY DEF DataInv, EditsAreAccounted, Accounted, Truthful, AtDesk, Owed, Done, IsAt, Op
<1> QED
  BY <1>1, <1>2, <1>3, PTL DEF AdminSpec

(* A bulk import is in the table as a whole or not at all, transactions     *)
(* hold no more connections than there are, and infinite scroll shows what  *)
(* it promises (handle_bulk_create, handle_list).                           *)
THEOREM ViewsSound ==
  ASSUME NEW present \in SUBSET Ids, NEW commands \in [Admins -> AdminCommands]
  PROVE  AdminSpec(present, commands) => []ViewsAreWhole
<1>1. AdminInit(present, commands) => DataInv
  BY DataInit
<1>2. DataInv /\ [AdminNext]_admin => DataInv'
  BY DataNext
<1>3. DataInv => ViewsAreWhole
  <2>1. DataInv => AdminTypeOK
    <3> SUFFICES ASSUME DataInv PROVE AdminTypeOK
      OBVIOUS
    <3>1. \A a \in Admins : doing[a] \in Doings
      BY DEF DataInv, DataTyped
    <3>2. \A a \in Admins : doing[a].status \in {0, 200, 400}
      BY <3>1 DEF Doings
    <3> QED
      BY <3>2 DEF DataInv, DataTyped, AdminTypeOK
  <2>2. DataInv => ImportIsAtomic
    BY DEF DataInv, AtDesk, Importing, ImportIsAtomic, Done, IsAt, Op
  <2> QED
    BY <2>1, <2>2, ScrollShown DEF ViewsAreWhole
<1> QED
  BY <1>1, <1>2, <1>3, PTL DEF AdminSpec

-----------------------------------------------------------------------------
(* AdminGrid: the page bar shows the pages around the current one.          *)

(* The members of a concatenation.                                          *)
LEMMA Appended ==
  ASSUME NEW T, NEW s \in Seq(T), NEW t \in Seq(T)
  PROVE  /\ s \o t \in Seq(T) /\ Len(s \o t) = Len(s) + Len(t) /\ Len(s) \in Nat /\ Len(t) \in Nat
         /\ \A i \in 1..Len(s) : (s \o t)[i] = s[i]
         /\ \A i \in 1..Len(t) : (s \o t)[Len(s) + i] = t[i]
<1>1. /\ s \o t \in Seq(T) /\ Len(s \o t) = Len(s) + Len(t)
      /\ \A i \in 1..(Len(s) + Len(t)) : (s \o t)[i] = IF i <= Len(s) THEN s[i] ELSE t[i - Len(s)]
  BY ConcatProperties
<1>2. Len(s) \in Nat /\ Len(t) \in Nat OBVIOUS
<1> DEFINE u == s \o t
           m == Len(s)
           n == Len(t)
<1> HIDE DEF u, m, n
<1>3. m \in Nat /\ n \in Nat /\ \A i \in 1..(m + n) : u[i] = IF i <= m THEN s[i] ELSE t[i - m]
  BY <1>1, <1>2 DEF u, m, n
<1>4. \A i \in 1..m : u[i] = s[i] BY <1>3
<1>5. ASSUME NEW i \in 1..n PROVE u[m + i] = t[i]
  <2>1. m + i \in 1..(m + n) /\ ~ (m + i <= m) /\ (m + i) - m = i BY <1>3
  <2> QED BY <1>3, <2>1
<1> QED BY <1>1, <1>2, <1>4, <1>5 DEF u, m, n

(* The larger of two integers.                                              *)
LEMMA GreatestOfTwo ==
  ASSUME NEW a \in Int, NEW b \in Int
  PROVE  Max({a, b}) = IF a >= b THEN a ELSE b
<1> DEFINE m == IF a >= b THEN a ELSE b
<1>1. m \in {a, b} /\ \A y \in {a, b} : m >= y
  OBVIOUS
<1>2. \A x \in {a, b} : (\A y \in {a, b} : x >= y) => x = m
  OBVIOUS
<1>3. Max({a, b}) \in {a, b} /\ \A y \in {a, b} : Max({a, b}) >= y
  BY <1>1 DEF Max
<1> QED BY <1>2, <1>3

(* The smaller of two integers.                                             *)
LEMMA LeastOfTwo ==
  ASSUME NEW a \in Int, NEW b \in Int
  PROVE  Min({a, b}) = IF a <= b THEN a ELSE b
<1> DEFINE m == IF a <= b THEN a ELSE b
<1>1. m \in {a, b} /\ \A y \in {a, b} : m <= y
  OBVIOUS
<1>2. \A x \in {a, b} : (\A y \in {a, b} : x <= y) => x = m
  OBVIOUS
<1>3. Min({a, b}) \in {a, b} /\ \A y \in {a, b} : Min({a, b}) <= y
  BY <1>1 DEF Min
<1> QED BY <1>2, <1>3

(* A run of the recursion of FlattenSeq over the first n sequences.         *)
FlattenRun(g, ss, n) == g = [i \in 1..n |-> IF i = 1 THEN ss[i] ELSE g[i - 1] \o ss[i]]

(* Such a run exists, as far as one likes.                                  *)
LEMMA RunsOn ==
  ASSUME NEW ss, NEW n \in Nat \ {0}
  PROVE  \E g : FlattenRun(g, ss, n)
<1> DEFINE Wrong == {m \in Nat \ {0} : ~ \E g : FlattenRun(g, ss, m)}
<1>1. CASE n \in Wrong
  <2>1. Wrong \in SUBSET Nat OBVIOUS
  <2> HIDE DEF Wrong
  <2>2. PICK m \in Wrong : \A j \in Wrong : ~ (<<j, m>> \in OpToRel(<, Nat))
    BY <1>1, <2>1, WFMin, NatLessThanWellFounded
  <2>3. \A j \in Wrong : ~(j < m) BY <2>1, <2>2 DEF OpToRel
  <2>4. m \in Nat \ {0} /\ ~ \E g : FlattenRun(g, ss, m) BY DEF Wrong
  <2>5. CASE m = 1
    <3> DEFINE g == [i \in 1..m |-> ss[i]]
    <3>1. \A i \in 1..m : i = 1 BY <2>5
    <3>2. g = [i \in 1..m |-> IF i = 1 THEN ss[i] ELSE g[i - 1] \o ss[i]] BY <3>1
    <3> QED BY <2>4, <3>2 DEF FlattenRun
  <2>6. CASE m # 1
    <3>1. m - 1 \in Nat \ {0} /\ m - 1 < m BY <2>4, <2>6
    <3>2. m - 1 \notin Wrong BY <2>3, <3>1
    <3>3. PICK h : FlattenRun(h, ss, m - 1) BY <3>1, <3>2 DEF Wrong
    <3> DEFINE g == [i \in 1..m |-> IF i = m THEN h[m - 1] \o ss[m] ELSE h[i]]
    <3>4. ASSUME NEW i \in 1..m
          PROVE  g[i] = IF i = 1 THEN ss[i] ELSE g[i - 1] \o ss[i]
      <4>1. CASE i = m
        <5>1. m - 1 \in 1..m /\ m - 1 # m BY <2>4, <3>1
        <5>2. g[m - 1] = h[m - 1] BY <5>1
        <5>3. g[i] = h[m - 1] \o ss[m] BY <4>1
        <5> QED BY <4>1, <5>2, <5>3, <2>6
      <4>2. CASE i # m
        <5>1. i \in 1..(m - 1) BY <2>4, <4>2, <3>1
        <5>2. h[i] = IF i = 1 THEN ss[i] ELSE h[i - 1] \o ss[i] BY <3>3, <5>1 DEF FlattenRun
        <5>3. i # 1 => g[i - 1] = h[i - 1] BY <2>4, <5>1, <3>1
        <5>4. g[i] = h[i] BY <4>2
        <5> QED BY <5>2, <5>3, <5>4
      <4> QED BY <4>1, <4>2
    <3>5. g = [i \in 1..m |-> IF i = 1 THEN ss[i] ELSE g[i - 1] \o ss[i]] BY <3>4
    <3> QED BY <2>4, <3>5 DEF FlattenRun
  <2> QED BY <2>5, <2>6
<1> QED BY <1>1

(* FlattenSeq is the end of its run.                                        *)
LEMMA FlattenRuns ==
  ASSUME NEW ss, Len(ss) \in Nat \ {0}
  PROVE  \E g : FlattenRun(g, ss, Len(ss)) /\ FlattenSeq(ss) = g[Len(ss)]
<1> DEFINE n == Len(ss)
           g == CHOOSE g : g = [i \in 1..n |-> IF i = 1 THEN ss[i] ELSE g[i - 1] \o ss[i]]
<1>1. FlattenSeq(ss) = g[n] BY DEF FlattenSeq
<1>2. PICK h : h = [i \in 1..n |-> IF i = 1 THEN ss[i] ELSE h[i - 1] \o ss[i]] BY RunsOn DEF FlattenRun
<1>3. FlattenRun(g, ss, n) BY <1>2 DEF FlattenRun
<1> QED BY <1>1, <1>3

(* Pages in their order, of which the window w shows the first n.           *)
Increasing(pages) == \A i, j \in DOMAIN pages : i < j => pages[i] < pages[j]
BarShows(w, pages, n) ==
  /\ w \in Seq(Nat) /\ w # << >> /\ w[1] = pages[1] /\ w[Len(w)] = pages[n]
  /\ \A i \in 1..n : pages[i] \in ToSet(w)
  /\ \A i, j \in DOMAIN w : i < j /\ w[i] # Ellipsis /\ w[j] # Ellipsis => w[i] < w[j]
  /\ \A i \in 1..(Len(w) - 1) :
       /\ w[i] < w[Len(w)]
       /\ w[i] = Ellipsis => i > 1 /\ w[i - 1] + 1 < w[i + 1]
       /\ w[i] # Ellipsis /\ w[i + 1] # Ellipsis => w[i + 1] = w[i] + 1

(* One page more, behind an ellipsis if it does not follow.                 *)
LEMMA ShowsNext ==
  ASSUME NEW pages \in Seq(Nat \ {0}), Increasing(pages), NEW n \in 1..(Len(pages) - 1), NEW w, BarShows(w, pages, n),
         NEW more, more = IF pages[n + 1] > pages[n] + 1 THEN <<Ellipsis, pages[n + 1]>> ELSE <<pages[n + 1]>>
  PROVE  BarShows(w \o more, pages, n + 1)
<1> DEFINE p == pages[n + 1]
           k == Len(w)
           v == w \o more
<1>1. /\ Len(pages) \in Nat /\ n \in 1..Len(pages) /\ n + 1 \in 1..Len(pages)
      /\ pages[n] \in Nat \ {0} /\ p \in Nat \ {0} /\ pages[n] < p
  BY DEF Increasing
<1>2. w \in Seq(Nat) /\ k \in Nat \ {0} /\ DOMAIN w = 1..k /\ w[k] = pages[n] /\ w[1] = pages[1]
  BY DEF BarShows
<1>0. \A i \in 1..(k - 1) : w[i] < w[k]
  BY DEF BarShows
<1>7. p = pages[n + 1] /\ Len(w) = k /\ more = IF p > pages[n] + 1 THEN <<Ellipsis, p>> ELSE <<p>>
  OBVIOUS
<1> HIDE DEF p, k
<1>8. \A i \in 1..k : i = k \/ i \in 1..(k - 1)
  BY <1>2
<1>9. \A i \in 1..k : w[i] \in Nat
  BY <1>2
<1>3. \A i \in 1..k : w[i] \in Nat /\ w[i] <= pages[n]
  <2>1. k \in 1..k BY <1>2
  <2>2. w[k] \in Nat BY <2>1, <1>9
  <2>3. SUFFICES ASSUME NEW i \in 1..k PROVE w[i] <= w[k] BY <1>2, <1>9
  <2>4. w[i] \in Nat BY <1>9
  <2>5. CASE i = k BY <2>5, <2>2
  <2>6. CASE i \in 1..(k - 1) BY <2>6, <1>0, <2>2, <2>4
  <2> QED BY <2>5, <2>6, <1>8
<1>6. /\ \A i \in 1..n : \E j \in 1..k : pages[i] = w[j]
      /\ \A i, j \in 1..k : i < j /\ w[i] # 0 /\ w[j] # 0 => w[i] < w[j]
      /\ \A i \in 1..(k - 1) : /\ w[i] = 0 => i > 1 /\ w[i - 1] + 1 < w[i + 1]
                            /\ w[i] # 0 /\ w[i + 1] # 0 => w[i + 1] = w[i] + 1
      /\ \A i \in 1..(k - 1) : w[i] = 0 => i > 1 /\ w[i - 1] + 1 < w[i + 1]
  <2>1. Len(w) = k BY DEF k
  <2> QED BY <1>2, <2>1 DEF BarShows, ToSet, Ellipsis
<1>4. CASE p > pages[n] + 1
  <2>1. more = <<0, p>> BY <1>4, <1>7 DEF Ellipsis
  <2>2. v \in Seq(Nat) /\ Len(v) = k + 2 /\ DOMAIN v = 1..(k + 2) BY <1>1, <1>2, <1>7, <2>1
  <2>3. (\A i \in 1..k : v[i] = w[i]) /\ v[k + 1] = 0 /\ v[k + 2] = p
    <3> DEFINE d == <<0, p>>
    <3>1. d \in Seq(Nat) /\ Len(d) = 2 /\ d[1] = 0 /\ d[2] = p BY <1>1
    <3>2. v = w \o d BY <2>1
    <3> HIDE DEF v, d
    <3>3. \A i \in 1..k : v[i] = w[i] BY <1>2, <1>7, <3>1, <3>2, Appended
    <3>6. w \in Seq(Nat) /\ d \in Seq(Nat) BY <1>2, <3>1
    <3>4. \A i \in 1..Len(d) : (w \o d)[Len(w) + i] = d[i] BY <3>6, Appended
    <3>7. Len(d) = 2 /\ 1 \in 1..2 /\ 2 \in 1..2 BY <3>1
    <3>8. (w \o d)[Len(w) + 1] = d[1] /\ (w \o d)[Len(w) + 2] = d[2] BY <3>4, <3>7, Zenon
    <3>5. v[k + 1] = d[1] /\ v[k + 2] = d[2] BY <1>7, <3>2, <3>8, Zenon
    <3> QED BY <3>1, <3>3, <3>5
  <2> HIDE DEF v
  <2>4. \A i \in 1..(n + 1) : pages[i] \in ToSet(v)
    <3>1. ASSUME NEW i \in 1..n PROVE \E j \in DOMAIN v : pages[i] = v[j]
      <4>1. PICK j \in 1..k : pages[i] = w[j] BY <1>6
      <4>2. j \in DOMAIN v /\ v[j] = w[j] BY <1>2, <2>2, <2>3
      <4> QED BY <4>1, <4>2
    <3>2. k + 2 \in DOMAIN v /\ v[k + 2] = p BY <1>2, <2>2, <2>3
    <3>3. \A i \in 1..(n + 1) : i \in 1..n \/ i = n + 1 BY <1>1
    <3> QED BY <1>7, <3>1, <3>2, <3>3 DEF ToSet
  <2>5. ASSUME NEW i \in DOMAIN v, NEW j \in DOMAIN v, i < j, v[i] # Ellipsis, v[j] # Ellipsis
        PROVE  v[i] < v[j]
    <3>1. i \in 1..k BY <1>2, <2>2, <2>3, <2>5 DEF Ellipsis
    <3>2. CASE j \in 1..k BY <3>1, <3>2, <1>2, <1>6, <2>3, <2>5 DEF Ellipsis
    <3>3. CASE j = k + 2
      <4>1. v[i] = w[i] /\ w[i] \in Nat /\ w[i] <= pages[n] BY <3>1, <1>3, <2>3
      <4> QED BY <4>1, <3>3, <1>1, <2>3
    <3>4. j # k + 1 BY <2>3, <2>5 DEF Ellipsis
    <3>5. \A a \in Nat : k \in Nat /\ a <= k + 2 /\ a # k + 1 => a <= k \/ a = k + 2
      OBVIOUS
    <3>6. j \in 1..k \/ j = k + 2
      <4>1. j \in Nat /\ 1 <= j /\ j <= k + 2 BY <1>2, <2>2
      <4>2. j <= k \/ j = k + 2 BY <1>2, <3>4, <3>5, <4>1
      <4> QED BY <1>2, <4>1, <4>2
    <3> QED BY <3>2, <3>3, <3>6
  <2>6. ASSUME NEW i \in 1..(k + 1)
        PROVE  /\ v[i] < p
               /\ v[i] = Ellipsis => i > 1 /\ v[i - 1] + 1 < v[i + 1]
               /\ v[i] # Ellipsis /\ v[i + 1] # Ellipsis => v[i + 1] = v[i] + 1
    <3>1. CASE i \in 1..(k - 1)
      <4>1. i \in 1..k /\ i + 1 \in 1..k /\ (i > 1 => i - 1 \in 1..k) BY <1>2, <3>1
      <4>2. v[i] = w[i] /\ v[i + 1] = w[i + 1] /\ (i > 1 => v[i - 1] = w[i - 1]) BY <4>1, <2>3
      <4>3. w[i] \in Nat /\ w[i] <= pages[n] BY <4>1, <1>3
      <4>4. v[i] < p BY <4>2, <4>3, <1>1
      <4>5. v[i] = 0 => i > 1 /\ v[i - 1] + 1 < v[i + 1]
        <5>1. w[i] = 0 => i > 1 /\ w[i - 1] + 1 < w[i + 1] BY <3>1, <1>6, Zenon
        <5>2. CASE i > 1 BY <5>1, <5>2, <4>2
        <5> QED BY <5>1, <5>2, <4>2
      <4>6. v[i] # 0 /\ v[i + 1] # 0 => v[i + 1] = v[i] + 1 BY <4>2, <3>1, <1>6
      <4> QED BY <4>4, <4>5, <4>6 DEF Ellipsis
    <3>2. CASE i = k
      <4>1. v[i] = pages[n] /\ v[i + 1] = 0
        <5>1. k \in 1..k BY <1>2
        <5>2. v[k] = w[k] BY <2>3, <5>1
        <5> QED BY <1>2, <2>3, <3>2, <5>2
      <4> QED BY <4>1, <1>1 DEF Ellipsis
    <3>3. CASE i = k + 1
      <4>1. i - 1 = k /\ i + 1 = k + 2 /\ k \in 1..k /\ i > 1 BY <3>3, <1>2
      <4>2. v[i] = 0 /\ v[i + 1] = p BY <2>3, <3>3, <4>1
      <4>3. v[i - 1] = pages[n] BY <1>2, <2>3, <4>1
      <4> QED BY <4>1, <4>2, <4>3, <1>1, <1>4 DEF Ellipsis
    <3> QED BY <1>2, <3>1, <3>2, <3>3
  <2>7. v # << >> /\ v[1] = pages[1] /\ Len(v) - 1 = k + 1 /\ v[Len(v)] = p BY <1>2, <2>2, <2>3
  <2>8. BarShows(v, pages, n + 1) BY <2>2, <2>4, <2>5, <2>6, <2>7 DEF BarShows, p
  <2> QED BY <2>8 DEF v
<1>5. CASE ~ (p > pages[n] + 1)
  <2>1. more = <<p>> /\ p = pages[n] + 1 BY <1>5, <1>1, <1>7
  <2>2. v \in Seq(Nat) /\ Len(v) = k + 1 /\ DOMAIN v = 1..(k + 1) BY <1>1, <1>2, <1>7, <2>1
  <2>3. (\A i \in 1..k : v[i] = w[i]) /\ v[k + 1] = p
    <3> DEFINE d == <<p>>
    <3>1. d \in Seq(Nat) /\ Len(d) = 1 /\ d[1] = p BY <1>1
    <3>2. v = w \o d BY <2>1
    <3> HIDE DEF v, d
    <3>3. \A i \in 1..k : v[i] = w[i] BY <1>2, <1>7, <3>1, <3>2, Appended
    <3>6. w \in Seq(Nat) /\ d \in Seq(Nat) BY <1>2, <3>1
    <3>4. \A i \in 1..Len(d) : (w \o d)[Len(w) + i] = d[i] BY <3>6, Appended
    <3>7. Len(d) = 1 /\ 1 \in 1..1 BY <3>1
    <3>8. (w \o d)[Len(w) + 1] = d[1] BY <3>4, <3>7, Zenon
    <3>5. v[k + 1] = d[1] BY <1>7, <3>2, <3>8, Zenon
    <3> QED BY <3>1, <3>3, <3>5
  <2> HIDE DEF v
  <2>4. \A i \in 1..(n + 1) : pages[i] \in ToSet(v)
    <3>1. ASSUME NEW i \in 1..n PROVE \E j \in DOMAIN v : pages[i] = v[j]
      <4>1. PICK j \in 1..k : pages[i] = w[j] BY <1>6
      <4>2. j \in DOMAIN v /\ v[j] = w[j] BY <1>2, <2>2, <2>3
      <4> QED BY <4>1, <4>2
    <3>2. k + 1 \in DOMAIN v /\ v[k + 1] = p BY <1>2, <2>2, <2>3
    <3>3. \A i \in 1..(n + 1) : i \in 1..n \/ i = n + 1 BY <1>1
    <3> QED BY <1>7, <3>1, <3>2, <3>3 DEF ToSet
  <2>5. ASSUME NEW i \in DOMAIN v, NEW j \in DOMAIN v, i < j, v[i] # Ellipsis, v[j] # Ellipsis
        PROVE  v[i] < v[j]
    <3>1. i \in 1..k BY <1>2, <2>2, <2>5
    <3>2. CASE j \in 1..k BY <3>1, <3>2, <1>2, <1>6, <2>3, <2>5 DEF Ellipsis
    <3>3. CASE j = k + 1 BY <3>1, <3>3, <1>1, <1>3, <2>3 DEF Ellipsis
    <3> QED BY <1>2, <3>2, <3>3, <2>2
  <2>6. ASSUME NEW i \in 1..k
        PROVE  /\ v[i] < p
               /\ v[i] = Ellipsis => i > 1 /\ v[i - 1] + 1 < v[i + 1]
               /\ v[i] # Ellipsis /\ v[i + 1] # Ellipsis => v[i + 1] = v[i] + 1
    <3>1. CASE i \in 1..(k - 1)
      <4>1. i \in 1..k /\ i + 1 \in 1..k /\ (i > 1 => i - 1 \in 1..k) BY <1>2, <3>1
      <4>2. v[i] = w[i] /\ v[i + 1] = w[i + 1] /\ (i > 1 => v[i - 1] = w[i - 1]) BY <4>1, <2>3
      <4>3. w[i] \in Nat /\ w[i] <= pages[n] BY <4>1, <1>3
      <4>4. v[i] < p BY <4>2, <4>3, <1>1
      <4>5. v[i] = 0 => i > 1 /\ v[i - 1] + 1 < v[i + 1]
        <5>1. w[i] = 0 => i > 1 /\ w[i - 1] + 1 < w[i + 1] BY <3>1, <1>6, Zenon
        <5>2. CASE i > 1 BY <5>1, <5>2, <4>2
        <5> QED BY <5>1, <5>2, <4>2
      <4>6. v[i] # 0 /\ v[i + 1] # 0 => v[i + 1] = v[i] + 1 BY <4>2, <3>1, <1>6
      <4> QED BY <4>4, <4>5, <4>6 DEF Ellipsis
    <3>2. CASE i = k BY <3>2, <1>1, <1>2, <1>3, <2>1, <2>3 DEF Ellipsis
    <3> QED BY <1>2, <3>1, <3>2
  <2>7. v # << >> /\ v[1] = pages[1] /\ Len(v) - 1 = k /\ v[Len(v)] = p BY <1>2, <2>2, <2>3
  <2>8. BarShows(v, pages, n + 1) BY <2>2, <2>4, <2>5, <2>6, <2>7 DEF BarShows, p
  <2> QED BY <2>8 DEF v
<1> QED BY <1>4, <1>5

(* With its ellipses, the window shows the pages it was given.              *)
LEMMA GapsShow ==
  ASSUME NEW pages \in Seq(Nat \ {0}), pages # << >>, Increasing(pages)
  PROVE  BarShows(Gaps(pages), pages, Len(pages))
<1> DEFINE ss == [i \in DOMAIN pages |->
                    IF i > 1 /\ pages[i] > pages[i - 1] + 1 THEN <<Ellipsis, pages[i]>> ELSE <<pages[i]>>]
           n == Len(pages)
<1>1. n \in Nat \ {0} /\ DOMAIN pages = 1..n /\ Len(ss) = n
  OBVIOUS
<1>2. PICK g : FlattenRun(g, ss, n) /\ FlattenSeq(ss) = g[n] BY <1>1, FlattenRuns
<1>3. Gaps(pages) = g[n] BY <1>2 DEF Gaps
<1>4. \A i \in 1..n : g[i] = IF i = 1 THEN ss[i] ELSE g[i - 1] \o ss[i]
  BY <1>2 DEF FlattenRun
<1>5. \A i \in 1..n : ss[i] = IF i > 1 /\ pages[i] > pages[i - 1] + 1 THEN <<Ellipsis, pages[i]>> ELSE <<pages[i]>>
  BY <1>1
<1> HIDE DEF ss
<1>6. BarShows(g[1], pages, 1)
  <2>0. 1 \in 1..n /\ ~ (1 > 1) BY <1>1
  <2>1. g[1] = <<pages[1]>>
    <3>1. g[1] = ss[1] BY <1>4, <2>0
    <3>2. ss[1] = <<pages[1]>> BY <1>5, <2>0
    <3> QED BY <3>1, <3>2
  <2>2. pages[1] \in Nat \ {0} BY <1>1
  <2>3. \A i \in 1..1 : i = 1 OBVIOUS
  <2>4. g[1] \in Seq(Nat) /\ Len(g[1]) = 1 /\ DOMAIN g[1] = 1..1 /\ g[1][1] = pages[1] BY <2>1, <2>2
  <2>5. pages[1] \in ToSet(g[1]) BY <2>4 DEF ToSet
  <2>6. \A i, j \in DOMAIN g[1] : ~ (i < j) BY <2>4
  <2>7. Len(g[1]) - 1 = 0 /\ g[1] # << >> BY <2>4
  <2>8. 1..0 = {} OBVIOUS
  <2> QED BY <2>3, <2>4, <2>5, <2>6, <2>7, <2>8 DEF BarShows
<1>7. ASSUME NEW i \in 1..(n - 1), BarShows(g[i], pages, i)
      PROVE  BarShows(g[i + 1], pages, i + 1)
  <2>1. i + 1 \in 1..n /\ i + 1 # 1 /\ i + 1 > 1 /\ (i + 1) - 1 = i BY <1>1
  <2>2. g[i + 1] = g[i] \o ss[i + 1] BY <1>4, <2>1
  <2>3. ss[i + 1] = IF pages[i + 1] > pages[i] + 1 THEN <<Ellipsis, pages[i + 1]>> ELSE <<pages[i + 1]>>
    BY <1>5, <2>1
  <2> HIDE DEF n
  <2>4. i \in 1..(Len(pages) - 1) BY DEF n
  <2> QED BY <1>7, <2>2, <2>3, <2>4, ShowsNext
<1> DEFINE Wrong == {i \in 1..n : ~ BarShows(g[i], pages, i)}
<1>8. CASE Wrong # {}
  <2>1. Wrong \in SUBSET Nat OBVIOUS
  <2>2. PICK i \in Wrong : \A j \in Wrong : ~ (<<j, i>> \in OpToRel(<, Nat))
    BY <1>8, <2>1, WFMin, NatLessThanWellFounded
  <2>3. i \in 1..n /\ ~ BarShows(g[i], pages, i) OBVIOUS
  <2>4. i # 1 BY <1>6, <2>3
  <2>5. i - 1 \in 1..(n - 1) /\ i - 1 \in 1..n /\ i - 1 < i /\ (i - 1) + 1 = i BY <1>1, <2>3, <2>4
  <2>6. i - 1 \notin Wrong BY <2>1, <2>2, <2>5 DEF OpToRel
  <2>7. BarShows(g[i - 1], pages, i - 1) BY <2>5, <2>6
  <2> QED BY <1>7, <2>3, <2>5, <2>7
<1> QED BY <1>1, <1>3, <1>8

(* Pages from some page on to some other.                                   *)
LEMMA ShownInOrder ==
  ASSUME NEW current \in Nat \ {0}, NEW total \in Nat, total > 1
  PROVE  /\ Shown(current, total) \in Seq(Nat \ {0}) /\ Shown(current, total) # << >>
         /\ Increasing(Shown(current, total))
         /\ Shown(current, total)[1] = 1 /\ Shown(current, total)[Len(Shown(current, total))] = total
         /\ \A p \in 1..total : p \in (current - 2)..(current + 2) =>
              \E i \in DOMAIN Shown(current, total) : Shown(current, total)[i] = p
<1> DEFINE from == Max({2, current - 2})
           to == Min({current + 2, total})
           near == IF from > to THEN << >> ELSE [i \in 1..(to - from + 1) |-> from + i - 1]
           first == <<1>> \o near
<1>1. /\ from = (IF 2 >= current - 2 THEN 2 ELSE current - 2)
      /\ to = IF current + 2 <= total THEN current + 2 ELSE total
  BY GreatestOfTwo, LeastOfTwo
<1>2. /\ from \in Nat /\ from >= 2 /\ to \in Nat /\ 2 <= to /\ to <= total
      /\ \A p \in 2..total : p \in (current - 2)..(current + 2) => from <= p /\ p <= to
  <2> HIDE DEF from, to
  <2>1. CASE 2 >= current - 2 BY <1>1, <2>1
  <2>2. CASE ~ (2 >= current - 2) BY <1>1, <2>2
  <2> QED BY <2>1, <2>2
<1>3. near = Neighbours(current, total) BY DEF Neighbours
<1>4. Shown(current, total) = IF first[Len(first)] # total THEN Append(first, total) ELSE first
  BY <1>3 DEF Shown, Last
<1> DEFINE Good(s) == /\ s \in Seq(Nat \ {0}) /\ Len(s) \in Nat \ {0} /\ s[1] = 1
                      /\ \A i, j \in 1..Len(s) : i < j => s[i] < s[j]
                      /\ s[Len(s)] <= total
                      /\ \A p \in 1..total : p \in (current - 2)..(current + 2) => \E i \in 1..Len(s) : s[i] = p
<1>5. Good(first)
  <2> HIDE DEF from, to
  <2>1. CASE from <= to
    <3> DEFINE m == to - from + 1
    <3>1. m \in Nat \ {0} /\ to = from + m - 1 BY <1>2, <2>1
    <3>0. near = [i \in 1..m |-> from + i - 1] BY <1>2, <2>1
    <3> HIDE DEF m, near
    <3>2. near \in Seq(Nat \ {0}) /\ Len(near) = m /\ \A i \in 1..m : near[i] = from + i - 1 BY <1>2, <3>0, <3>1
    <3>3. <<1>> \in Seq(Nat \ {0}) /\ Len(<<1>>) = 1 /\ <<1>>[1] = 1 OBVIOUS
    <3>4. first \in Seq(Nat \ {0}) /\ Len(first) = m + 1
      BY <3>1, <3>2, <3>3, ConcatProperties
    <3>5. \A i \in 1..(1 + m) : first[i] = IF i <= 1 THEN <<1>>[i] ELSE near[i - 1]
      BY <3>1, <3>2, <3>3, ConcatProperties
    <3> HIDE DEF first
    <3>6. first[1] = 1 BY <3>1, <3>3, <3>5
    <3>7. \A i \in 2..(m + 1) : first[i] = from + i - 2
      <4>1. SUFFICES ASSUME NEW i \in 2..(m + 1) PROVE first[i] = from + i - 2 OBVIOUS
      <4>2. i \in 1..(1 + m) /\ ~ (i <= 1) /\ i - 1 \in 1..m BY <3>1
      <4>3. first[i] = from + (i - 1) - 1 BY <3>2, <3>5, <4>2
      <4> QED BY <1>2, <3>1, <4>3
    <3>8. \A i, j \in 1..Len(first) : i < j => first[i] < first[j]
      <4>1. SUFFICES ASSUME NEW i \in 1..(m + 1), NEW j \in 1..(m + 1), i < j PROVE first[i] < first[j] BY <3>4
      <4>2. j \in 2..(m + 1) /\ (i = 1 \/ i \in 2..(m + 1)) BY <3>1, <4>1
      <4> QED BY <1>2, <3>1, <3>6, <3>7, <4>1, <4>2
    <3>9. first[Len(first)] = to
      <4>1. m + 1 \in 2..(m + 1) BY <3>1
      <4> QED BY <1>2, <3>1, <3>4, <3>7, <4>1
    <3>10. ASSUME NEW p \in 1..total, p \in (current - 2)..(current + 2)
           PROVE  \E i \in 1..Len(first) : first[i] = p
      <4>1. CASE p = 1 BY <4>1, <3>1, <3>4, <3>6
      <4>2. CASE p # 1
        <5>1. from <= p /\ p <= to BY <1>2, <3>10, <4>2
        <5>2. p - from + 2 \in 2..(m + 1) BY <1>2, <3>1, <5>1
        <5>3. first[p - from + 2] = p BY <1>2, <3>7, <5>2
        <5>4. p - from + 2 \in 1..Len(first) BY <3>1, <3>4, <5>2
        <5> QED BY <5>3, <5>4
      <4> QED BY <4>1, <4>2
    <3> QED BY <1>2, <3>1, <3>4, <3>6, <3>8, <3>9, <3>10
  <2>2. CASE ~ (from <= to)
    <3>2. near = << >> BY <1>2, <2>2
    <3> HIDE DEF near
    <3>3. first = <<1>> BY <3>2
    <3>4. \A p \in 1..total : p \in (current - 2)..(current + 2) => p = 1 BY <1>2, <2>2
    <3> HIDE DEF first
    <3>5. first \in Seq(Nat \ {0}) /\ Len(first) = 1 /\ first[1] = 1 BY <3>3
    <3>6. \A i, j \in 1..1 : ~ (i < j) OBVIOUS
    <3>7. 1 <= total /\ 1 \in 1..1 OBVIOUS
    <3>8. \A i, j \in 1..Len(first) : i < j => first[i] < first[j] BY <3>5, <3>6
    <3>9. ASSUME NEW p \in 1..total, p \in (current - 2)..(current + 2)
          PROVE  \E i \in 1..Len(first) : first[i] = p
      <4>1. p = 1 BY <3>4, <3>9
      <4> QED BY <3>5, <4>1
    <3>10. first[Len(first)] <= total BY <3>5, <3>7
    <3> QED BY <3>5, <3>8, <3>9, <3>10
  <2> QED BY <2>1, <2>2
<1> HIDE DEF first
<1>6. CASE first[Len(first)] = total
  <2>1. Shown(current, total) = first BY <1>4, <1>6
  <2>2. DOMAIN first = 1..Len(first) /\ first # << >> BY <1>5
  <2> QED BY <1>5, <1>6, <2>1, <2>2 DEF Increasing
<1>7. CASE first[Len(first)] # total
  <2> DEFINE s == Append(first, total)
             k == Len(first)
  <2>1. Shown(current, total) = s BY <1>4, <1>7
  <2>2. k \in Nat \ {0} /\ first \in Seq(Nat \ {0}) /\ total \in Nat \ {0} BY <1>5
  <2>3. s \in Seq(Nat \ {0}) /\ Len(s) = k + 1 /\ DOMAIN s = 1..(k + 1) /\ s[k + 1] = total /\ \A i \in 1..k : s[i] = first[i]
    BY <2>2
  <2>4. \A i \in 1..k : first[i] \in Nat \ {0} /\ first[i] < total
    <3>1. SUFFICES ASSUME NEW i \in 1..k PROVE first[i] \in Nat \ {0} /\ first[i] < total OBVIOUS
    <3>2. first[i] \in Nat \ {0} /\ first[k] \in Nat \ {0} /\ k \in 1..k BY <2>2
    <3>3. first[k] < total BY <1>5, <1>7, <3>2
    <3>4. CASE i = k BY <3>2, <3>3, <3>4
    <3>5. CASE i # k
      <4>1. i < k BY <2>2, <3>5
      <4>2. first[i] < first[k] BY <1>5, <3>2, <4>1
      <4> QED BY <3>2, <3>3, <4>2
    <3> QED BY <3>4, <3>5
  <2> HIDE DEF s, k
  <2>5. ASSUME NEW i \in 1..(k + 1), NEW j \in 1..(k + 1), i < j
        PROVE  s[i] < s[j]
    <3>1. i \in 1..k /\ (j = k + 1 \/ j \in 1..k) BY <2>2, <2>5
    <3>2. CASE j = k + 1 BY <2>3, <2>4, <3>1, <3>2
    <3>3. CASE j \in 1..k
      <4>1. first[i] < first[j] BY <1>5, <2>5, <3>1, <3>3 DEF k
      <4> QED BY <2>3, <3>1, <3>3, <4>1
    <3> QED BY <3>1, <3>2, <3>3
  <2>6. Increasing(s) BY <2>3, <2>5 DEF Increasing
  <2>7. 1 \in 1..k /\ s[1] = 1 /\ s # << >> BY <1>5, <2>2, <2>3
  <2>8. ASSUME NEW p \in 1..total, p \in (current - 2)..(current + 2)
        PROVE  \E i \in DOMAIN s : s[i] = p
    <3>1. PICK i \in 1..k : first[i] = p BY <1>5, <2>8 DEF k
    <3>2. i \in DOMAIN s BY <2>2, <2>3
    <3> QED BY <2>3, <3>1, <3>2
  <2> QED BY <2>1, <2>3, <2>6, <2>7, <2>8
<1> QED BY <1>6, <1>7

Texts == Seq(Nat \X Nat)
Understood(query) ==
  /\ \A c \in DOMAIN query.vals : query.vals[c] \in Texts
  /\ query.q \in Seq(Texts) /\ query.page \in Nat

-----------------------------------------------------------------------------
(* AdminGrid: what a visit keeps of the filters and the keyword.            *)

(* A function on 1..n is a sequence.                                        *)
LEMMA AsSequence ==
  ASSUME NEW T, NEW n \in Nat, NEW s \in [1..n -> T]
  PROVE  s \in Seq(T)
OBVIOUS

(* The fields of a filter.                                                  *)
LEMMA TwoFields ==
  ASSUME NEW o, NEW v, NEW r, r = [op |-> o, value |-> v]
  PROVE  r.op = o /\ r.value = v
OBVIOUS

(* A text of letters is a text, decoded or sent.                            *)
LEMMA Letters ==
  ASSUME NEW text \in Texts
  PROVE  /\ Decode(text) \in Texts /\ DOMAIN Decode(text) = DOMAIN text
         /\ Sent(text) = text
         /\ Decode(text) = NoText => text = NoText
<1>1. \A d \in Nat : Max({0, d - 1}) = IF d = 0 THEN 0 ELSE d - 1
  <2>1. \A d \in Nat : 0 \in Int /\ d - 1 \in Int /\ (0 >= d - 1 <=> d \in {0, 1}) OBVIOUS
  <2> QED BY <2>1, GreatestOfTwo
<1>2. \A i \in DOMAIN text : text[i] \in Nat \X Nat /\ text[i][1] \in Nat /\ text[i][2] \in Nat /\ text[i] = <<text[i][1], text[i][2]>>
  BY DEF Texts
<1>3. Decode(text) = [i \in DOMAIN text |-> <<text[i][1], Max({0, text[i][2] - 1})>>] BY DEF Decode
<1>4. DOMAIN text = 1..Len(text) /\ Len(text) \in Nat BY DEF Texts
<1>5. \A i \in DOMAIN text : <<text[i][1], Max({0, text[i][2] - 1})>> \in Nat \X Nat
  <2>1. SUFFICES ASSUME NEW i \in DOMAIN text PROVE Max({0, text[i][2] - 1}) \in Nat BY <1>2
  <2> DEFINE d == text[i][2]
  <2>2. d \in Nat BY <1>2
  <2> HIDE DEF d
  <2>3. Max({0, d - 1}) \in Nat BY <1>1, <2>2
  <2> QED BY <2>3 DEF d
<1>6. Decode(text) \in Texts
  <2>1. DOMAIN Decode(text) = 1..Len(text) /\ \A i \in 1..Len(text) : Decode(text)[i] \in Nat \X Nat BY <1>3, <1>4, <1>5
  <2>2. Decode(text) = [i \in 1..Len(text) |-> Decode(text)[i]] BY <1>3, <1>4
  <2>3. Decode(text) \in [1..Len(text) -> Nat \X Nat] BY <2>1, <2>2
  <2> QED BY <1>4, <2>3, AsSequence DEF Texts
<1>7. Sent(text) = text
  <2> DEFINE coded == Encode(text)
  <2>1. coded = [i \in DOMAIN text |-> IF text[i][2] = 0 THEN text[i] ELSE <<text[i][1], text[i][2] + 1>>] BY DEF Encode
  <2>2. Sent(text) = [i \in DOMAIN coded |-> <<coded[i][1], Max({0, coded[i][2] - 1})>>] BY DEF Sent, Decode
  <2>3. DOMAIN coded = DOMAIN text BY <2>1
  <2> HIDE DEF coded
  <2>4. ASSUME NEW i \in DOMAIN text
        PROVE  <<coded[i][1], Max({0, coded[i][2] - 1})>> = text[i]
    <3>1. CASE text[i][2] = 0
      <4>1. coded[i] = text[i] BY <2>1, <3>1
      <4>2. Max({0, text[i][2] - 1}) = 0 BY <1>1, <1>2, <3>1
      <4> QED BY <4>1, <4>2, <3>1, <1>2
    <3>2. CASE text[i][2] # 0
      <4>1. coded[i] = <<text[i][1], text[i][2] + 1>> BY <2>1, <3>2
      <4>2. coded[i][1] = text[i][1] /\ coded[i][2] = text[i][2] + 1 BY <4>1
      <4>3. coded[i][2] \in Nat /\ coded[i][2] # 0 /\ coded[i][2] - 1 = text[i][2] BY <1>2, <4>2
      <4>4. Max({0, coded[i][2] - 1}) = text[i][2] BY <1>1, <4>3
      <4> QED BY <4>2, <4>4, <1>2
    <3> QED BY <3>1, <3>2
  <2>5. text = [i \in DOMAIN text |-> text[i]] BY DEF Texts
  <2> QED BY <2>2, <2>3, <2>4, <2>5
<1>8. Decode(text) = NoText => text = NoText
  <2>1. DOMAIN Decode(text) = DOMAIN text BY <1>3
  <2>2. DOMAIN NoText = {} BY DEF NoText
  <2>3. DOMAIN text = {} => text = << >> BY <1>4 DEF Texts
  <2> QED BY <2>1, <2>2, <2>3 DEF NoText
<1> QED BY <1>3, <1>6, <1>7, <1>8

(* Filters that select the same rows: an operator of emptiness has no       *)
(* value.                                                                   *)
SameView(f, g) ==
  /\ DOMAIN f = DOMAIN g
  /\ \A c \in DOMAIN f : f[c].op = g[c].op /\ (f[c].op \notin NullOps => f[c].value = g[c].value)

(* Filters that look alike select the same rows.                            *)
LEMMA SameRows ==
  ASSUME NEW f, NEW g, SameView(f, g), NEW q
  PROVE  Selected(f, q) = Selected(g, q)
<1>1. ASSUME NEW c \in DOMAIN f, NEW cell
      PROVE  Matches(cell, f[c]) = Matches(cell, g[c])
  <2>1. f[c].op = g[c].op /\ (f[c].op \notin {"is_null", "is_not_null"} => f[c].value = g[c].value)
    BY DEF SameView, NullOps
  <2>2. CASE f[c].op = "is_null" BY <2>1, <2>2 DEF Matches
  <2>3. CASE f[c].op = "is_not_null" BY <2>1, <2>3 DEF Matches
  <2>4. CASE f[c].op \notin {"is_null", "is_not_null"} BY <2>1, <2>4 DEF Matches
  <2> QED BY <2>2, <2>3, <2>4
<1>2. DOMAIN f = DOMAIN g BY DEF SameView
<1> QED BY <1>1, <1>2 DEF Selected

(* What a query is understood as has texts of letters, too.                 *)
LEMMA FiltersOf ==
  ASSUME NEW query, Understood(query)
  PROVE  /\ \A c \in DOMAIN Filters(query) :
              /\ Filters(query)[c].value \in Texts
              /\ Filters(query)[c].op # ""
              /\ Filters(query)[c].op \notin NullOps => Filters(query)[c].value # NoText
         /\ Keyword(query) \in Seq(Texts) /\ Len(Keyword(query)) = Len(query.q)
<1> DEFINE Value(c) == IF c \in DOMAIN query.vals THEN Decode(query.vals[c]) ELSE NoText
           chosen == {c \in DOMAIN query.ops : query.ops[c] # "" /\ (Value(c) # NoText \/ query.ops[c] \in NullOps)}
<1>1. Filters(query) = [c \in chosen |-> [op |-> query.ops[c], value |-> Value(c)]] BY DEF Filters
<1>2. \A c : Value(c) \in Texts
  <2>1. NoText \in Texts BY DEF NoText, Texts
  <2> QED BY <2>1, Letters DEF Understood
<1> HIDE DEF Value
<1>3. \A c \in DOMAIN Filters(query) :
        /\ Filters(query)[c].value \in Texts
        /\ Filters(query)[c].op # ""
        /\ Filters(query)[c].op \notin NullOps => Filters(query)[c].value # NoText
  <2>1. DOMAIN Filters(query) = chosen BY <1>1
  <2>2. ASSUME NEW c \in chosen
        PROVE  /\ Filters(query)[c].value \in Texts
               /\ Filters(query)[c].op # ""
               /\ Filters(query)[c].op \notin NullOps => Filters(query)[c].value # NoText
    <3>1. query.ops[c] # "" /\ (query.ops[c] \notin NullOps => Value(c) # NoText) OBVIOUS
    <3> HIDE DEF chosen
    <3>2. Filters(query)[c] = [op |-> query.ops[c], value |-> Value(c)] BY <1>1
    <3>3. Filters(query)[c].op = query.ops[c] /\ Filters(query)[c].value = Value(c) BY <3>2, TwoFields
    <3> QED BY <1>2, <3>1, <3>3
  <2> QED BY <2>1, <2>2
<1>4. Keyword(query) \in Seq(Texts) /\ Len(Keyword(query)) = Len(query.q)
  <2>1. query.q \in Seq(Texts) BY DEF Understood
  <2>2. \A i \in DOMAIN query.q : Decode(query.q[i]) \in Texts BY <2>1, Letters
  <2>3. DOMAIN query.q = 1..Len(query.q) /\ Len(query.q) \in Nat BY <2>1
  <2> QED BY <2>2, <2>3 DEF Keyword
<1> QED BY <1>3, <1>4

(* The next request has the filters and the keyword of this one, decoded    *)
(* once more; the export has them as they are.                              *)
GoesOn(query, next) ==
  /\ Understood(next)
  /\ DOMAIN Filters(next) = DOMAIN Filters(query)
  /\ \A c \in DOMAIN Filters(query) :
       /\ Filters(next)[c].op = Filters(query)[c].op
       /\ Filters(query)[c].op \notin NullOps => Filters(next)[c].value = Decode(Filters(query)[c].value)
  /\ Keyword(next) = [i \in DOMAIN Keyword(query) |-> Decode(Keyword(query)[i])]
  /\ SameView(ExportFilters(next), Filters(query)) /\ next.q = Keyword(query)

(* What a link carries is what the next request understands.                *)
LEMMA CarriedOn ==
  ASSUME NEW query, Understood(query), NEW sort, NEW direction, NEW page \in Nat, NEW partial
  PROVE  GoesOn(query, Carried(query, sort, direction, page, partial))
<1> DEFINE next == Carried(query, sort, direction, page, partial)
<1>0. next = Carried(query, sort, direction, page, partial) OBVIOUS
<1> HIDE DEF next
<1> DEFINE filters == Filters(query)
           q == Keyword(query)
<1>1. /\ \A c \in DOMAIN filters : filters[c].value \in Texts /\ filters[c].op # ""
           /\ (filters[c].op \notin NullOps => filters[c].value # NoText)
      /\ q \in Seq(Texts)
  BY FiltersOf
<1>2. /\ next.ops = [c \in DOMAIN filters |-> filters[c].op]
      /\ next.vals = [c \in Valued(filters) |-> Sent(filters[c].value)]
      /\ next.q = [i \in DOMAIN q |-> Sent(q[i])] /\ next.page = page
  BY <1>0 DEF Carried, Parameters
<1> HIDE DEF filters, q
<1>3. Valued(filters) = {c \in DOMAIN filters : filters[c].op \notin NullOps} BY DEF Valued
<1>4. \A c \in Valued(filters) : next.vals[c] = filters[c].value
  BY <1>1, <1>2, <1>3, Letters
<1>5. next.q = q
  <2>0. DOMAIN q = 1..Len(q) /\ (\A i \in 1..Len(q) : q[i] \in Texts) /\ q = [i \in 1..Len(q) |-> q[i]]
    BY <1>1, LenProperties
  <2>1. \A i \in DOMAIN q : q[i] \in Texts /\ Sent(q[i]) = q[i] BY <2>0, Letters
  <2>2. q = [i \in DOMAIN q |-> q[i]] BY <2>0
  <2> QED BY <1>2, <2>1, <2>2
<1>6. Understood(next) BY <1>1, <1>2, <1>3, <1>4, <1>5 DEF Understood
<1> DEFINE Value(c) == IF c \in DOMAIN next.vals THEN Decode(next.vals[c]) ELSE NoText
           chosen == {c \in DOMAIN next.ops : next.ops[c] # "" /\ (Value(c) # NoText \/ next.ops[c] \in NullOps)}
<1>7. Filters(next) = [c \in chosen |-> [op |-> next.ops[c], value |-> Value(c)]] BY DEF Filters
<1>8. \A c \in DOMAIN filters : filters[c].op \notin NullOps => Value(c) = Decode(filters[c].value)
  BY <1>2, <1>3, <1>4
<1> HIDE DEF Value
<1>9. chosen = DOMAIN filters
  <2>1. chosen \subseteq DOMAIN filters BY <1>2
  <2>2. ASSUME NEW c \in DOMAIN filters PROVE c \in chosen
    <3>1. c \in DOMAIN next.ops /\ next.ops[c] = filters[c].op /\ next.ops[c] # "" BY <1>1, <1>2
    <3>2. CASE filters[c].op \in NullOps BY <3>1, <3>2
    <3>3. CASE filters[c].op \notin NullOps
      <4>1. filters[c].value \in Texts /\ filters[c].value # NoText BY <1>1, <3>3
      <4>2. Decode(filters[c].value) # NoText BY <4>1, Letters
      <4> QED BY <3>1, <4>2, <1>8, <3>3
    <3> QED BY <3>2, <3>3
  <2> QED BY <2>1, <2>2
<1> HIDE DEF chosen
<1>10. DOMAIN Filters(next) = DOMAIN filters
  BY <1>7, <1>9
<1>11. \A c \in DOMAIN filters :
         /\ Filters(next)[c].op = filters[c].op
         /\ filters[c].op \notin NullOps => Filters(next)[c].value = Decode(filters[c].value)
  BY <1>2, <1>7, <1>8, <1>9
<1>12. Keyword(next) = [i \in DOMAIN q |-> Decode(q[i])] BY <1>5 DEF Keyword
<1>13. SameView(ExportFilters(next), filters)
  <2>1. DOMAIN ExportFilters(next) = DOMAIN filters BY <1>2 DEF ExportFilters
  <2>2. \A c \in DOMAIN filters : ExportFilters(next)[c].op = filters[c].op BY <1>2 DEF ExportFilters
  <2>3. \A c \in Valued(filters) : c \in DOMAIN next.vals BY <1>2
  <2>4. \A c \in DOMAIN filters : filters[c].op \notin NullOps => ExportFilters(next)[c].value = filters[c].value
    <3>1. SUFFICES ASSUME NEW c \in DOMAIN filters, filters[c].op \notin NullOps
                   PROVE  ExportFilters(next)[c].value = filters[c].value
      OBVIOUS
    <3>2. c \in Valued(filters) BY <1>3, <3>1
    <3>3. c \in DOMAIN next.vals /\ next.vals[c] = filters[c].value BY <1>4, <2>3, <3>2
    <3>4. c \in DOMAIN next.ops BY <1>2
    <3> QED BY <3>3, <3>4 DEF ExportFilters
  <2> QED BY <2>1, <2>2, <2>4 DEF SameView
<1> QED BY <1>0, <1>5, <1>6, <1>10, <1>11, <1>12, <1>13 DEF filters, q, GoesOn

-----------------------------------------------------------------------------
(* AdminGrid: the explorer reads a query as it was written.                 *)

(* Words with a meaning of their own, names, and queries made of names from *)
(* a vocabulary V.                                                          *)
Keywords == {"select", "from", "join", "on", "where"}
Named(V) == {w \in Seq(V) : Len(w) \in {1, 2} /\ \A k \in Keywords : w # Word(k)}
Tables(V) == {w \in Named(V) : Len(w) = 1}
Joins(V) == [table : Named(V), left : Named(V), right : Named(V)]
Valuings(V) == {s \in Seq(Named(V)) : Len(s) >= 1}
Conditions(V) == [column : Named(V), op : V \ Keywords, value : Valuings(V)]
Meanings(V) == [columns : Seq(Named(V)), from : Tables(V), join : {<< >>} \cup {<<j>> : j \in Joins(V)}, where : Seq(Conditions(V))]
Vocabulary(V) == Keywords \cup {"and", "="} \subseteq V

(* Two names make two words.                                                *)
LEMMA WordsDiffer ==
  ASSUME NEW V, NEW a \in V, NEW b \in V
  PROVE  Word(a) \in Seq(V) /\ Word(a)[1] = a /\ (Word(a) = Word(b) => a = b)
<1>1. \A T : \A x \in T : <<x>> \in Seq(T) /\ <<x>>[1] = x OBVIOUS
<1>2. Word(a)[1] = a /\ Word(b)[1] = b BY <1>1 DEF Word
<1>3. Word(a) \in Seq(V) BY <1>1 DEF Word
<1> QED BY <1>2, <1>3

(* The position of a keyword is the first place it is at.                   *)
LEMMA FirstAt ==
  ASSUME NEW V, NEW words \in Seq(Seq(V)), NEW name, NEW p \in 1..Len(words), words[p] = Word(name),
         \A i \in 1..Len(words) : i < p => words[i] # Word(name)
  PROVE  Position(words, name) = p
<1> DEFINE at == {i \in DOMAIN words : words[i] = Word(name)}
<1>1. p \in at /\ \A i \in at : p <= i
  <2>1. DOMAIN words = 1..Len(words) /\ Len(words) \in Nat OBVIOUS
  <2>2. p \in at BY <2>1
  <2>3. ASSUME NEW i \in at PROVE p <= i
    <3>1. i \in 1..Len(words) /\ words[i] = Word(name) BY <2>1
    <3>2. ~ (i < p) BY <3>1
    <3> QED BY <2>1, <3>1, <3>2
  <2> QED BY <2>2, <2>3
<1>2. at \subseteq Nat
  <2>1. DOMAIN words = 1..Len(words) /\ Len(words) \in Nat OBVIOUS
  <2>2. 1..Len(words) \subseteq Nat OBVIOUS
  <2> QED BY <2>1, <2>2
<1>3. Position(words, name) = IF at = {} THEN 0 ELSE Min(at) BY DEF Position
<1> HIDE DEF at
<1>4. Min(at) = CHOOSE x \in at : \A y \in at : x <= y BY DEF Min
<1>5. \A x \in at : (\A y \in at : x <= y) => x = p BY <1>1, <1>2
<1>6. Min(at) = p BY <1>1, <1>4, <1>5
<1> QED BY <1>1, <1>3, <1>6

(* A keyword that is nowhere has no position.                               *)
LEMMA NowhereAt ==
  ASSUME NEW words, NEW name, \A i \in DOMAIN words : words[i] # Word(name)
  PROVE  Position(words, name) = 0
BY DEF Position

(* What the conditions are written as: the first of them, then those that   *)
(* no one reads.                                                            *)
Piece(w, i) == <<Word(IF i = 1 THEN "where" ELSE "and"), w.column, Word(w.op)>> \o w.value
WhereText(V, text, where) ==
  /\ text \in Seq(Seq(V)) /\ Len(text) >= 4
  /\ text[1] = Word("where") /\ text[2] = where[1].column /\ text[3] = Word(where[1].op) /\ text[4] = where[1].value[1]
  /\ \A i \in 1..Len(text) : \A k \in Keywords \ {"where"} : text[i] # Word(k)

IsPiece(V, text, w, i) ==
  /\ text \in Seq(Seq(V)) /\ Len(text) >= 4
  /\ text[1] = Word(IF i = 1 THEN "where" ELSE "and") /\ text[2] = w.column
  /\ text[3] = Word(w.op) /\ text[4] = w.value[1]
  /\ \A j \in 1..Len(text) : \A k \in Keywords \ {"where"} : text[j] # Word(k)

(* A condition is three words and those of its value, the first of them its *)
(* only keyword.                                                            *)
LEMMA PieceWritten ==
  ASSUME NEW V, Vocabulary(V), NEW w \in Conditions(V), NEW i \in Nat
  PROVE  IsPiece(V, Piece(w, i), w, i)
<1> DEFINE name == IF i = 1 THEN "where" ELSE "and"
           x1 == Word(name)
           x2 == w.column
           x3 == Word(w.op)
           head == <<x1, x2, x3>>
           tail == w.value
<1>0. w.op \in V \ Keywords /\ x2 \in Named(V) /\ tail \in Seq(Named(V)) /\ Len(tail) >= 1 BY DEF Conditions, Valuings
<1>1. name \in V /\ w.op \in V /\ w.op \notin Keywords /\ x2 \in Named(V)
  <2>1. "where" \in V /\ "and" \in V BY DEF Vocabulary, Keywords
  <2> QED BY <1>0, <2>1
<1>2. x1 \in Seq(V) /\ x2 \in Seq(V) /\ x3 \in Seq(V) BY <1>1, WordsDiffer DEF Named
<1>3. name \notin Keywords \ {"where"} BY DEF Keywords
<1>4. \A k \in Keywords : k \in V BY DEF Vocabulary
<1>5. \A k \in Keywords \ {"where"} : x1 # Word(k) /\ x2 # Word(k) /\ x3 # Word(k)
  <2> HIDE DEF name
  <2>1. SUFFICES ASSUME NEW k \in Keywords \ {"where"}
                 PROVE  x1 # Word(k) /\ x2 # Word(k) /\ x3 # Word(k)
    OBVIOUS
  <2>2. x1 # Word(k)
    <3>1. name \in V /\ k \in V /\ name # k BY <1>1, <1>3, <1>4
    <3> QED BY <3>1, WordsDiffer
  <2>3. x3 # Word(k)
    <3>1. w.op \in V /\ k \in V /\ w.op # k BY <1>1, <1>4
    <3> QED BY <3>1, WordsDiffer
  <2>4. x2 # Word(k) BY <1>1 DEF Named
  <2> QED BY <2>2, <2>3, <2>4
<1>6. Piece(w, i) = head \o tail BY DEF Piece
<1>7. \A j \in 1..3 : j = 1 \/ j = 2 \/ j = 3 OBVIOUS
<1>8. /\ tail \in Seq(Seq(V)) /\ Len(tail) \in Nat
      /\ \A j \in 1..Len(tail) : \A k \in Keywords : tail[j] # Word(k)
  <2>1. Named(V) \subseteq Seq(V) BY DEF Named
  <2>2. \A j \in 1..Len(tail) : tail[j] \in Named(V) BY <1>0
  <2> HIDE DEF tail
  <2>3. tail \in Seq(Seq(V)) BY <1>0, <2>1, SeqMonotonic
  <2> QED BY <1>0, <2>2, <2>3 DEF Named
<1> HIDE DEF x1, x2, x3, tail
<1>9. /\ head \in Seq(Seq(V)) /\ Len(head) = 3 /\ head[1] = x1 /\ head[2] = x2 /\ head[3] = x3
  BY <1>2
<1> HIDE DEF head
<1> DEFINE text == head \o tail
<1>10. /\ text \in Seq(Seq(V)) /\ Len(text) = 3 + Len(tail)
       /\ \A j \in 1..3 : text[j] = head[j]
       /\ \A j \in 1..Len(tail) : text[3 + j] = tail[j]
  <2>1. head \in Seq(Seq(V)) /\ tail \in Seq(Seq(V)) /\ Len(head) = 3 BY <1>8, <1>9
  <2>2. /\ text \in Seq(Seq(V)) /\ Len(text) = Len(head) + Len(tail)
        /\ \A j \in 1..Len(head) : text[j] = head[j]
        /\ \A j \in 1..Len(tail) : text[Len(head) + j] = tail[j]
    <3>1. \A T : \A x, y \in Seq(T) :
            /\ x \o y \in Seq(T) /\ Len(x \o y) = Len(x) + Len(y)
            /\ \A j \in 1..Len(x) : (x \o y)[j] = x[j]
            /\ \A j \in 1..Len(y) : (x \o y)[Len(x) + j] = y[j]
      <4>1. SUFFICES ASSUME NEW T, NEW x \in Seq(T), NEW y \in Seq(T)
                     PROVE  /\ x \o y \in Seq(T) /\ Len(x \o y) = Len(x) + Len(y)
                            /\ \A j \in 1..Len(x) : (x \o y)[j] = x[j]
                            /\ \A j \in 1..Len(y) : (x \o y)[Len(x) + j] = y[j]
        OBVIOUS
      <4> QED BY Appended
    <3>2. head \in Seq(Seq(V)) /\ tail \in Seq(Seq(V)) BY <2>1
    <3> DEFINE W == Seq(V)
    <3> HIDE DEF W
    <3>3. head \in Seq(W) /\ tail \in Seq(W) BY <3>2 DEF W
    <3> HIDE DEF text
    <3>4. text = head \o tail BY DEF text
    <3>5. /\ text \in Seq(W) /\ Len(text) = Len(head) + Len(tail)
          /\ \A j \in 1..Len(head) : text[j] = head[j]
          /\ \A j \in 1..Len(tail) : text[Len(head) + j] = tail[j]
      <4>1. /\ head \o tail \in Seq(W) /\ Len(head \o tail) = Len(head) + Len(tail)
            /\ \A j \in 1..Len(head) : (head \o tail)[j] = head[j]
            /\ \A j \in 1..Len(tail) : (head \o tail)[Len(head) + j] = tail[j]
        BY <3>1, <3>3
      <4> QED BY <3>4, <4>1
    <3> QED BY <3>5 DEF W
  <2> HIDE DEF text
  <2> QED BY <2>1, <2>2
<1> HIDE DEF text
<1>11. \A j \in 1..Len(text) : \A k \in Keywords \ {"where"} : text[j] # Word(k)
  <2>1. SUFFICES ASSUME NEW j \in 1..Len(text), NEW k \in Keywords \ {"where"} PROVE text[j] # Word(k)
    OBVIOUS
  <2>2. CASE j \in 1..3 BY <1>5, <1>7, <1>9, <1>10, <2>2
  <2>3. CASE j \notin 1..3
    <3>1. j - 3 \in 1..Len(tail) /\ j = 3 + (j - 3) BY <1>8, <1>10, <2>3
    <3>2. text[j] = tail[j - 3] BY <1>10, <3>1
    <3> QED BY <1>8, <3>1, <3>2
  <2> QED BY <2>2, <2>3
<1>12. Len(text) >= 4 /\ text[1] = x1 /\ text[2] = x2 /\ text[3] = x3 /\ text[4] = w.value[1]
  <2>1. 1 \in 1..3 /\ 2 \in 1..3 /\ 3 \in 1..3 /\ 1 \in 1..Len(tail) /\ 3 + 1 = 4 /\ Len(tail) >= 1
    BY <1>0, <1>8 DEF tail
  <2>2. text[3 + 1] = tail[1] BY <1>10, <2>1
  <2>3. Len(text) >= 4 BY <1>8, <1>10, <2>1
  <2> QED BY <1>9, <1>10, <2>1, <2>2, <2>3 DEF tail
<1> QED BY <1>6, <1>10, <1>11, <1>12 DEF x1, x2, x3, text, IsPiece

(* Conditions are written with one where, at their head.                    *)
LEMMA WhereWritten ==
  ASSUME NEW V, Vocabulary(V), NEW where \in Seq(Conditions(V)), where # << >>
  PROVE  WhereText(V, FlattenSeq([i \in DOMAIN where |-> Piece(where[i], i)]), where)
<1> DEFINE ss == [i \in DOMAIN where |-> Piece(where[i], i)]
           n == Len(where)
<1>1. n \in Nat \ {0} /\ DOMAIN where = 1..n /\ Len(ss) = n OBVIOUS
<1>2. PICK g : FlattenRun(g, ss, n) /\ FlattenSeq(ss) = g[n] BY <1>1, FlattenRuns
<1>3. \A i \in 1..n : g[i] = IF i = 1 THEN ss[i] ELSE g[i - 1] \o ss[i] BY <1>2 DEF FlattenRun
<1>4. \A i \in 1..n : ss[i] = Piece(where[i], i) /\ where[i] \in Conditions(V) BY <1>1
<1> HIDE DEF ss, n
<1>5. WhereText(V, g[1], where)
  <2>1. 1 \in 1..n BY <1>1
  <2>2. g[1] = Piece(where[1], 1) /\ where[1] \in Conditions(V) BY <1>3, <1>4, <2>1
  <2> DEFINE a == Piece(where[1], 1)
  <2>3. /\ a \in Seq(Seq(V)) /\ Len(a) >= 4 /\ a[1] = Word("where") /\ a[2] = where[1].column
        /\ a[3] = Word(where[1].op) /\ a[4] = where[1].value[1]
        /\ \A j \in 1..Len(a) : \A k \in Keywords \ {"where"} : a[j] # Word(k)
    <3>1. IsPiece(V, a, where[1], 1) BY <2>2, PieceWritten
    <3> QED BY <3>1 DEF IsPiece
  <2> HIDE DEF a
  <2>4. WhereText(V, a, where) BY <2>3 DEF WhereText
  <2> QED BY <2>2, <2>4 DEF a
<1>6. ASSUME NEW i \in 1..(n - 1), WhereText(V, g[i], where)
      PROVE  WhereText(V, g[i + 1], where)
  <2> DEFINE a == g[i]
             b == Piece(where[i + 1], i + 1)
             m == Len(b)
  <2>1. i + 1 \in 1..n /\ i + 1 # 1 /\ (i + 1) - 1 = i BY <1>1
  <2>2. g[i + 1] = a \o b BY <1>3, <1>4, <2>1
  <2>3. /\ b \in Seq(Seq(V)) /\ Len(b) = m /\ m \in Nat
        /\ \A j \in 1..m : \A k \in Keywords \ {"where"} : b[j] # Word(k)
    <3>1. where[i + 1] \in Conditions(V) /\ i + 1 \in Nat BY <1>4, <2>1
    <3>2. IsPiece(V, b, where[i + 1], i + 1) BY <3>1, PieceWritten
    <3> QED BY <3>2 DEF IsPiece
  <2>4. /\ a \in Seq(Seq(V)) /\ Len(a) >= 4 /\ a[1] = Word("where") /\ a[2] = where[1].column
        /\ a[3] = Word(where[1].op) /\ a[4] = where[1].value[1]
        /\ \A j \in 1..Len(a) : \A k \in Keywords \ {"where"} : a[j] # Word(k)
    BY <1>6 DEF WhereText
  <2> HIDE DEF a, b, m
  <2>5. a \o b \in Seq(Seq(V)) /\ Len(a \o b) = Len(a) + m
        /\ \A j \in 1..(Len(a) + m) : (a \o b)[j] = IF j <= Len(a) THEN a[j] ELSE b[j - Len(a)]
    <3>1. \A l \in 1..(Len(a) + Len(b)) : (a \o b)[l] = IF l <= Len(a) THEN a[l] ELSE b[l - Len(a)]
      BY <2>3, <2>4, ConcatProperties
    <3>2. a \o b \in Seq(Seq(V)) /\ Len(a \o b) = Len(a) + Len(b) BY <2>3, <2>4, ConcatProperties
    <3> QED BY <2>3, <3>1, <3>2
  <2>6. Len(a) \in Nat BY <2>4
  <2>7. ASSUME NEW j \in 1..(Len(a) + m), NEW k \in Keywords \ {"where"} PROVE (a \o b)[j] # Word(k)
    <3>1. CASE j <= Len(a)
      <4>1. j \in 1..Len(a) BY <2>6, <3>1
      <4> QED BY <2>4, <2>5, <3>1, <4>1
    <3>2. CASE ~ (j <= Len(a))
      <4>1. j - Len(a) \in 1..m BY <2>3, <2>6, <3>2
      <4> QED BY <2>3, <2>5, <3>2, <4>1
    <3> QED BY <3>1, <3>2
  <2>8. \A j \in 1..4 : (a \o b)[j] = a[j]
    <3>1. \A j \in 1..4 : j \in 1..(Len(a) + m) /\ j <= Len(a)
      <4>1. Len(a) >= 4 /\ m \in Nat BY <2>3, <2>4
      <4> QED BY <2>6, <4>1
    <3> QED BY <2>5, <3>1
  <2>9. 1 \in 1..4 /\ 2 \in 1..4 /\ 3 \in 1..4 /\ 4 \in 1..4 OBVIOUS
  <2>10. Len(a \o b) >= 4 BY <2>3, <2>4, <2>5, <2>6
  <2>11. WhereText(V, a \o b, where) BY <2>4, <2>5, <2>7, <2>8, <2>9, <2>10 DEF WhereText
  <2> QED BY <2>2, <2>11
<1> DEFINE Wrong == {i \in 1..n : ~ WhereText(V, g[i], where)}
<1>7. CASE Wrong # {}
  <2>1. Wrong \in SUBSET Nat OBVIOUS
  <2>2. PICK i \in Wrong : \A j \in Wrong : ~ (<<j, i>> \in OpToRel(<, Nat))
    BY <1>7, <2>1, WFMin, NatLessThanWellFounded
  <2>3. i \in 1..n /\ ~ WhereText(V, g[i], where) OBVIOUS
  <2>4. i # 1 BY <1>5, <2>3
  <2>5. i - 1 \in 1..(n - 1) /\ i - 1 \in 1..n /\ i - 1 < i /\ (i - 1) + 1 = i BY <1>1, <2>3, <2>4
  <2>6. i - 1 \notin Wrong BY <2>1, <2>2, <2>5 DEF OpToRel
  <2>7. WhereText(V, g[i - 1], where) BY <2>5, <2>6
  <2> QED BY <1>6, <2>3, <2>5, <2>7
<1> QED BY <1>1, <1>2, <1>7 DEF ss

(* The join as it is written: six words, or none.                           *)
JoinText(join) ==
  FlattenSeq([i \in DOMAIN join |->
    <<Word("join"), join[i].table, Word("on"), join[i].left, Word("="), join[i].right>>])

(* A join is six words.                                                     *)
LEMMA JoinWritten ==
  ASSUME NEW V, Vocabulary(V), NEW j \in Joins(V)
  PROVE  JoinText(<<j>>) = <<Word("join"), j.table, Word("on"), j.left, Word("="), j.right>>
<1> DEFINE join == <<j>>
           text(k) == <<Word("join"), k.table, Word("on"), k.left, Word("="), k.right>>
           ss == [i \in DOMAIN join |-> <<Word("join"), join[i].table, Word("on"), join[i].left, Word("="), join[i].right>>]
<1>1. DOMAIN join = 1..1 /\ join[1] = j /\ Len(ss) = 1 OBVIOUS
<1>2. ss[1] = text(j) BY <1>1
<1> HIDE DEF ss, text, join
<1>6. Len(ss) \in Nat \ {0} BY <1>1
<1>7. \E g : FlattenRun(g, ss, Len(ss)) /\ FlattenSeq(ss) = g[Len(ss)] BY <1>6, FlattenRuns
<1>3. PICK g : FlattenRun(g, ss, Len(ss)) /\ FlattenSeq(ss) = g[Len(ss)] BY <1>7
<1>4. FlattenSeq(ss) = g[1] /\ g[1] = ss[1] BY <1>1, <1>3 DEF FlattenRun
<1>5. JoinText(join) = FlattenSeq(ss) BY DEF JoinText, ss
<1> QED BY <1>2, <1>4, <1>5 DEF text, join

(* No join and no condition leave nothing.                                  *)
LEMMA NothingWritten ==
  /\ JoinText(<< >>) = << >>
  /\ FlattenSeq([i \in DOMAIN << >> |-> Piece(<< >>[i], i)]) = << >>
<1>1. \A s : DOMAIN s = {} /\ Len(s) = 0 => FlattenSeq(s) = s BY DEF FlattenSeq
<1> DEFINE a == [i \in DOMAIN << >> |-> <<Word("join"), << >>[i].table, Word("on"), << >>[i].left, Word("="), << >>[i].right>>]
           b == [i \in DOMAIN << >> |-> Piece(<< >>[i], i)]
<1>2. a = << >> /\ b = << >> OBVIOUS
<1>3. JoinText(<< >>) = FlattenSeq(a) BY DEF JoinText
<1> HIDE DEF a, b
<1>4. FlattenSeq(<< >>) = << >> BY <1>1
<1>5. FlattenSeq(b) = << >> BY <1>2, <1>4
<1> QED BY <1>2, <1>3, <1>4, <1>5 DEF b

(* A query as it is written: what precedes the join, the join, the rest.    *)
Opening(meant) == <<Word("select")>> \o meant.columns \o <<Word("from"), meant.from>>
Rest(meant) == FlattenSeq([i \in DOMAIN meant.where |-> Piece(meant.where[i], i)])

IsFront(V, front, meant, c) ==
  /\ c \in Nat /\ front \in Seq(Seq(V)) /\ Len(front) = c + 3
  /\ front[1] = Word("select") /\ front[c + 2] = Word("from") /\ front[c + 3] = meant.from
  /\ \A i \in 1..c : front[i + 1] = meant.columns[i]
  /\ \A i \in 1..(c + 3) : \A k \in {"join", "on", "where"} : front[i] # Word(k)
  /\ \A i \in 1..(c + 1) : front[i] # Word("from")

(* What precedes the join has one select, one from and no other keyword.    *)
LEMMA FrontWritten ==
  ASSUME NEW V, Vocabulary(V), NEW meant \in Meanings(V)
  PROVE  IsFront(V, Opening(meant), meant, Len(meant.columns))
<1> DEFINE front == Opening(meant)
           c == Len(meant.columns)
<1>0. front = Opening(meant) /\ c = Len(meant.columns) OBVIOUS
<1> HIDE DEF front, c
<1> DEFINE s == <<Word("select")>>
           columns == meant.columns
           t == <<Word("from"), meant.from>>
<1>1. columns \in Seq(Named(V)) /\ meant.from \in Named(V) /\ c = Len(columns) BY <1>0 DEF Meanings, Tables
<1>2. \A k \in Keywords : k \in V /\ Word(k) \in Seq(V) BY WordsDiffer DEF Vocabulary
<1>3. \A w \in Named(V) : w \in Seq(V) /\ \A k \in Keywords : w # Word(k) BY DEF Named
<1>4. c \in Nat /\ columns \in Seq(Seq(V)) /\ \A i \in 1..c : columns[i] \in Named(V)
  BY <1>1, <1>3, SeqMonotonic
<1>5. "select" \in Keywords /\ "from" \in Keywords /\ "join" \in Keywords /\ "on" \in Keywords /\ "where" \in Keywords BY DEF Keywords
<1>6. /\ s \in Seq(Seq(V)) /\ Len(s) = 1 /\ s[1] = Word("select")
      /\ t \in Seq(Seq(V)) /\ Len(t) = 2 /\ t[1] = Word("from") /\ t[2] = meant.from
  <2>1. Word("select") \in Seq(V) /\ Word("from") \in Seq(V) /\ meant.from \in Seq(V) BY <1>1, <1>2, <1>3, <1>5
  <2>2. \A T : \A x, y \in T : <<x>> \in Seq(T) /\ Len(<<x>>) = 1 /\ <<x>>[1] = x
                               /\ <<x, y>> \in Seq(T) /\ Len(<<x, y>>) = 2 /\ <<x, y>>[1] = x /\ <<x, y>>[2] = y
    OBVIOUS
  <2> QED BY <2>1, <2>2
<1>7. front = (s \o columns) \o t BY <1>0 DEF Opening
<1> HIDE DEF s, columns, t
<1> DEFINE a == s \o columns
<1>8. /\ a \in Seq(Seq(V)) /\ Len(a) = c + 1 /\ a[1] = Word("select")
      /\ \A i \in 1..c : a[1 + i] = columns[i]
  <2>1. /\ a \in Seq(Seq(V)) /\ Len(a) = Len(s) + Len(columns)
        /\ \A i \in 1..Len(s) : a[i] = s[i]
        /\ \A i \in 1..Len(columns) : a[Len(s) + i] = columns[i]
    <3>1. s \in Seq(Seq(V)) /\ columns \in Seq(Seq(V)) BY <1>4, <1>6
    <3> QED BY <3>1, Appended
  <2>2. 1 \in 1..Len(s) BY <1>6
  <2> QED BY <1>1, <1>4, <1>6, <2>1, <2>2
<1> HIDE DEF a
<1>9. /\ front \in Seq(Seq(V)) /\ Len(front) = c + 3
      /\ \A i \in 1..(c + 1) : front[i] = a[i]
      /\ \A i \in 1..2 : front[(c + 1) + i] = t[i]
  <2>1. /\ a \o t \in Seq(Seq(V)) /\ Len(a \o t) = Len(a) + Len(t)
        /\ \A i \in 1..Len(a) : (a \o t)[i] = a[i]
        /\ \A i \in 1..Len(t) : (a \o t)[Len(a) + i] = t[i]
    <3>1. a \in Seq(Seq(V)) /\ t \in Seq(Seq(V)) BY <1>6, <1>8
    <3> QED BY <3>1, Appended
  <2>2. front = a \o t BY <1>7 DEF a
  <2>3. Len(a) = c + 1 /\ Len(t) = 2 /\ (c + 1) + 2 = c + 3 BY <1>4, <1>6, <1>8
  <2> QED BY <2>1, <2>2, <2>3
<1>10. front[1] = Word("select") /\ front[c + 2] = Word("from") /\ front[c + 3] = meant.from
  <2>1. 1 \in 1..(c + 1) /\ 1 \in 1..2 /\ 2 \in 1..2 /\ (c + 1) + 1 = c + 2 /\ (c + 1) + 2 = c + 3 BY <1>4
  <2>2. front[1] = a[1] BY <1>9, <2>1
  <2>3. front[(c + 1) + 1] = t[1] /\ front[(c + 1) + 2] = t[2] BY <1>9, <2>1
  <2> QED BY <1>6, <1>8, <2>1, <2>2, <2>3
<1>11. \A i \in 1..c : front[i + 1] = columns[i]
  <2>1. SUFFICES ASSUME NEW i \in 1..c PROVE front[i + 1] = columns[i] OBVIOUS
  <2>2. i + 1 \in 1..(c + 1) /\ i + 1 = 1 + i BY <1>4
  <2>3. front[i + 1] = a[i + 1] BY <1>9, <2>2
  <2> QED BY <1>8, <2>2, <2>3
<1>12. \A i \in 1..(c + 3) : i = 1 \/ (i - 1 \in 1..c /\ i = (i - 1) + 1) \/ i = c + 2 \/ i = c + 3
  BY <1>4
<1>13. Word("select") # Word("from") /\ \A k \in {"join", "on", "where"} : k \in Keywords /\ Word("select") # Word(k) /\ Word("from") # Word(k)
  <2>1. \A k, l \in Keywords : Word(k) = Word(l) => k = l BY <1>2, WordsDiffer
  <2>2. {"join", "on", "where"} \subseteq Keywords BY <1>5
  <2> QED BY <1>5, <2>1, <2>2
<1>14. ASSUME NEW i \in 1..(c + 3), NEW k \in {"join", "on", "where"} PROVE front[i] # Word(k)
  <2>0. k \in Keywords BY <1>13
  <2>1. CASE i = 1 BY <2>1, <1>10, <1>13
  <2>2. CASE i - 1 \in 1..c /\ i = (i - 1) + 1
    <3>1. front[i] = columns[i - 1] BY <2>2, <1>11
    <3>2. columns[i - 1] \in Named(V) BY <2>2, <1>4
    <3> QED BY <3>1, <3>2, <1>3, <2>0
  <2>3. CASE i = c + 2 BY <2>3, <1>10, <1>13
  <2>4. CASE i = c + 3 BY <2>4, <1>10, <1>1, <1>3, <2>0
  <2> QED BY <1>12, <2>1, <2>2, <2>3, <2>4
<1>15. ASSUME NEW i \in 1..(c + 1) PROVE front[i] # Word("from")
  <2>1. CASE i = 1 BY <2>1, <1>10, <1>13
  <2>2. CASE i # 1
    <3>0. i - 1 \in 1..c /\ i = (i - 1) + 1 BY <1>4, <2>2
    <3>1. front[i] = columns[i - 1] BY <3>0, <1>11
    <3>2. columns[i - 1] \in Named(V) BY <3>0, <1>4
    <3> QED BY <3>1, <3>2, <1>3, <1>5
  <2> QED BY <2>1, <2>2
<1>16. IsFront(V, front, meant, c) BY <1>4, <1>9, <1>10, <1>11, <1>14, <1>15 DEF columns, IsFront
<1> QED BY <1>0, <1>16

(* The six words of a join, none of them where.                             *)
LEMMA JoinIsText ==
  ASSUME NEW V, Vocabulary(V), NEW j \in Joins(V), NEW text, text = JoinText(<<j>>)
  PROVE  /\ text \in Seq(Seq(V)) /\ Len(text) = 6
         /\ text[1] = Word("join") /\ text[2] = j.table /\ text[3] = Word("on") /\ text[4] = j.left
         /\ text[5] = Word("=") /\ text[6] = j.right
         /\ \A i \in 1..6 : text[i] # Word("where")
         /\ text[1] # Word("on") /\ text[2] # Word("on")
<1> DEFINE x1 == Word("join")
           x2 == j.table
           x3 == Word("on")
           x4 == j.left
           x5 == Word("=")
           x6 == j.right
<1>1. text = <<x1, x2, x3, x4, x5, x6>> BY JoinWritten
<1>2. x2 \in Named(V) /\ x4 \in Named(V) /\ x6 \in Named(V) BY DEF Joins
<1>3. "join" \in V /\ "on" \in V /\ "where" \in V /\ "=" \in V /\ "where" \in Keywords /\ "on" \in Keywords BY DEF Vocabulary, Keywords
<1>4. /\ x1 \in Seq(V) /\ x2 \in Seq(V) /\ x3 \in Seq(V) /\ x4 \in Seq(V) /\ x5 \in Seq(V) /\ x6 \in Seq(V)
  BY <1>2, <1>3, WordsDiffer DEF Named
<1>5. x1 # Word("where") /\ x3 # Word("where") /\ x5 # Word("where") /\ x1 # Word("on")
  <2>1. "join" # "where" /\ "on" # "where" /\ "=" # "where" /\ "join" # "on" OBVIOUS
  <2>2. \A a, b \in V : Word(a) = Word(b) => a = b BY WordsDiffer
  <2> QED BY <1>3, <2>1, <2>2
<1>6. x2 # Word("where") /\ x4 # Word("where") /\ x6 # Word("where") /\ x2 # Word("on")
  BY <1>2, <1>3 DEF Named
<1> HIDE DEF x1, x2, x3, x4, x5, x6
<1>7. text \in Seq(Seq(V)) /\ Len(text) = 6
  <2>1. \A T : \A y1, y2, y3, y4, y5, y6 \in T :
          <<y1, y2, y3, y4, y5, y6>> \in Seq(T) /\ Len(<<y1, y2, y3, y4, y5, y6>>) = 6
    OBVIOUS
  <2>2. <<x1, x2, x3, x4, x5, x6>> \in Seq(Seq(V)) /\ Len(<<x1, x2, x3, x4, x5, x6>>) = 6 BY <1>4, <2>1, Zenon
  <2> QED BY <1>1, <2>2
<1>8. text[1] = x1 /\ text[2] = x2 /\ text[3] = x3 /\ text[4] = x4 /\ text[5] = x5 /\ text[6] = x6 BY <1>1
<1>9. \A i \in 1..6 : i = 1 \/ i = 2 \/ i = 3 \/ i = 4 \/ i = 5 \/ i = 6 OBVIOUS
<1>10. \A i \in 1..6 : text[i] # Word("where") BY <1>5, <1>6, <1>8, <1>9
<1> QED BY <1>5, <1>6, <1>7, <1>8, <1>10 DEF x1, x2, x3, x4, x5, x6

(* Three texts one after the other.                                         *)
LEMMA ThreeTexts ==
  ASSUME NEW T, NEW x \in Seq(T), NEW y \in Seq(T), NEW z \in Seq(T), NEW a, NEW b, NEW d, a = Len(x), b = Len(y), d = Len(z),
         NEW u, u = (x \o y) \o z
  PROVE  /\ u \in Seq(T) /\ a \in Nat /\ b \in Nat /\ d \in Nat /\ Len(u) = a + b + d
         /\ \A i \in 1..a : u[i] = x[i]
         /\ \A i \in 1..b : u[a + i] = y[i]
         /\ \A i \in 1..d : u[a + b + i] = z[i]
<1> DEFINE v == x \o y
<1>1. /\ v \in Seq(T) /\ Len(v) = a + b /\ a \in Nat /\ b \in Nat
      /\ (\A i \in 1..a : v[i] = x[i]) /\ \A i \in 1..b : v[a + i] = y[i]
  BY Appended
<1>2. u = v \o z OBVIOUS
<1> HIDE DEF v
<1>3. /\ u \in Seq(T) /\ Len(u) = Len(v) + d /\ d \in Nat
      /\ (\A i \in 1..Len(v) : u[i] = v[i]) /\ \A i \in 1..d : u[Len(v) + i] = z[i]
  <2>1. v \in Seq(T) BY <1>1
  <2> QED BY <1>2, <2>1, Appended
<1>4. ASSUME NEW i \in 1..a PROVE u[i] = x[i]
  <2>1. i \in 1..(a + b) BY <1>1
  <2> QED BY <1>1, <1>3, <2>1
<1>5. ASSUME NEW i \in 1..b PROVE u[a + i] = y[i]
  <2>1. a + i \in 1..(a + b) BY <1>1
  <2> QED BY <1>1, <1>3, <2>1
<1>6. \A i \in 1..d : u[a + b + i] = z[i] BY <1>1, <1>3
<1> QED BY <1>1, <1>3, <1>4, <1>5, <1>6

(* What a query that has been written is read as.                           *)
AsRead(meant) ==
  [kind |-> "query", columns |-> meant.columns, from |-> meant.from, join |-> meant.join,
   where |-> IF meant.where = << >> THEN << >> ELSE <<[meant.where[1] EXCEPT !.value = @[1]]>>]

(* The parser reads what was written, of the conditions the first and of    *)
(* its value the first word, unless a side of on has no table.              *)
LEMMA ReadAsMeant ==
  ASSUME NEW V, Vocabulary(V), NEW meant \in Meanings(V)
  PROVE  /\ Spelled(meant) # << >>
         /\ Parse(Spelled(meant)) = IF Dotless(meant.join) THEN Broken ELSE AsRead(meant)
<1> DEFINE front == Opening(meant)
           join == JoinText(meant.join)
           rest == Rest(meant)
           words == Spelled(meant)
           c == Len(meant.columns)
           a == c + 3
           b == Len(join)
           d == Len(rest)
<1>0. /\ front = Opening(meant) /\ join = JoinText(meant.join) /\ rest = Rest(meant) /\ c = Len(meant.columns)
      /\ a = c + 3 /\ b = Len(join) /\ d = Len(rest) /\ words = Spelled(meant)
  OBVIOUS
<1>1. words = (front \o join) \o rest
  <2>1. Rest(meant) = FlattenSeq([i \in DOMAIN meant.where |->
          <<Word(IF i = 1 THEN "where" ELSE "and"), meant.where[i].column, Word(meant.where[i].op)>> \o meant.where[i].value])
    BY DEF Rest, Piece
  <2> QED BY <2>1 DEF Spelled, Opening, JoinText
<1> HIDE DEF front, join, rest, words, c, a, b, d
<1>2. /\ c \in Nat /\ front \in Seq(Seq(V)) /\ Len(front) = a
      /\ front[1] = Word("select") /\ front[c + 2] = Word("from") /\ front[c + 3] = meant.from
      /\ \A i \in 1..c : front[i + 1] = meant.columns[i]
      /\ \A i \in 1..(c + 3) : \A k \in {"join", "on", "where"} : front[i] # Word(k)
      /\ \A i \in 1..(c + 1) : front[i] # Word("from")
  <2>1. /\ c \in Nat /\ front \in Seq(Seq(V)) /\ Len(front) = c + 3
        /\ front[1] = Word("select") /\ front[c + 2] = Word("from") /\ front[c + 3] = meant.from
        /\ \A i \in 1..c : front[i + 1] = meant.columns[i]
        /\ \A i \in 1..(c + 3) : \A k \in {"join", "on", "where"} : front[i] # Word(k)
        /\ \A i \in 1..(c + 1) : front[i] # Word("from")
    <3>1. IsFront(V, front, meant, c) BY <1>0, FrontWritten
    <3> QED BY <3>1 DEF IsFront
  <2> QED BY <1>0, <2>1
<1>3. /\ meant.columns \in Seq(Named(V)) /\ meant.where \in Seq(Conditions(V))
      /\ meant.join = << >> \/ \E j \in Joins(V) : meant.join = <<j>>
  BY DEF Meanings
<1>4. \/ meant.join = << >> /\ join = << >> /\ b = 0
      \/ /\ meant.join = <<meant.join[1]>> /\ meant.join[1] \in Joins(V) /\ b = 6
         /\ join[1] = Word("join") /\ join[2] = meant.join[1].table /\ join[3] = Word("on") /\ join[4] = meant.join[1].left
         /\ join[6] = meant.join[1].right
         /\ \A i \in 1..6 : join[i] # Word("where")
         /\ join[1] # Word("on") /\ join[2] # Word("on")
  <2>1. CASE meant.join = << >> BY <1>0, <2>1, NothingWritten
  <2>2. ASSUME NEW j \in Joins(V), meant.join = <<j>>
        PROVE  /\ meant.join = <<meant.join[1]>> /\ meant.join[1] \in Joins(V) /\ b = 6
               /\ join[1] = Word("join") /\ join[2] = meant.join[1].table /\ join[3] = Word("on") /\ join[4] = meant.join[1].left
               /\ join[6] = meant.join[1].right
               /\ \A i \in 1..6 : join[i] # Word("where")
               /\ join[1] # Word("on") /\ join[2] # Word("on")
    <3>1. meant.join[1] = j BY <2>2
    <3>2. join = JoinText(<<j>>) BY <1>0, <2>2
    <3>3. /\ Len(join) = 6
          /\ join[1] = Word("join") /\ join[2] = j.table /\ join[3] = Word("on") /\ join[4] = j.left
          /\ join[6] = j.right
          /\ \A i \in 1..6 : join[i] # Word("where")
          /\ join[1] # Word("on") /\ join[2] # Word("on")
      BY <3>2, JoinIsText
    <3> QED BY <1>0, <2>2, <3>1, <3>3
  <2> QED BY <1>3, <2>1, <2>2
<1>5. join \in Seq(Seq(V))
  <2>1. CASE meant.join = << >>
    <3>1. join = << >> BY <1>0, <2>1, NothingWritten
    <3> QED BY <3>1
  <2>2. ASSUME NEW j \in Joins(V), meant.join = <<j>> PROVE join \in Seq(Seq(V))
    <3>1. join = JoinText(<<j>>) BY <1>0, <2>2
    <3> QED BY <3>1, JoinIsText
  <2> QED BY <1>3, <2>1, <2>2
<1>6. \/ meant.where = << >> /\ rest = << >> /\ d = 0
      \/ meant.where # << >> /\ WhereText(V, rest, meant.where)
  <2>1. CASE meant.where = << >> BY <1>0, <2>1, NothingWritten DEF Rest
  <2>2. CASE meant.where # << >> BY <1>0, <1>3, <2>2, WhereWritten DEF Rest
  <2> QED BY <2>1, <2>2
<1>7. rest \in Seq(Seq(V))
  <2>1. CASE meant.where = << >> BY <1>6, <2>1
  <2>2. CASE meant.where # << >> BY <1>6, <2>2 DEF WhereText
  <2> QED BY <2>1, <2>2
<1>8. /\ words \in Seq(Seq(V)) /\ b \in Nat /\ d \in Nat /\ Len(words) = a + b + d
      /\ \A i \in 1..a : words[i] = front[i]
      /\ \A i \in 1..b : words[a + i] = join[i]
      /\ \A i \in 1..d : words[a + b + i] = rest[i]
  <2>1. a = Len(front) /\ b = Len(join) /\ d = Len(rest) /\ front \in Seq(Seq(V)) BY <1>0, <1>2
  <2> QED BY <1>1, <1>5, <1>7, <2>1, ThreeTexts
<1>23. words \in Seq(Seq(V)) /\ a \in Nat /\ b \in Nat /\ d \in Nat /\ Len(words) = a + b + d
  BY <1>0, <1>2, <1>8
<1>9. \A i \in 1..d : \A k \in Keywords \ {"where"} : rest[i] # Word(k) BY <1>0, <1>6, <1>8 DEF WhereText
<1>10. a = c + 3 /\ Len(front) = a /\ a \in Nat BY <1>0, <1>2
<1>11. \A k \in Keywords : k \in V BY DEF Vocabulary
<1>12. "select" \in Keywords /\ "from" \in Keywords /\ "join" \in Keywords /\ "on" \in Keywords /\ "where" \in Keywords
  BY DEF Keywords
<1>13. \A i \in DOMAIN words : i \in 1..a \/ (i - a \in 1..b /\ i = a + (i - a)) \/ (i - (a + b) \in 1..d /\ i = a + b + (i - (a + b)))
  <2>1. DOMAIN words = 1..(a + b + d) BY <1>8
  <2>2. SUFFICES ASSUME NEW i \in 1..(a + b + d)
                 PROVE  i \in 1..a \/ (i - a \in 1..b /\ i = a + (i - a)) \/ (i - (a + b) \in 1..d /\ i = a + b + (i - (a + b)))
    BY <2>1
  <2>3. a \in Nat /\ b \in Nat /\ d \in Nat BY <1>8, <1>10
  <2> QED BY <2>3
<1>14. Position(words, "select") = 1
  <2>1. 1 \in 1..Len(words) /\ 1 \in 1..a BY <1>2, <1>8, <1>10
  <2>2. words[1] = Word("select") BY <1>2, <1>8, <2>1
  <2>3. \A i \in 1..Len(words) : ~ (i < 1) BY <1>8, <1>10
  <2> QED BY <1>23, <2>1, <2>2, <2>3, FirstAt
<1>15. Position(words, "from") = c + 2
  <2>1. c + 2 \in 1..Len(words) /\ c + 2 \in 1..a /\ (c + 2) - 1 = c + 1 BY <1>2, <1>8, <1>10
  <2>2. words[c + 2] = Word("from") BY <1>2, <1>8, <2>1
  <2>3. \A i \in 1..Len(words) : i < c + 2 => i \in 1..(c + 1) /\ i \in 1..a BY <1>2, <1>8, <1>10
  <2>4. \A i \in 1..Len(words) : i < c + 2 => words[i] # Word("from") BY <1>2, <1>8, <2>3
  <2> QED BY <1>23, <2>1, <2>2, <2>4, FirstAt
<1>16. ASSUME meant.join = << >>
       PROVE  Position(words, "join") = 0 /\ Position(words, "on") = 0
  <2>1. b = 0 /\ 1..b = {}
    <3>1. b = 0 BY <1>4, <1>16
    <3> QED BY <3>1
  <2>2. ASSUME NEW k \in {"join", "on"}, NEW i \in DOMAIN words PROVE words[i] # Word(k)
    <3>1. k \in {"join", "on", "where"} /\ k \in Keywords \ {"where"} BY <1>12
    <3>2. CASE i \in 1..a BY <1>2, <1>8, <1>10, <3>1, <3>2
    <3>3. CASE i - (a + b) \in 1..d /\ i = a + b + (i - (a + b))
      <4>1. words[i] = rest[i - (a + b)] BY <1>8, <3>3
      <4> QED BY <1>9, <3>1, <3>3, <4>1
    <3> QED BY <1>13, <2>1, <3>2, <3>3
  <2> QED BY <2>2, NowhereAt
<1>17. ASSUME meant.join # << >>
       PROVE  Position(words, "join") = a + 1 /\ Position(words, "on") = a + 3
  <2>1. /\ b = 6 /\ join[1] = Word("join") /\ join[3] = Word("on")
        /\ join[1] # Word("on") /\ join[2] # Word("on")
    BY <1>4, <1>17
  <2>2. a + 1 \in 1..Len(words) /\ a + 3 \in 1..Len(words) /\ 1 \in 1..b /\ 2 \in 1..b /\ 3 \in 1..b
    <3>1. a \in Nat /\ d \in Nat /\ b = 6 /\ Len(words) = a + 6 + d BY <1>8, <1>10, <2>1
    <3> QED BY <3>1
  <2>3. words[a + 1] = Word("join") /\ words[a + 3] = Word("on") /\ words[a + 1] # Word("on") /\ words[a + 2] # Word("on")
    BY <1>8, <2>1, <2>2
  <2>4. \A i \in 1..a : words[i] # Word("join") /\ words[i] # Word("on") BY <1>2, <1>8, <1>10
  <2>5. \A i \in 1..Len(words) : (i < a + 1 => i \in 1..a) /\ (i < a + 3 => i \in 1..a \/ i = a + 1 \/ i = a + 2)
    <3>1. SUFFICES ASSUME NEW i \in 1..Len(words)
                   PROVE  (i < a + 1 => i \in 1..a) /\ (i < a + 3 => i \in 1..a \/ i = a + 1 \/ i = a + 2)
      OBVIOUS
    <3>2. i \in Nat /\ i >= 1 BY <1>23
    <3>3. i <= a => i \in 1..a BY <1>23, <3>2
    <3>4. (i < a + 1 => i <= a) /\ (i < a + 3 => i <= a \/ i = a + 1 \/ i = a + 2) BY <1>23, <3>2
    <3> QED BY <3>3, <3>4
  <2>6. /\ \A i \in 1..Len(words) : i < a + 1 => words[i] # Word("join")
        /\ \A i \in 1..Len(words) : i < a + 3 => words[i] # Word("on")
    BY <2>3, <2>4, <2>5
  <2>7. Position(words, "join") = a + 1 BY <1>23, <2>2, <2>3, <2>6, FirstAt
  <2>8. Position(words, "on") = a + 3 BY <1>23, <2>2, <2>3, <2>6, FirstAt
  <2> QED BY <2>7, <2>8
<1>18. \A i \in 1..(a + b) : words[i] # Word("where")
  <2>1. SUFFICES ASSUME NEW i \in 1..(a + b) PROVE words[i] # Word("where") OBVIOUS
  <2>2. CASE i \in 1..a BY <1>2, <1>8, <1>10, <2>2
  <2>3. CASE ~ (i \in 1..a)
    <3>1. i - a \in 1..b /\ i = a + (i - a) BY <1>8, <1>10, <2>3
    <3>2. words[i] = join[i - a] BY <1>8, <3>1
    <3>3. b # 0 BY <1>8, <3>1
    <3>4. b = 6 /\ \A l \in 1..6 : join[l] # Word("where") BY <1>4, <3>3
    <3> QED BY <3>1, <3>2, <3>4
  <2> QED BY <2>2, <2>3
<1>19. ASSUME meant.where = << >>
       PROVE  Position(words, "where") = 0
  <2>1. d = 0 BY <1>6, <1>19
  <2>2. DOMAIN words = 1..(a + b) BY <1>8, <1>10, <2>1
  <2> QED BY <1>18, <2>2, NowhereAt
<1>20. ASSUME meant.where # << >>
       PROVE  /\ Position(words, "where") = a + b + 1 /\ a + b + 4 <= Len(words)
              /\ words[a + b + 2] = meant.where[1].column /\ words[a + b + 3] = Word(meant.where[1].op)
              /\ words[a + b + 4] = meant.where[1].value[1]
  <2>1. /\ Len(rest) >= 4 /\ rest[1] = Word("where") /\ rest[2] = meant.where[1].column
        /\ rest[3] = Word(meant.where[1].op) /\ rest[4] = meant.where[1].value[1]
    BY <1>6, <1>20 DEF WhereText
  <2>2. Len(rest) = d BY <1>0
  <2>3. 1 \in 1..d /\ 2 \in 1..d /\ 3 \in 1..d /\ 4 \in 1..d BY <1>8, <2>1, <2>2
  <2>4. /\ words[a + b + 1] = Word("where") /\ words[a + b + 2] = meant.where[1].column
        /\ words[a + b + 3] = Word(meant.where[1].op) /\ words[a + b + 4] = meant.where[1].value[1]
    BY <1>8, <2>1, <2>3
  <2>5. /\ a + b + 1 \in 1..Len(words) /\ a + b + 4 <= Len(words)
        /\ \A i \in 1..Len(words) : i < a + b + 1 => i \in 1..(a + b)
    <3>1. a \in Nat /\ b \in Nat /\ d \in Nat /\ d >= 4 /\ Len(words) = a + b + d BY <1>8, <1>10, <2>1, <2>2
    <3> QED BY <3>1
  <2>6. \A i \in 1..Len(words) : i < a + b + 1 => words[i] # Word("where") BY <1>18, <2>5
  <2> DEFINE p == a + b + 1
  <2>8. p \in 1..Len(words) /\ words[p] = Word("where") /\ \A i \in 1..Len(words) : i < p => words[i] # Word("where")
    BY <2>4, <2>5, <2>6
  <2> HIDE DEF p
  <2>9. Position(words, "where") = p BY <1>23, <2>8, FirstAt
  <2>7. Position(words, "where") = a + b + 1 BY <2>9 DEF p
  <2> QED BY <2>4, <2>5, <2>7
<1>21. SubSeq(words, 1 + 1, (c + 2) - 1) = meant.columns
  <2>1. \A i \in 2..(c + 1) : words[i] \in Seq(V)
    <3>1. \A i \in 2..(c + 1) : i \in 1..Len(words) BY <1>2, <1>8, <1>10
    <3> QED BY <1>8, <3>1
  <2>2. 1 + 1 = 2 /\ (c + 2) - 1 = c + 1 /\ c \in Nat BY <1>2
  <2>3. /\ SubSeq(words, 2, c + 1) \in Seq(Seq(V))
        /\ Len(SubSeq(words, 2, c + 1)) = IF 2 <= c + 1 THEN (c + 1) - 2 + 1 ELSE 0
        /\ \A i \in 1..((c + 1) - 2 + 1) : SubSeq(words, 2, c + 1)[i] = words[2 + i - 1]
    BY <2>1, <2>2, SubSeqProperties
  <2> DEFINE part == SubSeq(words, 2, c + 1)
  <2>4. part \in Seq(Seq(V)) /\ Len(part) = c /\ \A i \in 1..c : part[i] = words[i + 1]
    <3>1. (c + 1) - 2 + 1 = c /\ (\A i \in 1..c : 2 + i - 1 = i + 1) /\ (IF 2 <= c + 1 THEN c ELSE 0) = c BY <2>2
    <3> QED BY <2>3, <3>1
  <2> HIDE DEF part
  <2>5. \A i \in 1..c : part[i] = meant.columns[i]
    <3>1. SUFFICES ASSUME NEW i \in 1..c PROVE part[i] = meant.columns[i] OBVIOUS
    <3>2. i + 1 \in 1..a BY <1>2, <1>10
    <3> QED BY <1>2, <1>8, <2>4, <3>2
  <2>6. meant.columns \in Seq(Seq(V))
    <3>1. Named(V) \subseteq Seq(V) BY DEF Named
    <3> QED BY <1>3, <3>1, SeqMonotonic
  <2>7. Len(meant.columns) = c BY <1>0
  <2>8. part = meant.columns BY <2>4, <2>5, <2>6, <2>7, SeqEqual
  <2> QED BY <2>2, <2>8 DEF part
<1>22. words[(c + 2) + 1] = meant.from
  <2>1. (c + 2) + 1 = c + 3 /\ c + 3 \in 1..a BY <1>2, <1>10
  <2> QED BY <1>2, <1>8, <2>1
<1> DEFINE select == Position(words, "select")
           from == Position(words, "from")
           joins == Position(words, "join")
           where == Position(words, "where")
           on == Position(words, "on")
           joined == joins # 0 /\ on # 0
           dotless == Len(words[on + 1]) = 1 \/ Len(words[on + 3]) = 1
           short == \/ from + 1 > Len(words)
                    \/ joined /\ (joins + 1 > Len(words) \/ on + 3 > Len(words))
                    \/ joined /\ dotless
                    \/ where # 0 /\ where + 3 > Len(words)
<1>24. Parse(words) =
         IF select = 0 \/ from = 0 THEN [kind |-> "error"]
         ELSE IF short THEN Broken
         ELSE [kind |-> "query", columns |-> SubSeq(words, select + 1, from - 1), from |-> words[from + 1],
               join |-> IF joined THEN << [table |-> words[joins + 1], left |-> words[on + 1], right |-> words[on + 3]] >> ELSE << >>,
               where |-> IF where # 0 THEN <<Clause(words, where)>> ELSE << >>]
  BY DEF Parse
<1>25. select = 1 /\ from = c + 2 /\ from # 0 /\ from + 1 <= Len(words) BY <1>2, <1>14, <1>15, <1>23, <1>10
<1> HIDE DEF select, from, joins, where, on
<1>26. /\ joined => on \in Nat /\ on + 3 <= Len(words) /\ joins \in Nat /\ joins + 1 <= Len(words)
       /\ joined /\ dotless <=> Dotless(meant.join)
       /\ (IF joined THEN << [table |-> words[joins + 1], left |-> words[on + 1], right |-> words[on + 3]] >> ELSE << >>) = meant.join
  <2>1. CASE meant.join = << >>
    <3>1. ~ joined BY <1>16, <2>1 DEF joins
    <3>2. ~ Dotless(meant.join) BY <2>1 DEF Dotless
    <3> QED BY <2>1, <3>1, <3>2
  <2>2. CASE meant.join # << >>
    <3>1. joins = a + 1 /\ on = a + 3 BY <1>17, <2>2 DEF joins, on
    <3>2. /\ meant.join = <<meant.join[1]>> /\ meant.join[1] \in Joins(V) /\ b = 6
          /\ join[2] = meant.join[1].table /\ join[4] = meant.join[1].left /\ join[6] = meant.join[1].right
      BY <1>4, <2>2
    <3>3. 2 \in 1..b /\ 4 \in 1..b /\ 6 \in 1..b BY <3>2
    <3>4. words[a + 2] = join[2] /\ words[a + 4] = join[4] /\ words[a + 6] = join[6] BY <1>8, <3>3
    <3>5. joined /\ on \in Nat /\ joins + 1 = a + 2 /\ on + 1 = a + 4 /\ on + 3 = a + 6 /\ a + 6 <= Len(words) BY <1>23, <3>1, <3>2
    <3>8. joins \in Nat /\ joins + 1 <= Len(words) BY <1>23, <3>1, <3>2
    <3> DEFINE j == meant.join[1]
    <3>6. j = [table |-> j.table, left |-> j.left, right |-> j.right] BY <3>2 DEF Joins
    <3>7. dotless <=> Dotless(meant.join)
      <4>1. DOMAIN meant.join = {1} BY <3>2
      <4>2. Dotless(meant.join) <=> Len(j.left) = 1 \/ Len(j.right) = 1 BY <4>1 DEF Dotless
      <4> QED BY <3>2, <3>4, <3>5, <4>2
    <3> QED BY <3>2, <3>4, <3>5, <3>6, <3>7, <3>8
  <2> QED BY <2>1, <2>2
<1>27. /\ where # 0 => where \in Nat /\ where + 3 <= Len(words)
       /\ (IF where # 0 THEN <<Clause(words, where)>> ELSE << >>)
            = IF meant.where = << >> THEN << >> ELSE <<[meant.where[1] EXCEPT !.value = @[1]]>>
  <2>1. CASE meant.where = << >> BY <1>19, <2>1 DEF where
  <2>2. CASE meant.where # << >>
    <3>1. where = a + b + 1 BY <1>20, <2>2 DEF where
    <3>2. where # 0 /\ where \in Nat /\ where + 1 = a + b + 2 /\ where + 2 = a + b + 3 /\ where + 3 = a + b + 4 /\ where + 3 <= Len(words)
      BY <1>20, <1>23, <2>2, <3>1
    <3> DEFINE first == meant.where[1]
    <3>3. first \in Conditions(V) BY <1>3, <2>2
    <3>4. [first EXCEPT !.value = @[1]] = [column |-> first.column, op |-> first.op, value |-> first.value[1]]
      BY <3>3 DEF Conditions
    <3>5. words[where + 1] = first.column /\ words[where + 2] = Word(first.op) /\ words[where + 3] = first.value[1]
      BY <1>20, <2>2, <3>2
    <3> HIDE DEF first
    <3>6. Word(first.op)[1] = first.op BY DEF Word
    <3>7. Clause(words, where) = [first EXCEPT !.value = @[1]] BY <3>4, <3>5, <3>6 DEF Clause
    <3> QED BY <2>2, <3>2, <3>7 DEF first
  <2> QED BY <2>1, <2>2
<1>28. short <=> Dotless(meant.join)
  <2> HIDE DEF joined, dotless
  <2>4. Len(words) \in Nat
    <3>1. words \in Seq(Seq(V)) BY <1>23
    <3> HIDE DEF words
    <3> QED BY <3>1
  <2>5. c \in Nat BY <1>2
  <2>6. from = c + 2 BY <1>25
  <2> HIDE DEF words
  <2>0. Len(words) \in Nat /\ from \in Nat BY <2>4, <2>5, <2>6
  <2>1. ~ (from + 1 > Len(words)) BY <1>25, <2>0
  <2>2. ~ (joined /\ (joins + 1 > Len(words) \/ on + 3 > Len(words))) BY <1>26, <2>0
  <2>3. ~ (where # 0 /\ where + 3 > Len(words)) BY <1>27, <2>0
  <2> QED BY <1>26, <2>1, <2>2, <2>3
<1>29. Parse(words) = IF Dotless(meant.join) THEN Broken ELSE AsRead(meant)
  <2>1. SubSeq(words, select + 1, from - 1) = meant.columns BY <1>21, <1>25
  <2>2. words[from + 1] = meant.from BY <1>22, <1>25
  <2>3. ~ (select = 0 \/ from = 0) BY <1>25
  <2> HIDE DEF short, joined, dotless
  <2>4. Parse(words) = IF Dotless(meant.join) THEN Broken
                       ELSE [kind |-> "query", columns |-> meant.columns, from |-> meant.from, join |-> meant.join,
                             where |-> IF meant.where = << >> THEN << >> ELSE <<[meant.where[1] EXCEPT !.value = @[1]]>>]
    BY <1>24, <1>26, <1>27, <1>28, <2>1, <2>2, <2>3
  <2> QED BY <2>4 DEF AsRead
<1>30. words # << >> BY <1>23, <1>2, <1>10
<1> QED BY <1>0, <1>29, <1>30

(* The first member of a sequence, if it has one.                           *)
LEMMA FirstOf ==
  ASSUME NEW T, NEW s \in Seq(T)
  PROVE  /\ s = << >> => SubSeq(s, 1, Min({1, Len(s)})) = << >>
         /\ s # << >> => SubSeq(s, 1, Min({1, Len(s)})) = <<s[1]>>
<1>1. Len(s) \in Nat /\ (s # << >> => Len(s) >= 1) /\ (s = << >> => Len(s) = 0) OBVIOUS
<1>2. \A n \in Nat : Min({1, n}) = IF 1 <= n THEN 1 ELSE n BY LeastOfTwo
<1>3. CASE s = << >>
  <2>1. Min({1, Len(s)}) = 0 BY <1>1, <1>2, <1>3
  <2> QED BY <1>3, <2>1, SubSeqEmpty
<1>4. CASE s # << >>
  <2>1. Min({1, Len(s)}) = 1 BY <1>1, <1>2, <1>4
  <2>2. s[1] \in T /\ \A i \in 1..1 : s[i] \in T /\ i = 1 BY <1>1, <1>4
  <2> DEFINE u == SubSeq(s, 1, 1)
  <2>3. u \in Seq(T) /\ Len(u) = 1 /\ u[1] = s[1]
    <3>1. /\ SubSeq(s, 1, 1) \in Seq(T) /\ Len(SubSeq(s, 1, 1)) = IF 1 <= 1 THEN 1 - 1 + 1 ELSE 0
          /\ \A i \in 1..(1 - 1 + 1) : SubSeq(s, 1, 1)[i] = s[1 + i - 1]
      BY <2>2, SubSeqProperties
    <3>2. 1 \in 1..(1 - 1 + 1) /\ 1 + 1 - 1 = 1 OBVIOUS
    <3> QED BY <3>1, <3>2
  <2> HIDE DEF u
  <2>4. u = <<s[1]>>
    <3>1. <<s[1]>> \in Seq(T) /\ Len(<<s[1]>>) = 1 /\ <<s[1]>>[1] = s[1] BY <2>2
    <3>2. \A i \in 1..1 : i = 1 OBVIOUS
    <3> QED BY <2>3, <3>1, <3>2, SeqEqual
  <2> QED BY <1>4, <2>1, <2>4 DEF u
<1> QED BY <1>3, <1>4

(* The compiled answer says what the author meant.                          *)
LEMMA AnsweredAsMeant ==
  ASSUME NEW V, Vocabulary(V), NEW meant \in Meanings(V)
  PROVE  IF Dotless(meant.join) THEN SearchAnswer(Spelled(meant)) = Broken
         ELSE AnswersMeant(meant, SearchAnswer(Spelled(meant)))
<1>0. CASE Dotless(meant.join)
  <2>1. Spelled(meant) # << >> /\ Parse(Spelled(meant)) = Broken BY <1>0, ReadAsMeant
  <2>2. Broken.kind # "query" BY DEF Broken
  <2> QED BY <1>0, <2>1, <2>2 DEF SearchAnswer
<1> SUFFICES ASSUME ~ Dotless(meant.join) PROVE AnswersMeant(meant, SearchAnswer(Spelled(meant)))
  BY <1>0
<1> DEFINE parsed == AsRead(meant)
           answer == SearchAnswer(Spelled(meant))
           known == SubSeq(meant.where, 1, Min({1, Len(meant.where)}))
           asked == IF meant.where = << >> THEN << >> ELSE <<meant.where[1]>>
           heard == IF meant.where = << >> THEN << >> ELSE <<[meant.where[1] EXCEPT !.value = @[1]]>>
<1>1. answer = Compiled(parsed) BY ReadAsMeant DEF SearchAnswer, AsRead
<1>2. /\ meant \in [columns : Seq(Named(V)), from : Tables(V), join : {<< >>} \cup {<<j>> : j \in Joins(V)}, where : Seq(Conditions(V))]
      /\ meant.columns \in Seq(Named(V)) /\ meant.where \in Seq(Conditions(V)) /\ meant.from \in Tables(V)
  BY DEF Meanings
<1>4. known = asked BY <1>2, FirstOf
<1>5. parsed.columns = meant.columns /\ parsed.from = meant.from /\ parsed.join = meant.join /\ parsed.where = heard
  BY DEF AsRead
<1>6. \A name \in Named(V) : Last(Qualified(parsed, name)) = Last(name) /\ Len(Qualified(parsed, name)) = 2
  <2>1. SUFFICES ASSUME NEW name \in Named(V)
                 PROVE  Last(Qualified(parsed, name)) = Last(name) /\ Len(Qualified(parsed, name)) = 2
    OBVIOUS
  <2>2. name \in Seq(V) /\ (Len(name) = 1 \/ Len(name) = 2) /\ meant.from \in Seq(V) /\ Len(meant.from) = 1
    BY <1>2 DEF Named, Tables
  <2>3. CASE Len(name) = 1
    <3>1. Qualified(parsed, name) = meant.from \o name BY <1>5, <2>3 DEF Qualified
    <3>2. /\ Len(meant.from \o name) = 2 /\ \A i \in 1..1 : (meant.from \o name)[1 + i] = name[i]
      <4>1. Len(meant.from \o name) = Len(meant.from) + Len(name) /\ \A i \in 1..Len(name) : (meant.from \o name)[Len(meant.from) + i] = name[i]
        <5>1. meant.from \in Seq(V) /\ name \in Seq(V) BY <2>2
        <5> DEFINE f == meant.from
        <5> HIDE DEF f
        <5>2. f \in Seq(V) BY <5>1 DEF f
        <5>3. Len(f \o name) = Len(f) + Len(name) /\ \A i \in 1..Len(name) : (f \o name)[Len(f) + i] = name[i] BY <5>1, <5>2, Appended
        <5> QED BY <5>3 DEF f
      <4> QED BY <2>2, <2>3, <4>1
    <3>3. 1 \in 1..1 /\ 1 + 1 = 2 OBVIOUS
    <3> QED BY <2>3, <3>1, <3>2, <3>3 DEF Last
  <2>4. CASE Len(name) = 2 BY <1>5, <2>4 DEF Qualified
  <2> QED BY <2>2, <2>3, <2>4
<1> HIDE DEF parsed, answer, known, asked, heard
<1>7. /\ answer.kind = "query" /\ answer.from = meant.from /\ answer.join = meant.join
      /\ answer.columns = (IF parsed.columns = << >> \/ \E i \in DOMAIN parsed.columns : Last(parsed.columns[i]) = "*" THEN <<Word("*")>>
               ELSE [i \in DOMAIN parsed.columns |-> Qualified(parsed, parsed.columns[i])])
      /\ answer.where = [i \in DOMAIN parsed.where |->
           [parsed.where[i] EXCEPT !.column = Qualified(parsed, @), !.op = IF @ \in Spoken THEN @ ELSE "="]]
  BY <1>1, <1>5 DEF Compiled
<1>8. \A i \in DOMAIN asked : asked[i] \in Conditions(V)
  BY <1>2 DEF asked
<1>12. /\ DOMAIN heard = DOMAIN asked
       /\ \A i \in DOMAIN asked : heard[i] = [asked[i] EXCEPT !.value = @[1]]
  BY DEF heard, asked
<1>9. DOMAIN answer.where = DOMAIN asked /\ Len(answer.where) = Len(asked)
  <2>1. DOMAIN answer.where = DOMAIN asked BY <1>5, <1>7, <1>12
  <2>2. \A s, n : n \in Nat /\ DOMAIN s = 1..n => Len(s) = n OBVIOUS
  <2>3. \E n \in Nat : DOMAIN asked = 1..n
    <3>1. CASE meant.where = << >>
      <4>1. DOMAIN asked = 1..0 BY <3>1 DEF asked
      <4> QED BY <4>1
    <3>2. CASE meant.where # << >>
      <4>1. DOMAIN asked = 1..1 BY <3>2 DEF asked
      <4> QED BY <4>1
    <3> QED BY <3>1, <3>2
  <2> QED BY <2>1, <2>2, <2>3
<1>10. ASSUME NEW i \in DOMAIN asked
       PROVE  /\ answer.where[i].value = asked[i].value[1]
              /\ asked[i].op \in Spoken => answer.where[i].op = asked[i].op
              /\ Last(answer.where[i].column) = Last(asked[i].column) /\ Len(answer.where[i].column) = 2
  <2> DEFINE w == asked[i]
             u == heard[i]
  <2>1. w \in Conditions(V) /\ w.column \in Named(V) BY <1>8 DEF Conditions
  <2>2. answer.where[i] = [u EXCEPT !.column = Qualified(parsed, @), !.op = IF @ \in Spoken THEN @ ELSE "="]
    BY <1>5, <1>7, <1>12
  <2>3. u = [w EXCEPT !.value = @[1]] BY <1>12
  <2> HIDE DEF w, u
  <2>4. w = [column |-> w.column, op |-> w.op, value |-> w.value] BY <2>1 DEF Conditions
  <2>5. u = [column |-> w.column, op |-> w.op, value |-> w.value[1]] BY <2>3, <2>4
  <2>6. answer.where[i] = [column |-> Qualified(parsed, w.column), op |-> IF w.op \in Spoken THEN w.op ELSE "=",
                           value |-> w.value[1]]
    BY <2>2, <2>5
  <2> QED BY <1>6, <2>1, <2>6 DEF w
<1>11. ASSUME meant.columns # << >>, \A i \in DOMAIN meant.columns : Last(meant.columns[i]) # "*"
       PROVE  [i \in DOMAIN answer.columns |-> Last(answer.columns[i])] = [i \in DOMAIN meant.columns |-> Last(meant.columns[i])]
  <2>1. answer.columns = [i \in DOMAIN meant.columns |-> Qualified(parsed, meant.columns[i])] BY <1>5, <1>7, <1>11
  <2>2. \A i \in DOMAIN meant.columns : meant.columns[i] \in Named(V) BY <1>2
  <2>3. DOMAIN answer.columns = DOMAIN meant.columns BY <2>1
  <2>4. \A i \in DOMAIN meant.columns : Last(answer.columns[i]) = Last(meant.columns[i]) BY <1>6, <2>1, <2>2
  <2> QED BY <2>3, <2>4
<1> QED BY <1>4, <1>7, <1>9, <1>10, <1>11 DEF AnswersMeant, known, answer

-----------------------------------------------------------------------------
(* AdminGrid: the grid as a whole.                                          *)

GridInv ==
  /\ IsFiniteSet(DOMAIN grid.rows) /\ Understood(grid.query)
  /\ \A c \in DOMAIN grid.asked.filters : grid.asked.filters[c].value \in Texts
  /\ (/\ \A c \in DOMAIN grid.asked.filters : Unescaped(grid.asked.filters[c].value)
      /\ \A i \in DOMAIN grid.asked.q : Unescaped(grid.asked.q[i]))
       => SameView(Filters(grid.query), grid.asked.filters) /\ Keyword(grid.query) = grid.asked.q
  /\ QueriesMeanWhatTheySay
  /\ grid = [rows |-> grid.rows, slugs |-> grid.slugs, foreign |-> grid.foreign, at |-> grid.at, query |-> grid.query,
             explored |-> grid.explored, asked |-> grid.asked]

(* A finite table has a number of pages.                                    *)
LEMMA TotalIsNat ==
  ASSUME GridInv
  PROVE  TotalPages(grid.query) \in Nat
<1> DEFINE n == Cardinality(RowsListed(grid.query))
           m == n + RowsPerPage - 1
<1>1. RowsListed(grid.query) \subseteq DOMAIN grid.rows BY DEF RowsListed, Selected
<1>2. n \in Nat BY <1>1, FS_Subset, FS_CardinalityType DEF GridInv
<1> HIDE DEF n
<1>3. m \in Nat /\ RowsPerPage \in Nat \ {0} BY <1>2, RowsPerPageAssumption
<1>4. TotalPages(grid.query) = m \div RowsPerPage BY DEF TotalPages, n
<1> HIDE DEF m
<1>5. m \div RowsPerPage \in Nat BY <1>3
<1> QED BY <1>4, <1>5

(* build_page_window, whatever the page that is shown.                      *)
LEMMA BarIsRight ==
  ASSUME GridInv, NEW total, total = TotalPages(grid.query), total > 1, NEW current, current = grid.query.page + 1
  PROVE  /\ PageWindow(current, total) = Gaps(Shown(current, total)) /\ total \in Nat /\ current \in Nat \ {0}
         /\ BarShows(PageWindow(current, total), Shown(current, total), Len(Shown(current, total)))
<1>1. total \in Nat /\ current \in Nat \ {0} BY TotalIsNat DEF GridInv, Understood
<1>2. PageWindow(current, total) = Gaps(Shown(current, total)) BY <1>1 DEF PageWindow
<1>3. /\ Shown(current, total) \in Seq(Nat \ {0}) /\ Shown(current, total) # << >>
      /\ Increasing(Shown(current, total))
  BY <1>1, ShownInOrder
<1> QED BY <1>1, <1>2, <1>3, GapsShow

(* The page bar shows the pages it should.                                  *)
LEMMA WindowHolds == ASSUME GridInv PROVE WindowIsSound
<1> DEFINE total == TotalPages(grid.query)
           current == grid.query.page + 1
           window == PageWindow(current, total)
           shown == Shown(current, total)
           numbers == {i \in DOMAIN window : window[i] # Ellipsis}
<1>1. SUFFICES ASSUME total > 1
               PROVE  /\ window[1] = 1 /\ Last(window) = total
                      /\ \A i, j \in numbers : i < j => window[i] < window[j]
                      /\ {p \in 1..total : p \in (current - 2)..(current + 2)} \subseteq ToSet(window)
                      /\ \A i \in 1..(Len(window) - 1) :
                           /\ window[i] = Ellipsis => i > 1 /\ window[i - 1] + 1 < window[i + 1]
                           /\ window[i] # Ellipsis /\ window[i + 1] # Ellipsis => window[i + 1] = window[i] + 1
  BY DEF WindowIsSound
<1>2. total \in Nat /\ current \in Nat \ {0} /\ BarShows(window, shown, Len(shown)) BY <1>1, BarIsRight
<1> HIDE DEF total, current, window
<1>3. /\ shown \in Seq(Nat \ {0}) /\ shown[1] = 1 /\ shown[Len(shown)] = total
      /\ \A p \in 1..total : p \in (current - 2)..(current + 2) => \E i \in DOMAIN shown : shown[i] = p
  BY <1>1, <1>2, ShownInOrder
<1> HIDE DEF shown
<1>4. window[1] = 1 /\ Last(window) = total BY <1>2, <1>3 DEF BarShows, Last
<1>5. \A i, j \in numbers : i < j => window[i] < window[j] BY <1>2 DEF BarShows
<1>6. ASSUME NEW p \in 1..total, p \in (current - 2)..(current + 2) PROVE p \in ToSet(window)
  <2>1. PICK i \in DOMAIN shown : shown[i] = p BY <1>3, <1>6
  <2>2. i \in 1..Len(shown) BY <1>3
  <2> QED BY <1>2, <2>1, <2>2 DEF BarShows
<1>7. \A i \in 1..(Len(window) - 1) :
        /\ window[i] = Ellipsis => i > 1 /\ window[i - 1] + 1 < window[i + 1]
        /\ window[i] # Ellipsis /\ window[i + 1] # Ellipsis => window[i + 1] = window[i] + 1
  BY <1>2 DEF BarShows
<1> QED BY <1>4, <1>5, <1>6, <1>7

(* Grid and export have the rows that were asked for.                       *)
LEMMA ViewFollows == ASSUME GridInv PROVE ViewHolds
<1> DEFINE filters == grid.asked.filters
           q == grid.asked.q
<1>1. SUFFICES ASSUME \A c \in DOMAIN filters : Unescaped(filters[c].value), \A i \in DOMAIN q : Unescaped(q[i])
               PROVE  RowsListed(grid.query) = Selected(filters, q) /\ Exported(Export) = Selected(filters, q)
  BY DEF ViewHolds
<1>2. SameView(Filters(grid.query), filters) /\ Keyword(grid.query) = q BY <1>1 DEF GridInv
<1>3. RowsListed(grid.query) = Selected(filters, q) BY <1>2, SameRows DEF RowsListed
<1> DEFINE carried == PageLink(grid.query, 0, "")
<1>4. Understood(grid.query) /\ 0 \in Nat BY DEF GridInv
<1>5. SameView(ExportFilters(carried), Filters(grid.query)) /\ carried.q = Keyword(grid.query)
  <2>1. GoesOn(grid.query, carried) BY <1>4, CarriedOn DEF PageLink
  <2> QED BY <2>1 DEF GoesOn
<1> HIDE DEF carried
<1>6. Export = Parameters(carried.ops, carried.vals, carried.q, "", "", 0, TRUE, "") BY DEF Export, carried
<1>7. Export.ops = carried.ops /\ Export.vals = carried.vals /\ Export.q = carried.q BY <1>6 DEF Parameters
<1>8. ExportFilters(Export) = ExportFilters(carried) BY <1>7 DEF ExportFilters
<1>9. Exported(Export) = Selected(ExportFilters(carried), Keyword(grid.query)) BY <1>5, <1>7, <1>8 DEF Exported
<1>10. Exported(Export) = RowsListed(grid.query) BY <1>5, <1>9, SameRows DEF RowsListed
<1> QED BY <1>3, <1>10

(* A visit leaves the explorer as it is.                                    *)
LEMMA ExploredKept ==
  ASSUME QueriesMeanWhatTheySay, grid'.explored = grid.explored
  PROVE  QueriesMeanWhatTheySay'
BY DEF QueriesMeanWhatTheySay

(* What is asked for is what the server understands, but for escapes.       *)
LEMMA AskedAs ==
  ASSUME NEW query, Understood(query), NEW asked, asked = Asked(query)
  PROVE  /\ \A c \in DOMAIN asked.filters : asked.filters[c].value \in Texts
         /\ (\A c \in DOMAIN asked.filters : Unescaped(asked.filters[c].value)) /\ (\A i \in DOMAIN asked.q : Unescaped(asked.q[i]))
              => SameView(Filters(query), asked.filters) /\ Keyword(query) = asked.q
<1> DEFINE f == Filters(query)
           g == asked.filters
<1>1. g = [c \in DOMAIN f |-> ExportFilters(query)[c]] /\ asked.q = query.q BY DEF Asked
<1>2. ASSUME NEW c \in DOMAIN f
      PROVE  /\ f[c].op = query.ops[c] /\ g[c].op = query.ops[c]
             /\ f[c].value = IF c \in DOMAIN query.vals THEN Decode(query.vals[c]) ELSE NoText
             /\ g[c].value = IF c \in DOMAIN query.vals THEN query.vals[c] ELSE NoText
  <2>1. c \in DOMAIN query.ops BY <1>2 DEF Filters
  <2>2. f[c] = [op |-> query.ops[c], value |-> IF c \in DOMAIN query.vals THEN Decode(query.vals[c]) ELSE NoText]
    BY <1>2 DEF Filters
  <2>3. ExportFilters(query)[c] = [op |-> query.ops[c], value |-> IF c \in DOMAIN query.vals THEN query.vals[c] ELSE NoText]
    BY <2>1 DEF ExportFilters
  <2> HIDE DEF f, g
  <2>4. g[c] = ExportFilters(query)[c] BY <1>1, <1>2
  <2> QED BY <2>2, <2>3, <2>4
<1> HIDE DEF f, g
<1>3. NoText \in Texts /\ \A c \in DOMAIN query.vals : query.vals[c] \in Texts BY DEF NoText, Texts, Understood
<1>4. DOMAIN g = DOMAIN f /\ \A c \in DOMAIN g : g[c].value \in Texts BY <1>1, <1>2, <1>3
<1>5. ASSUME \A c \in DOMAIN g : Unescaped(g[c].value) PROVE SameView(f, g)
  BY <1>2, <1>4, <1>5 DEF SameView, Unescaped
<1>6. ASSUME \A i \in DOMAIN asked.q : Unescaped(asked.q[i]) PROVE Keyword(query) = asked.q
  <2>1. query.q = [i \in DOMAIN query.q |-> query.q[i]] BY DEF Understood
  <2>2. \A i \in DOMAIN query.q : Decode(query.q[i]) = query.q[i] BY <1>1, <1>6 DEF Unescaped
  <2> QED BY <1>1, <2>1, <2>2 DEF Keyword
<1> QED BY <1>4, <1>5, <1>6 DEF f, g

(* A request that comes from a bookmark, a form or a link.                  *)
LEMMA Visited ==
  ASSUME GridInv, NEW query, Understood(query), Visit(query)
  PROVE  GridInv'
<1>1. /\ grid'.rows = grid.rows /\ grid'.query = query /\ grid'.asked = Asked(query) /\ grid'.explored = grid.explored
      /\ grid' = [rows |-> grid'.rows, slugs |-> grid'.slugs, foreign |-> grid'.foreign, at |-> grid'.at, query |-> grid'.query,
                  explored |-> grid'.explored, asked |-> grid'.asked]
  BY DEF Visit, GridInv
<1>2. QueriesMeanWhatTheySay'
  <2>1. QueriesMeanWhatTheySay BY DEF GridInv
  <2> QED BY <1>1, <2>1, ExploredKept
<1>3. PICK asked : asked = Asked(query) OBVIOUS
<1>4. /\ \A c \in DOMAIN asked.filters : asked.filters[c].value \in Texts
      /\ (\A c \in DOMAIN asked.filters : Unescaped(asked.filters[c].value)) /\ (\A i \in DOMAIN asked.q : Unescaped(asked.q[i]))
           => SameView(Filters(query), asked.filters) /\ Keyword(query) = asked.q
  BY <1>3, AskedAs
<1> QED BY <1>1, <1>2, <1>3, <1>4 DEF GridInv

(* A link keeps the filters and the keyword.                                *)
LEMMA LinkFollowed ==
  ASSUME GridInv, NEW sort, NEW direction, NEW page \in Nat, NEW partial,
         NEW next, next = Carried(grid.query, sort, direction, page, partial),
         grid' = [grid EXCEPT !.query = next]
  PROVE  GridInv'
<1> DEFINE query == grid.query
           filters == grid.asked.filters
           q == grid.asked.q
<1>1. /\ grid'.rows = grid.rows /\ grid'.query = next /\ grid'.asked = grid.asked /\ grid'.explored = grid.explored
      /\ grid' = [rows |-> grid'.rows, slugs |-> grid'.slugs, foreign |-> grid'.foreign, at |-> grid'.at, query |-> grid'.query,
                  explored |-> grid'.explored, asked |-> grid'.asked]
  BY DEF GridInv
<1>2. QueriesMeanWhatTheySay'
  <2>1. QueriesMeanWhatTheySay BY DEF GridInv
  <2> QED BY <1>1, <2>1, ExploredKept
<1>3. Understood(query) BY DEF GridInv
<1>4. /\ Understood(next)
      /\ DOMAIN Filters(next) = DOMAIN Filters(query)
      /\ \A c \in DOMAIN Filters(query) :
           /\ Filters(next)[c].op = Filters(query)[c].op
           /\ Filters(query)[c].op \notin NullOps => Filters(next)[c].value = Decode(Filters(query)[c].value)
      /\ Keyword(next) = [i \in DOMAIN Keyword(query) |-> Decode(Keyword(query)[i])]
  <2>1. GoesOn(query, next) BY <1>3, CarriedOn
  <2> QED BY <2>1 DEF GoesOn
<1>5. Keyword(query) \in Seq(Texts) BY <1>3, FiltersOf
<1> HIDE DEF query, filters, q
<1>6. ASSUME \A c \in DOMAIN filters : Unescaped(filters[c].value), \A i \in DOMAIN q : Unescaped(q[i])
      PROVE  SameView(Filters(next), filters) /\ Keyword(next) = q
  <2>1. SameView(Filters(query), filters) /\ Keyword(query) = q BY <1>6 DEF GridInv, query, filters, q
  <2>2. SameView(Filters(next), filters)
    <3>1. DOMAIN Filters(query) = DOMAIN filters BY <2>1 DEF SameView
    <3>2. ASSUME NEW c \in DOMAIN filters
          PROVE  Filters(next)[c].op = filters[c].op /\ (Filters(next)[c].op \notin NullOps => Filters(next)[c].value = filters[c].value)
      <4>1. Filters(query)[c].op = filters[c].op /\ (Filters(query)[c].op \notin NullOps => Filters(query)[c].value = filters[c].value)
        BY <2>1, <3>1 DEF SameView
      <4>2. Decode(filters[c].value) = filters[c].value BY <1>6 DEF Unescaped
      <4> QED BY <1>4, <3>1, <4>1, <4>2
    <3> QED BY <1>4, <3>1, <3>2 DEF SameView
  <2>3. \A i \in DOMAIN q : Decode(q[i]) = q[i] BY <1>6 DEF Unescaped
  <2>4. q = [i \in DOMAIN q |-> q[i]] BY <1>5, <2>1
  <2> QED BY <1>4, <2>1, <2>2, <2>3, <2>4
<1> QED BY <1>1, <1>2, <1>4, <1>6 DEF GridInv, filters, q

(* So does every link of the grid and its bar.                              *)
LEMMA LinksGoOn == GridInv /\ Follow => GridInv'
<1> SUFFICES ASSUME GridInv, Follow PROVE GridInv'
  OBVIOUS
<1> DEFINE query == grid.query
           total == TotalPages(query)
           bar == IF total > 1
                  THEN {p - 1 : p \in ToSet(PageWindow(query.page + 1, total)) \ {Ellipsis, query.page + 1}}
                       \cup (IF query.page > 0 THEN {query.page - 1} ELSE {})
                       \cup (IF query.page + 1 < total THEN {query.page + 1} ELSE {})
                  ELSE {}
<1>1. PICK link \in Links : grid' = [grid EXCEPT !.query = link.query] BY DEF Follow
<1>2. query.page \in Nat /\ total \in Nat BY TotalIsNat DEF GridInv, Understood
<1>3. \/ \E c \in GridColumns : link = Link("sort", SortLink(query, c))
      \/ \E p \in bar : link = Link("page", PageLink(query, p, "matrix"))
      \/ link = Link("more", PageLink(query, query.page + 1, "rows"))
      \/ \E p \in 0..(total - 1) : link = Link("jump", PageLink(query, p, "matrix"))
  BY DEF Links
<1>4. bar \subseteq Nat
  <2>1. CASE total > 1
    <3>1. \A p \in ToSet(PageWindow(query.page + 1, total)) : p \in Nat
      <4> DEFINE window == PageWindow(query.page + 1, total)
      <4>1. window \in Seq(Nat) BY <2>1, BarIsRight DEF BarShows
      <4> HIDE DEF window
      <4>2. \A i \in DOMAIN window : window[i] \in Nat BY <4>1
      <4>3. \A p \in ToSet(window) : p \in Nat BY <4>2 DEF ToSet
      <4> QED BY <4>3 DEF window
    <3>2. \A p \in ToSet(PageWindow(query.page + 1, total)) \ {Ellipsis, query.page + 1} : p - 1 \in Nat BY <3>1 DEF Ellipsis
    <3>3. (query.page > 0 => query.page - 1 \in Nat) /\ query.page + 1 \in Nat BY <1>2
    <3> HIDE DEF query, total
    <3> QED BY <2>1, <3>2, <3>3
  <2>2. CASE ~ (total > 1) BY <2>2
  <2> QED BY <2>1, <2>2
<1> HIDE DEF query, total, bar
<1>5. \A kind, next : Link(kind, next).query = next BY DEF Link
<1>6. \E sort, direction, partial : \E page \in Nat : link.query = Carried(query, sort, direction, page, partial)
  <2>1. CASE \E c \in GridColumns : link = Link("sort", SortLink(query, c)) BY <1>2, <1>5, <2>1 DEF SortLink
  <2>2. CASE \E p \in bar : link = Link("page", PageLink(query, p, "matrix")) BY <1>4, <1>5, <2>2 DEF PageLink
  <2>3. CASE link = Link("more", PageLink(query, query.page + 1, "rows"))
    <3>1. query.page + 1 \in Nat BY <1>2
    <3> QED BY <3>1, <1>5, <2>3 DEF PageLink
  <2>4. CASE \E p \in 0..(total - 1) : link = Link("jump", PageLink(query, p, "matrix"))
    <3>1. PICK p \in 0..(total - 1) : link = Link("jump", PageLink(query, p, "matrix")) BY <2>4
    <3>2. p \in Nat BY <1>2
    <3> QED BY <3>1, <3>2, <1>5 DEF PageLink
  <2> QED BY <1>3, <2>1, <2>2, <2>3, <2>4
<1> QED BY <1>1, <1>6, LinkFollowed DEF query

(* A query is explored as it was meant.                                     *)
LEMMA Explored ==
  ASSUME GridInv, NEW V, Vocabulary(V), NEW meant \in Meanings(V), Explore(meant)
  PROVE  GridInv'
<1> DEFINE pair == <<meant, SearchAnswer(Spelled(meant))>>
<1>1. /\ grid'.rows = grid.rows /\ grid'.query = grid.query /\ grid'.asked = grid.asked /\ grid'.explored = pair
      /\ grid' = [rows |-> grid'.rows, slugs |-> grid'.slugs, foreign |-> grid'.foreign, at |-> grid'.at, query |-> grid'.query,
                  explored |-> grid'.explored, asked |-> grid'.asked]
  BY DEF Explore, GridInv
<1>2. IF Dotless(meant.join) THEN SearchAnswer(Spelled(meant)) = Broken ELSE AnswersMeant(meant, SearchAnswer(Spelled(meant)))
  BY AnsweredAsMeant
<1>3. QueriesMeanWhatTheySay'
  <2>1. grid'.explored[1] = meant /\ grid'.explored[2] = SearchAnswer(Spelled(meant)) BY <1>1
  <2> QED BY <1>2, <2>1 DEF QueriesMeanWhatTheySay
<1> QED BY <1>1, <1>3 DEF GridInv

(* Bookmarks, forms and queries as a client can make them: texts are        *)
(* sequences of letters, and a query is made of names that are not          *)
(* keywords. However an administrator pages, jumps, sorts, scrolls and      *)
(* filters, the grid and its export have the rows he asked for, the page    *)
(* bar is right, and the explorer answers a query of one join and one       *)
(* condition, with =, LIKE, > or < and a value of one word, as it was meant *)
(* (see QueriesMeanWhatTheySay for what it makes of others): list.rs,       *)
(* export_csv.rs, pagination.rs, jql.rs.                                    *)
THEOREM GridSound ==
  ASSUME NEW table, IsFiniteSet(DOMAIN table), NEW slugs, NEW foreign, NEW at, NEW query, Understood(query),
         NEW forms, \A f \in forms : \A c \in DOMAIN f.vals : f.vals[c] \in Texts,
         NEW V, Vocabulary(V), NEW queries, queries \subseteq Meanings(V)
  PROVE  GridSpec(table, slugs, foreign, at, query, forms, queries) => []GridIsFaithful
<1> DEFINE Opened == GridInit(table, slugs, foreign, at, query)
           Step == GridNext(forms, queries)
<1>1. Opened => GridInv
  <2> SUFFICES ASSUME Opened PROVE GridInv
    OBVIOUS
  <2>1. grid = [rows |-> table, slugs |-> slugs, foreign |-> foreign, at |-> at, query |-> query, explored |-> << >>,
                asked |-> Asked(query)]
    BY DEF GridInit
  <2>2. grid.rows = table /\ grid.query = query /\ grid.explored = << >> /\ grid.asked = Asked(query) BY <2>1
  <2>3. PICK asked : asked = Asked(query) OBVIOUS
  <2>4. /\ \A c \in DOMAIN asked.filters : asked.filters[c].value \in Texts
        /\ (\A c \in DOMAIN asked.filters : Unescaped(asked.filters[c].value)) /\ (\A i \in DOMAIN asked.q : Unescaped(asked.q[i]))
             => SameView(Filters(query), asked.filters) /\ Keyword(query) = asked.q
    BY <2>3, AskedAs
  <2>6. QueriesMeanWhatTheySay BY <2>2 DEF QueriesMeanWhatTheySay
  <2> QED BY <2>1, <2>2, <2>3, <2>4, <2>6 DEF GridInv
<1>2. GridInv /\ [Step]_grid => GridInv'
  <2> SUFFICES ASSUME GridInv, [Step]_grid PROVE GridInv'
    OBVIOUS
  <2>1. CASE Follow BY <2>1, LinksGoOn
  <2>2. CASE \E f \in forms : Apply(f.ops, f.vals, f.infinite)
    <3>1. PICK f \in forms : Apply(f.ops, f.vals, f.infinite) BY <2>2
    <3> DEFINE next == Parameters(f.ops, f.vals, << >>, "", "desc", 0, f.infinite, "matrix")
    <3>2. Visit(next) BY <3>1 DEF Apply
    <3>3. next.vals = f.vals /\ next.q = << >> /\ next.page = 0 BY DEF Parameters
    <3>4. << >> \in Seq(Texts) /\ 0 \in Nat BY EmptySeq
    <3> HIDE DEF next
    <3>5. \A c \in DOMAIN next.vals : next.vals[c] \in Texts BY <3>3
    <3>6. Understood(next) BY <3>3, <3>4, <3>5 DEF Understood
    <3> QED BY <3>2, <3>6, Visited
  <2>3. CASE \E meant \in queries : Explore(meant)
    <3>1. PICK meant \in queries : Explore(meant) BY <2>3
    <3>2. meant \in Meanings(V) OBVIOUS
    <3> QED BY <3>1, <3>2, Explored
  <2>4. CASE UNCHANGED grid BY <2>4 DEF GridInv, QueriesMeanWhatTheySay
  <2> QED BY <2>1, <2>2, <2>3, <2>4 DEF GridNext
<1>3. GridInv => GridIsFaithful BY ViewFollows, WindowHolds DEF GridIsFaithful, GridInv
<1> QED BY <1>1, <1>2, <1>3, PTL DEF GridSpec
=============================================================================
