----------------------------- MODULE RateLimiter -----------------------------
(***************************************************************************)
(* The fixed-window rate limiter of src/src/security/rate_limit.rs. One    *)
(* mutex guards the whole table, so a decision is one step; is_allowed     *)
(* reads the clock inside it. The clock is Instant::now(), in any unit.    *)
(***************************************************************************)
EXTENDS Integers, Sequences

CONSTANTS
  Ips,          (* What resolve_client_ip returns.                         *)
  MaxRequests,  (* max_requests: the requests of one window.               *)
  Window,       (* window_duration.                                        *)
  MaxTime,      (* The clock stops here.                                   *)
  NoBucket      (* No entry in the table.                                  *)

ASSUME RateLimiterAssumption ==
  /\ MaxRequests \in Nat
  /\ Window \in Nat
  /\ MaxTime \in Nat
  /\ NoBucket \notin [count : Nat, expires : Nat]

VARIABLES
  now,     (* The clock.                                                   *)
  bucket,  (* bucket[ip]: its RateBucket. Entries are never removed.       *)
  served   (* served[ip]: history, when its requests were let through.     *)

limiter == <<bucket, served>>

LimiterTypeOK ==
  /\ now \in Nat
  /\ bucket \in [Ips -> [count : Nat, expires : Nat] \cup {NoBucket}]
  /\ served \in [Ips -> Seq(Nat)]

LimiterInit ==
  /\ now = 0
  /\ bucket = [ip \in Ips |-> NoBucket]
  /\ served = [ip \in Ips |-> << >>]

(* The entry of ip, or the one or_insert_with makes for it.                 *)
Bucket(ip) == IF bucket[ip] = NoBucket THEN [count |-> 0, expires |-> now + Window]
              ELSE bucket[ip]

(* Mutation of Allowed: a window has room for one more.                     *)
AllowedOneMore(ip) == now >= Bucket(ip).expires \/ Bucket(ip).count <= MaxRequests

(* A window that is over opens a new one, whatever the limit.               *)
Allowed(ip) == now >= Bucket(ip).expires \/ Bucket(ip).count < MaxRequests

(* is_allowed, for a request it lets through ...                            *)
Admit(ip) ==
  /\ Allowed(ip)
  /\ bucket' = [bucket EXCEPT ![ip] =
       IF now >= Bucket(ip).expires
       THEN [count |-> 1, expires |-> now + Window]
       ELSE [Bucket(ip) EXCEPT !.count = Bucket(ip).count + 1]]
  /\ served' = [served EXCEPT ![ip] = Append(@, now)]

(* ... and for one it refuses: an entry made for it stays.                  *)
Refuse(ip) ==
  /\ ~ Allowed(ip)
  /\ bucket' = [bucket EXCEPT ![ip] = Bucket(ip)]
  /\ UNCHANGED served

Elapse == now < MaxTime /\ now' = now + 1

LimiterNext ==
  \/ (\E ip \in Ips : Admit(ip) \/ Refuse(ip)) /\ UNCHANGED now
  \/ Elapse /\ UNCHANGED limiter

LimiterSpec == LimiterInit /\ [][LimiterNext]_<<now, limiter>>
-----------------------------------------------------------------------------
(* A window admits at least the request that opens it.                      *)
PerWindow == IF MaxRequests = 0 THEN 1 ELSE MaxRequests

(* A fixed window lets a burst through at its end and another right after,  *)
(* but no more: of any 2 * PerWindow + 1 requests of one client that were   *)
(* let through, the last came at least a window after the first.            *)
BurstBound ==
  \A ip \in Ips : \A i, j \in 1..Len(served[ip]) :
    j >= i + 2 * PerWindow => served[ip][j] - served[ip][i] >= Window
=============================================================================
