------------------------------ MODULE RateLimiter ------------------------------
(***************************************************************************)
(* rate_limiter_middleware: every client thread runs it before the handler *)
(* of its route.  A table of slots indexed by a hash of the client address *)
(* holds, under one mutex, the address a slot currently counts for, when   *)
(* its window started and how many requests it has counted.                *)
(*                                                                         *)
(* Time is what time(NULL) returns: it may advance between the two calls   *)
(* the function makes, and it may be set back.                             *)
(***************************************************************************)
EXTENDS Integers, FiniteSets

CONSTANTS
  Threads, NoThread,
  Ips,         \* values of req->client_ip: addresses, and "-" for a peer that
               \* getpeername could not name
  NoIp,        \* the empty string, in a slot that was never used
  Slots,       \* indices of rate_limits and rate_limit_ips
  Hash,        \* rate_limiter_hash
  ArgMax,      \* the arguments of cHTTPX_MiddlewareRateLimiter
  ArgWindow,
  U8, U16, U32,  \* how many values the integer types have
  ClockBack,   \* TRUE: the wall clock may be set back
  MaxCalls,    \* bound: requests that reach the limiter
  MaxTime      \* bound: seconds the server runs

ASSUME RateLimiterAssumption ==
  /\ NoThread \notin Threads
  /\ NoIp \notin Ips
  /\ Hash \in [Ips -> Slots]
  /\ ArgMax \in Nat /\ ArgWindow \in Nat
  /\ U8 \in Nat \ {0} /\ U16 \in Nat \ {0} /\ U32 \in Nat
  /\ U8 <= U32
  /\ ClockBack \in BOOLEAN
  /\ MaxCalls \in Nat /\ MaxCalls < U32
  /\ MaxTime \in Nat

VARIABLES
  elapsed,     \* seconds since the server started
  wall,        \* what time(NULL) returns, counted from the same moment
  mutex,       \* who holds rate_limit_mu
  pc,          \* where each thread is
  ip,          \* req->client_ip of the request it handles
  verdict,     \* what the middleware returned for it
  slotIp,      \* rate_limit_ips
  start,       \* rate_limits[].window_start
  requests,    \* rate_limits[].requests
  calls,       \* number of requests so far
  no,          \* which of them the thread handles
  decided      \* history: the decisions, with the second they were made in

vars == <<elapsed, wall, mutex, pc, ip, verdict, slotIp, start, requests, calls, no, decided>>

\* rl_max_requests is a uint8_t and rl_window_sec a uint16_t.
rl_max_requests == ArgMax % U8
rl_window_sec   == ArgWindow % U16

Init ==
  /\ elapsed = 0
  /\ wall = 0
  /\ mutex = NoThread
  /\ pc = [t \in Threads |-> "idle"]
  /\ ip = [t \in Threads |-> NoIp]
  /\ verdict = [t \in Threads |-> "idle"]
  /\ slotIp = [s \in Slots |-> NoIp]
  /\ start = [s \in Slots |-> 0]
  /\ requests = [s \in Slots |-> 0]
  /\ calls = 0
  /\ no = [t \in Threads |-> 0]
  /\ decided = {}

Tick ==
  /\ elapsed < MaxTime
  /\ elapsed' = elapsed + 1
  /\ wall' = wall + 1
  /\ UNCHANGED <<mutex, pc, ip, verdict, slotIp, start, requests, calls, no, decided>>

SetBack ==
  /\ ClockBack
  /\ \E w \in 0 .. (wall - 1) : wall' = w
  /\ UNCHANGED <<elapsed, mutex, pc, ip, verdict, slotIp, start, requests, calls, no, decided>>

\* chttpx_handle calls the middleware for a routed request.
Call(t, addr) ==
  /\ pc[t] = "idle"
  /\ calls < MaxCalls
  /\ pc' = [pc EXCEPT ![t] = "lock"]
  /\ ip' = [ip EXCEPT ![t] = addr]
  /\ verdict' = [verdict EXCEPT ![t] = "pending"]
  /\ calls' = calls + 1
  /\ no' = [no EXCEPT ![t] = calls + 1]
  /\ UNCHANGED <<elapsed, wall, mutex, slotIp, start, requests, decided>>

Lock(t) ==
  /\ pc[t] = "lock"
  /\ mutex = NoThread
  /\ mutex' = t
  /\ pc' = [pc EXCEPT ![t] = "claim"]
  /\ UNCHANGED <<elapsed, wall, ip, verdict, slotIp, start, requests, calls, no, decided>>

Slot(t) == Hash[ip[t]]

\* The strcmp is inverted: the slot is taken from its owner and kept by others.
MutClaim(t) ==
  /\ pc[t] = "claim"
  /\ pc' = [pc EXCEPT ![t] = "count"]
  /\ IF slotIp[Slot(t)] = ip[t]
     THEN /\ start' = [start EXCEPT ![Slot(t)] = wall]
          /\ requests' = [requests EXCEPT ![Slot(t)] = 0]
     ELSE UNCHANGED <<start, requests>>
  /\ slotIp' = [slotIp EXCEPT ![Slot(t)] = ip[t]]
  /\ UNCHANGED <<elapsed, wall, mutex, ip, verdict, calls, no, decided>>

\* A slot that counts for another address is taken over.
Claim(t) ==
  /\ pc[t] = "claim"
  /\ pc' = [pc EXCEPT ![t] = "count"]
  /\ IF slotIp[Slot(t)] # ip[t]
     THEN /\ slotIp' = [slotIp EXCEPT ![Slot(t)] = ip[t]]
          /\ start' = [start EXCEPT ![Slot(t)] = wall]
          /\ requests' = [requests EXCEPT ![Slot(t)] = 0]
     ELSE UNCHANGED <<slotIp, start, requests>>
  /\ UNCHANGED <<elapsed, wall, mutex, ip, verdict, calls, no, decided>>

\* Whether the window of the slot is over, and the requests it then starts from.
Expired(t) == wall - start[Slot(t)] >= rl_window_sec

\* The counter is not put back to zero when the window is renewed.
MutCounted(t) == (requests[Slot(t)] + 1) % U32

\* The counter counts down what is left, and below zero.
MutCountedDown(t) == (IF Expired(t) THEN rl_max_requests ELSE requests[Slot(t)]) - 1

Counted(t) == ((IF Expired(t) THEN 0 ELSE requests[Slot(t)]) + 1) % U32

\* `return out' leaves without the unlock.
MutUnlocked(t) == IF Counted(t) > rl_max_requests THEN t ELSE NoThread

\* Both returns unlock.
Unlocked(t) == NoThread

\* The window is renewed when it is over, the request is counted and judged.
Count(t) ==
  /\ pc[t] = "count"
  /\ pc' = [pc EXCEPT ![t] = "idle"]
  /\ mutex' = Unlocked(t)
  /\ start' = IF Expired(t) THEN [start EXCEPT ![Slot(t)] = wall] ELSE start
  /\ requests' = [requests EXCEPT ![Slot(t)] = Counted(t)]
  /\ LET v == IF Counted(t) > rl_max_requests THEN "out" ELSE "next" IN
       /\ verdict' = [verdict EXCEPT ![t] = v]
       /\ decided' = decided \cup {[no |-> no[t], ip |-> ip[t], at |-> elapsed, v |-> v]}
  /\ UNCHANGED <<elapsed, wall, ip, slotIp, calls, no>>

Step(t) == Lock(t) \/ Claim(t) \/ Count(t)

Next ==
  \/ Tick
  \/ SetBack
  \/ \E t \in Threads : Step(t) \/ \E addr \in Ips : Call(t, addr)

\* Threads are scheduled, and a free mutex is given to somebody who waits.
Fairness ==
  /\ \A t \in Threads : WF_vars(Claim(t) \/ Count(t))
  /\ WF_vars(\E t \in Threads : Lock(t))

Spec == Init /\ [][Next]_vars
FairSpec == Spec /\ Fairness

-----------------------------------------------------------------------------
(***************************************************************************)
(* Properties.                                                             *)
(***************************************************************************)

Decisions == [no : 1 .. MaxCalls, ip : Ips, at : 0 .. MaxTime, v : {"next", "out"}]

\* The type of every variable; the counter never leaves uint32_t.
TypeOK ==
  /\ elapsed \in 0 .. MaxTime
  /\ wall \in Nat
  /\ mutex \in Threads \cup {NoThread}
  /\ pc \in [Threads -> {"idle", "lock", "claim", "count"}]
  /\ ip \in [Threads -> Ips \cup {NoIp}]
  /\ verdict \in [Threads -> {"idle", "pending", "next", "out"}]
  /\ slotIp \in [Slots -> Ips \cup {NoIp}]
  /\ start \in [Slots -> Nat]
  /\ requests \in [Slots -> 0 .. (U32 - 1)]
  /\ calls \in 0 .. MaxCalls
  /\ no \in [Threads -> 0 .. MaxCalls]
  /\ decided \subseteq Decisions

\* Requests of one address that passed in the seconds from .. to.
Passed(addr, from, to) ==
  {d \in decided : d.v = "next" /\ d.ip = addr /\ d.at \in from .. to}

\* "maximum number of requests" in a "time window in seconds": in any span as
\* long as the window, a client gets through at most twice the maximum (once at
\* the end of a window and once at the beginning of the next).
BurstBound ==
  \A addr \in Ips, from \in 0 .. MaxTime :
    Cardinality(Passed(addr, from, from + ArgWindow - 1)) <= 2 * ArgMax

\* The wall clock has not been set back.
ClockKept == wall = elapsed

\* Unless the clock was set back, a request is refused only if as many as the
\* configured maximum of the same client have passed in the time of a window
\* before it, although other clients may take over its slot at any moment.
NoFalseRefusal ==
  ClockKept => \A d \in decided :
    d.v = "out" => Cardinality(Passed(d.ip, d.at - ArgWindow + 1, d.at)) >= ArgMax

\* Every request that reaches the limiter is judged: no path keeps the mutex.
EveryCallDecided ==
  \A t \in Threads : verdict[t] = "pending" ~> verdict[t] # "pending"

\* Where no two addresses share a slot, the table under its mutex implements
\* one window of its own for every client, decided on in one step.
Quota == INSTANCE WindowQuota WITH
  Max     <- rl_max_requests,
  Window  <- rl_window_sec,
  elapsed <- wall,
  calling <- ip,
  count   <- [a \in Ips |-> IF slotIp[Hash[a]] = a THEN requests[Hash[a]] ELSE 0],
  opened  <- [a \in Ips |-> IF slotIp[Hash[a]] = a /\ requests[Hash[a]] > 0
                            THEN start[Hash[a]] ELSE 0]

ImplementsQuota == Quota!Spec

================================================================================
