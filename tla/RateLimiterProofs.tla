--------------------------- MODULE RateLimiterProofs ---------------------------
(***************************************************************************)
(* RateLimiter for every number of threads, clients and slots, every hash, *)
(* every limit and window: the type of the state; that the table under its *)
(* mutex implements one window per client where no two clients hash to the *)
(* same slot and the clock is not set back; that nobody is refused early,  *)
(* whoever shares a slot; and that a burst has at most two windows' worth. *)
(***************************************************************************)
EXTENDS RateLimiter, FiniteSetTheorems, TLAPS

Pending(t) == verdict[t] = "pending"

\* One thread at a time works on the table, and on a slot it has claimed.
MutexInv ==
  \A t \in Threads :
    /\ pc[t] \in {"claim", "count"} => mutex = t
    /\ pc[t] = "idle" <=> ~Pending(t)
    /\ pc[t] # "idle" => ip[t] \in Ips
    /\ pc[t] = "count" => slotIp[Slot(t)] = ip[t]

\* Every decision belongs to a request of its own, so a slot never counts more
\* requests than there were, and uint32_t does not wrap.
CallsInv ==
  /\ \A t \in Threads : Pending(t) =>
       /\ no[t] \in 1 .. calls
       /\ \A d \in decided : d.no # no[t]
       /\ \A u \in Threads : Pending(u) /\ no[u] = no[t] => u = t
  /\ \A d, e \in decided : d.no = e.no => d = e
  /\ \A d \in decided : d.no \in 1 .. calls
  /\ IsFiniteSet(decided)
  /\ \A s \in Slots : requests[s] <= Cardinality(decided)

LimitIsNat == rl_max_requests \in Nat /\ rl_window_sec \in Nat

\* The limit, cut to eight bits, is a number.
LEMMA LimitType == LimitIsNat
<1>1. \A a \in Nat, b \in Nat \ {0} : a % b \in Nat
  OBVIOUS
<1>2. QED
  BY <1>1, RateLimiterAssumption DEF LimitIsNat, rl_max_requests, rl_window_sec

\* A count taken modulo U32 fits the uint32_t that holds it.
LEMMA WrapType == ASSUME NEW n \in Nat PROVE n % U32 \in 0 .. (U32 - 1)
<1>1. \A a \in Nat, b \in Nat \ {0} : a % b \in 0 .. (b - 1)
  OBVIOUS
<1>2. U32 \in Nat \ {0}
  BY RateLimiterAssumption
<1>3. QED
  BY <1>1, <1>2

\* A step keeps the type of every variable.
LEMMA TypeStep ==
  ASSUME TypeOK, MutexInv, CallsInv, [Next]_vars
  PROVE  TypeOK'
<1>1. CASE Tick
  BY <1>1, RateLimiterAssumption DEF Tick, TypeOK
<1>2. CASE SetBack
  BY <1>2 DEF SetBack, TypeOK
<1>3. ASSUME NEW t \in Threads, NEW addr \in Ips, Call(t, addr) PROVE TypeOK'
  BY <1>3, RateLimiterAssumption DEF Call, TypeOK
<1>4. ASSUME NEW t \in Threads, Lock(t) PROVE TypeOK'
  BY <1>4 DEF Lock, TypeOK
<1>5. ASSUME NEW t \in Threads, Claim(t) PROVE TypeOK'
  <2>1. 0 \in 0 .. (U32 - 1)
    BY RateLimiterAssumption
  <2>2. QED
    BY <1>5, <2>1 DEF Claim, TypeOK
<1>6. ASSUME NEW t \in Threads, Count(t) PROVE TypeOK'
  <2>1. ip[t] \in Ips /\ Slot(t) \in Slots /\ no[t] \in 1 .. MaxCalls
    BY <1>6, RateLimiterAssumption DEF Count, Slot, MutexInv, CallsInv, TypeOK
  <2>2. Counted(t) \in 0 .. (U32 - 1)
    <3>1. (IF Expired(t) THEN 0 ELSE requests[Slot(t)]) \in Nat
      BY <2>1 DEF TypeOK
    <3>2. QED
      BY <3>1, WrapType DEF Counted
  <2>3. PICK v \in {"next", "out"} :
          /\ verdict' = [verdict EXCEPT ![t] = v]
          /\ decided' = decided \cup {[no |-> no[t], ip |-> ip[t], at |-> elapsed, v |-> v]}
    BY <1>6 DEF Count
  <2>4. [no |-> no[t], ip |-> ip[t], at |-> elapsed, v |-> v] \in Decisions
    BY <2>1 DEF Decisions, TypeOK
  <2>5. QED
    BY <1>6, <2>1, <2>2, <2>3, <2>4 DEF Count, Unlocked, TypeOK
<1>7. CASE UNCHANGED vars
  BY <1>7 DEF vars, TypeOK
<1>8. QED
  BY <1>1, <1>2, <1>3, <1>4, <1>5, <1>6, <1>7 DEF Next, Step

\* A step keeps one thread at a time at the table: the others wait for the mutex
\* and a claimed slot stays claimed until its thread has counted.
LEMMA MutexStep ==
  ASSUME TypeOK, MutexInv, [Next]_vars
  PROVE  MutexInv'
<1> USE DEF Pending
<1>1. CASE Tick \/ SetBack \/ UNCHANGED vars
  BY <1>1 DEF Tick, SetBack, vars, MutexInv, Slot
<1>2. ASSUME NEW t \in Threads, NEW addr \in Ips, Call(t, addr) PROVE MutexInv'
  BY <1>2 DEF Call, MutexInv, Slot, TypeOK
<1>3. ASSUME NEW t \in Threads, Lock(t) PROVE MutexInv'
  BY <1>3, RateLimiterAssumption DEF Lock, MutexInv, Slot, TypeOK
<1>4. ASSUME NEW t \in Threads, Claim(t) PROVE MutexInv'
  <2>1. mutex = t /\ ip[t] \in Ips /\ Slot(t) \in Slots /\ pc[t] = "claim"
    BY <1>4, RateLimiterAssumption DEF Claim, MutexInv, Slot
  <2>2. slotIp'[Slot(t)] = ip[t]
    BY <1>4, <2>1 DEF Claim, TypeOK
  <2>3. pc' = [pc EXCEPT ![t] = "count"] /\ UNCHANGED <<mutex, verdict, ip>>
    BY <1>4 DEF Claim
  <2>4. ASSUME NEW u \in Threads, u # t PROVE pc'[u] = pc[u] /\ pc[u] \notin {"claim", "count"}
    BY <2>1, <2>3, <2>4 DEF MutexInv, TypeOK
  <2>5. QED
    BY <2>1, <2>2, <2>3, <2>4 DEF MutexInv, Slot, TypeOK
<1>5. ASSUME NEW t \in Threads, Count(t) PROVE MutexInv'
  <2>1. /\ mutex = t /\ pc' = [pc EXCEPT ![t] = "idle"]
        /\ \E v \in {"next", "out"} : verdict' = [verdict EXCEPT ![t] = v]
        /\ UNCHANGED <<ip, slotIp>>
    BY <1>5 DEF Count, MutexInv
  <2>2. ASSUME NEW u \in Threads, u # t PROVE pc[u] \notin {"claim", "count"}
    BY <2>1, <2>2 DEF MutexInv
  <2>3. QED
    BY <2>1, <2>2 DEF MutexInv, Slot, TypeOK
<1>6. QED
  BY <1>1, <1>2, <1>3, <1>4, <1>5 DEF Next, Step

\* A step counts at most one request more, and only for a new decision.
LEMMA CallsStep ==
  ASSUME TypeOK, MutexInv, CallsInv, [Next]_vars
  PROVE  CallsInv'
<1>1. CASE Tick \/ SetBack \/ UNCHANGED vars
  BY <1>1 DEF Tick, SetBack, vars, CallsInv, Pending
<1>2. ASSUME NEW t \in Threads, NEW addr \in Ips, Call(t, addr) PROVE CallsInv'
  <2>1. /\ calls' = calls + 1 /\ calls \in Nat
        /\ no' = [no EXCEPT ![t] = calls + 1] /\ verdict' = [verdict EXCEPT ![t] = "pending"]
        /\ UNCHANGED <<decided, requests>>
    BY <1>2 DEF Call, TypeOK
  <2>2. \A d \in decided : d.no \in 1 .. calls
    BY DEF CallsInv
  <2>3. \A u \in Threads : u # t => no'[u] = no[u] /\ (Pending(u)' <=> Pending(u))
    BY <2>1 DEF TypeOK, Pending
  <2>4. no'[t] = calls + 1
    BY <2>1 DEF TypeOK
  <2>5. \A u \in Threads : Pending(u) => no[u] \in 1 .. calls
    BY DEF CallsInv
  <2>6. \A u \in Threads : Pending(u)' =>
          /\ no'[u] \in 1 .. calls'
          /\ \A d \in decided' : d.no # no'[u]
          /\ \A w \in Threads : Pending(w)' /\ no'[w] = no'[u] => w = u
    BY <2>1, <2>2, <2>3, <2>4, <2>5 DEF CallsInv
  <2>7. QED
    BY <2>1, <2>2, <2>6 DEF CallsInv
<1>3. ASSUME NEW t \in Threads, Lock(t) PROVE CallsInv'
  BY <1>3 DEF Lock, CallsInv, Pending
<1>4. ASSUME NEW t \in Threads, Claim(t) PROVE CallsInv'
  <2>1. Cardinality(decided) \in Nat
    BY FS_CardinalityType DEF CallsInv
  <2>2. /\ \A s \in Slots : requests'[s] \in {0, requests[s]}
        /\ UNCHANGED <<calls, no, decided, verdict>>
    BY <1>4 DEF Claim, TypeOK
  <2>3. \A s \in Slots : requests'[s] <= Cardinality(decided)
    BY <2>1, <2>2 DEF CallsInv
  <2>4. QED
    BY <2>2, <2>3 DEF CallsInv, Pending
<1>5. ASSUME NEW t \in Threads, Count(t) PROVE CallsInv'
  <2>1. PICK v \in {"next", "out"} :
          /\ verdict' = [verdict EXCEPT ![t] = v]
          /\ decided' = decided \cup {[no |-> no[t], ip |-> ip[t], at |-> elapsed, v |-> v]}
    BY <1>5 DEF Count
  <2> DEFINE new == [no |-> no[t], ip |-> ip[t], at |-> elapsed, v |-> v]
  <2>2. Pending(t) /\ ip[t] \in Ips /\ Slot(t) \in Slots
    BY <1>5, RateLimiterAssumption DEF Count, MutexInv, Slot
  <2>3. new \notin decided /\ new.no = no[t]
    BY <2>2 DEF CallsInv
  <2>4. /\ IsFiniteSet(decided') /\ Cardinality(decided) \in Nat
        /\ Cardinality(decided') = Cardinality(decided) + 1
    BY <2>1, <2>3, FS_AddElement, FS_CardinalityType DEF CallsInv
  <2>5. Counted(t) <= Cardinality(decided')
    <3>1. PICK r \in Nat : r <= Cardinality(decided) /\ Counted(t) = (r + 1) % U32
      BY <2>2, <2>4 DEF Counted, CallsInv, TypeOK
    <3>2. \A a \in Nat, b \in Nat \ {0} : a % b <= a
      OBVIOUS
    <3>3. (r + 1) % U32 <= r + 1
      BY <3>2, RateLimiterAssumption
    <3>4. (r + 1) % U32 \in Nat
      BY WrapType
    <3>5. QED
      BY <2>4, <3>1, <3>3, <3>4
  <2>6. \A s \in Slots : requests'[s] <= Cardinality(decided')
    <3>1. \A s \in Slots : requests'[s] = IF s = Slot(t) THEN Counted(t) ELSE requests[s]
      BY <1>5, <2>2 DEF Count, TypeOK
    <3>2. \A s \in Slots : requests[s] \in Nat /\ requests[s] <= Cardinality(decided)
      BY DEF CallsInv, TypeOK
    <3>3. QED
      BY <2>4, <2>5, <3>1, <3>2
  <2>7. UNCHANGED <<calls, no>>
    BY <1>5 DEF Count
  <2>8. \A u \in Threads : Pending(u)' => Pending(u) /\ u # t
    BY <2>1 DEF Pending, TypeOK
  <2>9. \A u \in Threads : Pending(u)' =>
          /\ no'[u] \in 1 .. calls'
          /\ \A d \in decided' : d.no # no'[u]
          /\ \A w \in Threads : Pending(w)' /\ no'[w] = no'[u] => w = u
    BY <2>1, <2>2, <2>3, <2>7, <2>8 DEF CallsInv
  <2>10. /\ \A d, e \in decided' : d.no = e.no => d = e
         /\ \A d \in decided' : d.no \in 1 .. calls'
    BY <2>1, <2>2, <2>3, <2>7 DEF CallsInv
  <2>11. QED
    BY <2>4, <2>6, <2>9, <2>10 DEF CallsInv
<1>6. QED
  BY <1>1, <1>2, <1>3, <1>4, <1>5 DEF Next, Step

\* The inductive invariant: types, who is inside the mutex, and that no counter
\* exceeds the number of requests there have been.
LEMMA Invariant == Spec => [](TypeOK /\ MutexInv /\ CallsInv)
<1>1. Init => TypeOK /\ MutexInv /\ CallsInv
  <2> SUFFICES ASSUME Init PROVE TypeOK /\ MutexInv /\ CallsInv
    OBVIOUS
  <2>1. TypeOK /\ MutexInv
    BY RateLimiterAssumption DEF Init, TypeOK, MutexInv, Pending
  <2>2. IsFiniteSet(decided) /\ Cardinality(decided) = 0
    BY FS_EmptySet DEF Init
  <2>3. CallsInv
    BY <2>2 DEF Init, CallsInv, Pending
  <2>4. QED
    BY <2>1, <2>3
<1>2. TypeOK /\ MutexInv /\ CallsInv /\ [Next]_vars => (TypeOK /\ MutexInv /\ CallsInv)'
  BY TypeStep, MutexStep, CallsStep
<1>3. QED
  BY <1>1, <1>2, PTL DEF Spec

\* No slot ever counts so many requests that the count wraps.
LEMMA CountIsExact ==
  ASSUME TypeOK, MutexInv, CallsInv, TypeOK', CallsInv', NEW t \in Threads, Count(t)
  PROVE  Counted(t) = (IF Expired(t) THEN 0 ELSE requests[Slot(t)]) + 1
<1> DEFINE r == IF Expired(t) THEN 0 ELSE requests[Slot(t)]
<1>1. Slot(t) \in Slots /\ Pending(t) /\ requests[Slot(t)] \in Nat
  BY RateLimiterAssumption DEF Count, MutexInv, Slot, TypeOK
<1>2. PICK d : d \notin decided /\ decided' = decided \cup {d} /\ decided' \subseteq Decisions /\ d.no = no[t]
  <2>1. PICK v \in {"next", "out"} :
          decided' = decided \cup {[no |-> no[t], ip |-> ip[t], at |-> elapsed, v |-> v]}
    BY DEF Count
  <2>2. [no |-> no[t], ip |-> ip[t], at |-> elapsed, v |-> v].no = no[t]
    OBVIOUS
  <2>3. \A e \in decided : e.no # no[t]
    BY <1>1 DEF CallsInv
  <2>4. QED
    BY <2>1, <2>2, <2>3 DEF TypeOK
<1>3. /\ Cardinality(decided) \in Nat /\ Cardinality(decided') = Cardinality(decided) + 1
      /\ Cardinality(decided') \in Nat
  BY <1>2, FS_AddElement, FS_CardinalityType DEF CallsInv
<1>4. Cardinality(decided') <= MaxCalls
  <2> DEFINE f == [x \in decided' |-> x.no]
  <2>1. f \in Injection(decided', 1 .. MaxCalls)
    <3>1. \A x \in decided' : x.no \in 1 .. MaxCalls
      BY DEF TypeOK, Decisions
    <3>2. \A x, e \in decided' : x.no = e.no => x = e
      BY DEF CallsInv
    <3>3. QED
      BY <3>1, <3>2 DEF Injection, IsInjective
  <2>2. IsFiniteSet(1 .. MaxCalls) /\ Cardinality(1 .. MaxCalls) = MaxCalls
    BY FS_Interval, RateLimiterAssumption
  <2>3. QED
    BY <2>1, <2>2, FS_Injection
<1>5. r \in Nat /\ r + 1 < U32
  BY <1>1, <1>3, <1>4, RateLimiterAssumption DEF CallsInv
<1>6. \A m \in Nat, b \in Nat \ {0} : m < b => m % b = m
  OBVIOUS
<1>7. QED
  BY <1>5, <1>6, RateLimiterAssumption DEF Counted

\* Every variable keeps its type, with shared slots and with a clock that is
\* set back.
THEOREM TypeCorrect == Spec => []TypeOK
BY Invariant, PTL

-----------------------------------------------------------------------------
(***************************************************************************)
(* The refinement.  It needs a slot for every client, and a clock that is  *)
(* not set back: then a window never starts in the future.                 *)
(***************************************************************************)

OwnSlot == \A a, b \in Ips : Hash[a] = Hash[b] => a = b

StartInv == \A s \in Slots : start[s] <= wall

\* Where the clock only advances, every window started in the past.
LEMMA StartsInThePast ==
  ASSUME ClockBack = FALSE
  PROVE  Spec => []StartInv
<1>1. Init => StartInv
  BY DEF Init, StartInv
<1>2. TypeOK /\ StartInv /\ [Next]_vars => StartInv'
  BY DEF TypeOK, StartInv, Next, Step, vars, Tick, SetBack, Call, Lock, Claim, Count
<1>3. QED
  BY <1>1, <1>2, TypeCorrect, PTL DEF Spec

CountBar  == [a \in Ips |-> IF slotIp[Hash[a]] = a THEN requests[Hash[a]] ELSE 0]
OpenedBar == [a \in Ips |-> IF slotIp[Hash[a]] = a /\ requests[Hash[a]] > 0
                            THEN start[Hash[a]] ELSE 0]

\* Taking a slot over changes nothing a client could tell: it had counted nothing
\* for the new owner, and no other client uses it.
LEMMA ClaimIsInvisible ==
  ASSUME OwnSlot, TypeOK, MutexInv, NEW t \in Threads, Claim(t)
  PROVE  CountBar' = CountBar /\ OpenedBar' = OpenedBar
<1>1. ip[t] \in Ips /\ Slot(t) = Hash[ip[t]] /\ Slot(t) \in Slots
  BY RateLimiterAssumption DEF Claim, MutexInv, Slot
<1>2. CASE slotIp[Slot(t)] = ip[t]
  BY <1>2 DEF Claim, CountBar, OpenedBar
<1>3. CASE slotIp[Slot(t)] # ip[t]
  <2>1. /\ slotIp' = [slotIp EXCEPT ![Slot(t)] = ip[t]]
        /\ start' = [start EXCEPT ![Slot(t)] = wall]
        /\ requests' = [requests EXCEPT ![Slot(t)] = 0]
    BY <1>3 DEF Claim
  <2>2. ASSUME NEW a \in Ips PROVE CountBar'[a] = CountBar[a] /\ OpenedBar'[a] = OpenedBar[a]
    <3>1. CASE a = ip[t]
      BY <1>1, <1>3, <2>1, <3>1 DEF CountBar, OpenedBar, TypeOK
    <3>2. CASE a # ip[t]
      <4>1. Hash[a] # Slot(t) /\ Hash[a] \in Slots
        BY <1>1, <3>2, RateLimiterAssumption DEF OwnSlot
      <4>2. QED
        BY <2>1, <4>1 DEF CountBar, OpenedBar, TypeOK
    <3>3. QED
      BY <3>1, <3>2
  <2>3. QED
    BY <2>2 DEF CountBar, OpenedBar
<1>4. QED
  BY <1>2, <1>3

\* The second half of the critical section is the decision on the request.
LEMMA CountDecides ==
  ASSUME OwnSlot, TypeOK, MutexInv, CallsInv, StartInv, TypeOK', CallsInv',
         NEW t \in Threads, Count(t)
  PROVE  Quota!Decide(t)
<1> DEFINE a == ip[t]
<1>1. /\ a \in Ips /\ Slot(t) = Hash[a] /\ Slot(t) \in Slots /\ slotIp[Slot(t)] = a
      /\ Pending(t) /\ requests[Slot(t)] \in Nat /\ start[Slot(t)] \in Nat /\ wall \in Nat
      /\ start[Slot(t)] <= wall
  BY RateLimiterAssumption DEF Count, MutexInv, Slot, TypeOK, StartInv
<1> DEFINE r == IF Expired(t) THEN 0 ELSE requests[Slot(t)]
<1>2. Counted(t) = r + 1
  BY CountIsExact
<1>3. /\ start' = IF Expired(t) THEN [start EXCEPT ![Slot(t)] = wall] ELSE start
      /\ requests' = [requests EXCEPT ![Slot(t)] = r + 1]
      /\ verdict' = [verdict EXCEPT ![t] = IF r + 1 > rl_max_requests THEN "out" ELSE "next"]
      /\ UNCHANGED <<wall, ip, slotIp>>
  BY <1>2 DEF Count
<1>4. /\ CountBar[a] = requests[Slot(t)]
      /\ OpenedBar[a] = IF requests[Slot(t)] > 0 THEN start[Slot(t)] ELSE 0
      /\ CountBar'[a] = r + 1
      /\ OpenedBar'[a] = start'[Slot(t)]
  <2>1. /\ CountBar[a] = requests[Slot(t)]
        /\ OpenedBar[a] = IF requests[Slot(t)] > 0 THEN start[Slot(t)] ELSE 0
    BY <1>1 DEF CountBar, OpenedBar
  <2>2. requests'[Slot(t)] = r + 1 /\ r + 1 > 0 /\ ip'[t] = a
    BY <1>1, <1>3 DEF TypeOK
  <2>3. slotIp'[Hash[a]] = a /\ requests'[Hash[a]] = r + 1 /\ r + 1 > 0
    BY <1>1, <1>3, <2>2
  <2>4. CountBar'[a] = r + 1 /\ OpenedBar'[a] = start'[Slot(t)]
    BY <1>1, <2>3 DEF CountBar, OpenedBar
  <2>5. QED
    BY <2>1, <2>4
<1>5. ASSUME NEW b \in Ips, b # a PROVE CountBar'[b] = CountBar[b] /\ OpenedBar'[b] = OpenedBar[b]
  <2>1. Hash[b] # Slot(t) /\ Hash[b] \in Slots
    BY <1>1, <1>5, RateLimiterAssumption DEF OwnSlot
  <2>2. QED
    BY <1>3, <2>1 DEF CountBar, OpenedBar, TypeOK
<1>6. /\ CountBar' = [CountBar EXCEPT ![a] = r + 1]
      /\ OpenedBar' = [OpenedBar EXCEPT ![a] = start'[Slot(t)]]
  <2>1. /\ CountBar = [b \in Ips |-> CountBar[b]] /\ OpenedBar = [b \in Ips |-> OpenedBar[b]]
        /\ CountBar' = [b \in Ips |-> CountBar'[b]] /\ OpenedBar' = [b \in Ips |-> OpenedBar'[b]]
    BY DEF CountBar, OpenedBar
  <2> HIDE DEF a, r
  <2>2. CountBar' = [CountBar EXCEPT ![a] = r + 1]
    BY <1>1, <1>4, <1>5, <2>1
  <2>3. OpenedBar' = [OpenedBar EXCEPT ![a] = start'[Slot(t)]]
    BY <1>1, <1>4, <1>5, <2>1
  <2>4. QED
    BY <2>2, <2>3
<1>7. Quota!Open(a) <=> requests[Slot(t)] > 0 /\ ~Expired(t)
  <2>1. Quota!Open(a) <=> CountBar[a] > 0 /\ wall - OpenedBar[a] < rl_window_sec
    BY DEF Quota!Open, CountBar, OpenedBar
  <2>2. QED
    BY <1>1, <1>4, <2>1, LimitType DEF Expired, LimitIsNat
<1>8. CASE Quota!Open(a)
  <2>1. r = requests[Slot(t)] /\ start' = start /\ OpenedBar[a] = start[Slot(t)]
    BY <1>1, <1>3, <1>4, <1>7, <1>8
  <2>2. CountBar' = [CountBar EXCEPT ![a] = CountBar[a] + 1] /\ OpenedBar' = OpenedBar
    BY <1>4, <1>6, <2>1 DEF OpenedBar
  <2>3. QED
    BY <1>1, <1>3, <1>4, <1>8, <2>2 DEF Quota!Decide, CountBar, OpenedBar, Pending
<1>9. CASE ~Quota!Open(a)
  <2>1. r = 0 /\ start'[Slot(t)] \in {wall} \cup ((wall - rl_window_sec + 1) .. wall)
    <3>1. CASE Expired(t)
      BY <1>1, <1>3, <3>1 DEF TypeOK
    <3>2. CASE ~Expired(t)
      BY <1>1, <1>3, <1>7, <1>9, <3>2, LimitType DEF Expired, LimitIsNat
    <3>3. QED
      BY <3>1, <3>2
  <2>2. CountBar' = [CountBar EXCEPT ![a] = 1]
    <3>1. r + 1 = 1
      BY <2>1
    <3>2. QED
      BY <1>6, <3>1
  <2>3. QED
    BY <1>1, <1>3, <1>4, <1>6, <1>9, <2>1, <2>2 DEF Quota!Decide, CountBar, OpenedBar, Pending
<1>10. QED
  BY <1>8, <1>9

\* Where no two clients share a slot and the clock is not set back, the table
\* under its mutex implements one window per client, decided on in one step: for
\* any number of threads and clients, any limit and any window.
THEOREM TableImplementsQuota ==
  ASSUME OwnSlot, ClockBack = FALSE
  PROVE  Spec => ImplementsQuota
<1>1. Init => Quota!Init
  BY RateLimiterAssumption DEF Init, Quota!Init
<1>2. ASSUME TypeOK, MutexInv, CallsInv, StartInv, [Next]_vars, TypeOK', CallsInv'
      PROVE  [Quota!Next]_(Quota!vars)
  <2>1. CASE Tick
    BY <2>1 DEF Tick, Quota!Next, Quota!Tick
  <2>2. ~SetBack
    BY DEF SetBack
  <2>3. ASSUME NEW t \in Threads, NEW addr \in Ips, Call(t, addr) PROVE Quota!Call(t, addr)
    BY <1>2, <2>3 DEF Call, Quota!Call, MutexInv, Pending
  <2>4. ASSUME NEW t \in Threads, Lock(t) PROVE UNCHANGED Quota!vars
    BY <2>4 DEF Lock, Quota!vars
  <2>5. ASSUME NEW t \in Threads, Claim(t) PROVE UNCHANGED Quota!vars
    BY <1>2, <2>5, ClaimIsInvisible DEF Claim, Quota!vars, CountBar, OpenedBar
  <2>6. ASSUME NEW t \in Threads, Count(t) PROVE Quota!Decide(t)
    BY <1>2, <2>6, CountDecides
  <2>7. CASE UNCHANGED vars
    BY <2>7 DEF vars, Quota!vars
  <2>8. QED
    BY <1>2, <2>1, <2>2, <2>3, <2>4, <2>5, <2>6, <2>7 DEF Next, Step, Quota!Next
<1>3. QED
  BY <1>1, <1>2, Invariant, StartsInThePast, PTL DEF Spec, ImplementsQuota, Quota!Spec

-----------------------------------------------------------------------------
(***************************************************************************)
(* Nobody is refused early: whatever the hash and whoever takes a slot     *)
(* over, as long as the clock has not been set back and the arguments fit  *)
(* the types they are kept in.                                             *)
(***************************************************************************)

ArgumentsFit == ArgMax < U8 /\ ArgWindow < U16

\* A clock that was set back once stays behind for ever.
WallInv == wall <= elapsed

PassedIn(D, addr, from, to) == {d \in D : d.v = "next" /\ d.ip = addr /\ d.at \in from .. to}

\* A slot has counted no more requests of its owner than have passed since the
\* window began, except when it stands at the limit.
CountsPassed(s) ==
  LET n == Cardinality(Passed(slotIp[s], start[s], elapsed)) IN
    start[s] <= elapsed /\ (requests[s] <= n \/ ArgMax <= n)

WindowInv == ClockKept => \A s \in Slots : slotIp[s] \in Ips => CountsPassed(s)

\* Arguments that fit are kept as they are.
LEMMA LimitIsArgument ==
  ASSUME ArgumentsFit
  PROVE  rl_max_requests = ArgMax /\ rl_window_sec = ArgWindow
<1>1. \A m \in Nat, b \in Nat \ {0} : m < b => m % b = m
  OBVIOUS
<1>2. QED
  BY <1>1, RateLimiterAssumption DEF ArgumentsFit, rl_max_requests, rl_window_sec

\* More decisions, and a longer span, hold no fewer requests that passed.
LEMMA PassedGrows ==
  ASSUME NEW D, NEW E, IsFiniteSet(E), D \subseteq E, \A d \in D : d.at \in Int,
         NEW addr, NEW f \in Int, NEW g \in Int, NEW to \in Int, NEW u \in Int,
         g <= f, to <= u
  PROVE  /\ Cardinality(PassedIn(D, addr, f, to)) \in Nat
         /\ Cardinality(PassedIn(E, addr, g, u)) \in Nat
         /\ Cardinality(PassedIn(D, addr, f, to)) <= Cardinality(PassedIn(E, addr, g, u))
<1>1. PassedIn(D, addr, f, to) \subseteq PassedIn(E, addr, g, u)
  BY DEF PassedIn
<1>2. IsFiniteSet(PassedIn(E, addr, g, u))
  BY FS_Subset DEF PassedIn
<1>3. IsFiniteSet(PassedIn(D, addr, f, to))
  BY <1>1, <1>2, FS_Subset
<1>4. QED
  BY <1>1, <1>2, <1>3, FS_Subset, FS_CardinalityType

\* Only Count decides, and it adds what it decided to what was decided before.
LEMMA DecidedGrows ==
  ASSUME TypeOK, TypeOK', CallsInv, CallsInv', [Next]_vars
  PROVE  /\ decided \subseteq decided' /\ IsFiniteSet(decided) /\ IsFiniteSet(decided')
         /\ \A d \in decided : d.at \in Int
<1>1. decided \subseteq decided'
  BY DEF Next, Step, vars, Tick, SetBack, Call, Lock, Claim, Count
<1>2. QED
  BY <1>1 DEF CallsInv, TypeOK, Decisions

\* The wall clock never runs ahead of the time that has passed.
LEMMA WallStep == ASSUME TypeOK, WallInv, [Next]_vars PROVE WallInv' /\ (ClockKept' => ClockKept)
<1>1. elapsed \in Nat /\ wall \in Nat
  BY RateLimiterAssumption DEF TypeOK
<1>2. CASE Tick
  BY <1>1, <1>2 DEF Tick, WallInv, ClockKept
<1>3. CASE SetBack
  <2>1. PICK w \in 0 .. (wall - 1) : wall' = w
    BY <1>3 DEF SetBack
  <2>2. elapsed' = elapsed
    BY <1>3 DEF SetBack
  <2>3. QED
    BY <1>1, <2>1, <2>2 DEF WallInv, ClockKept
<1>4. CASE UNCHANGED <<elapsed, wall>>
  BY <1>4 DEF WallInv, ClockKept
<1>5. QED
  BY <1>2, <1>3, <1>4 DEF Next, Step, vars, Call, Lock, Claim, Count

\* A slot that keeps its owner and its count still counts what has passed.
LEMMA SlotKept ==
  ASSUME TypeOK, TypeOK', CallsInv, CallsInv', [Next]_vars, NEW s \in Slots,
         elapsed <= elapsed', CountsPassed(s),
         slotIp'[s] = slotIp[s], start'[s] = start[s], requests'[s] = requests[s]
  PROVE  CountsPassed(s)'
<1> DEFINE n == Cardinality(PassedIn(decided, slotIp[s], start[s], elapsed))
           m == Cardinality(PassedIn(decided', slotIp[s], start[s], elapsed'))
<1>1. /\ start[s] \in Int /\ requests[s] \in Int /\ ArgMax \in Int
      /\ elapsed \in Int /\ elapsed' \in Int
  BY RateLimiterAssumption DEF TypeOK
<1>2. n \in Nat /\ m \in Nat /\ n <= m
  BY <1>1, DecidedGrows, PassedGrows
<1>3. start[s] <= elapsed /\ (requests[s] <= n \/ ArgMax <= n)
  BY DEF CountsPassed, Passed, PassedIn
<1> HIDE DEF n, m
<1>4. PICK e \in Int : e = elapsed'
  BY <1>1
<1>5. start[s] <= e /\ (requests[s] <= m \/ ArgMax <= m)
  BY <1>1, <1>2, <1>3, <1>4
<1> USE DEF m
<1>6. CountsPassed(s)' <=> start'[s] <= elapsed' /\ (requests'[s] <= m \/ ArgMax <= m)
  BY DEF CountsPassed, Passed, PassedIn
<1>7. QED
  BY <1>4, <1>5, <1>6

\* What Count does to the slot and to the history: the slot still counts what has
\* passed, and a refusal finds the limit reached within the window.
LEMMA CountIsFair ==
  ASSUME ArgumentsFit, TypeOK, TypeOK', MutexInv, CallsInv, CallsInv', ClockKept,
         NEW t \in Threads, Count(t), CountsPassed(Slot(t))
  PROVE  /\ CountsPassed(Slot(t))'
         /\ \E v \in {"next", "out"} :
              /\ decided' = decided \cup {[no |-> no[t], ip |-> ip[t], at |-> elapsed, v |-> v]}
              /\ v = "out" =>
                   Cardinality(Passed(ip[t], elapsed - ArgWindow + 1, elapsed)') >= ArgMax
<1> DEFINE a == ip[t]
           s == Slot(t)
           v == IF Counted(t) > ArgMax THEN "out" ELSE "next"
           new == [no |-> no[t], ip |-> a, at |-> elapsed, v |-> v]
           old == PassedIn(decided, a, start[s], elapsed)
           now == PassedIn(decided', a, start'[s], elapsed)
           span == PassedIn(decided', a, elapsed - ArgWindow + 1, elapsed)
           n == Cardinality(old)
           m == Cardinality(now)
           k == Cardinality(span)
<1>1. /\ s \in Slots /\ slotIp[s] = a /\ start[s] \in Nat /\ requests[s] \in Nat
      /\ elapsed \in Nat /\ wall = elapsed /\ ArgMax \in Nat /\ ArgWindow \in Nat
      /\ Pending(t)
  BY RateLimiterAssumption DEF Count, MutexInv, Slot, TypeOK, ClockKept
<1>2. start[s] <= elapsed /\ (requests[s] <= n \/ ArgMax <= n)
  BY <1>1 DEF CountsPassed, Passed, PassedIn
<1>3. /\ decided' = decided \cup {new} /\ slotIp' = slotIp /\ elapsed' = elapsed
      /\ start' = IF Expired(t) THEN [start EXCEPT ![s] = wall] ELSE start
      /\ requests' = [requests EXCEPT ![s] = Counted(t)]
  BY LimitIsArgument DEF Count
<1>4. Counted(t) = (IF Expired(t) THEN 0 ELSE requests[s]) + 1
  BY CountIsExact
<1>5. start'[s] \in Nat /\ requests'[s] = Counted(t) /\ start'[s] <= elapsed
      /\ start'[s] = IF Expired(t) THEN elapsed ELSE start[s]
  BY <1>1, <1>2, <1>3 DEF TypeOK
<1>6. /\ IsFiniteSet(decided) /\ IsFiniteSet(decided') /\ decided \subseteq decided'
      /\ \A d \in decided' : d.at \in Int
  BY <1>3 DEF CallsInv, TypeOK, Decisions
<1>7. n \in Nat /\ IsFiniteSet(old) /\ m \in Nat /\ IsFiniteSet(now) /\ k \in Nat
  <2>1. IsFiniteSet(old) /\ IsFiniteSet(now) /\ IsFiniteSet(span)
    BY <1>6, FS_Subset DEF PassedIn
  <2>2. QED
    BY <2>1, FS_CardinalityType
<1>8. ~Expired(t) => n <= m /\ n <= k
  <2>1. ASSUME ~Expired(t) PROVE start'[s] = start[s] /\ elapsed - ArgWindow + 1 <= start[s]
    BY <1>1, <1>5, <2>1, LimitIsArgument DEF Expired
  <2>2. ASSUME ~Expired(t) PROVE n <= m /\ n <= k
    BY <1>1, <1>6, <2>1, <2>2, PassedGrows
  <2>3. QED
    BY <2>2
<1>9. new \notin decided /\ new.no = no[t] /\ new.ip = a /\ new.at = elapsed /\ new.v = v
  BY <1>1 DEF CallsInv
<1>10. v = "next" => new \in now /\ new \notin old
  BY <1>1, <1>3, <1>5, <1>9 DEF PassedIn
<1>11. v = "next" /\ Expired(t) => 1 <= m
  <2>1. ASSUME now = {} PROVE ~(v = "next")
    BY <1>10, <2>1
  <2>2. m = 0 => now = {}
    BY <1>7, FS_EmptySet
  <2>3. QED
    BY <1>7, <2>1, <2>2
<1>12. v = "next" /\ ~Expired(t) => n + 1 <= m
  <2>1. ASSUME v = "next", ~Expired(t) PROVE old \cup {new} \subseteq now
    BY <1>3, <1>5, <1>10, <2>1 DEF PassedIn
  <2>2. v = "next" => Cardinality(old \cup {new}) = n + 1 /\ IsFiniteSet(old \cup {new})
    BY <1>7, <1>10, FS_AddElement
  <2>3. ASSUME v = "next", ~Expired(t) PROVE n + 1 <= m
    BY <1>7, <2>1, <2>2, <2>3, FS_Subset
  <2>4. QED
    BY <2>3
<1>13. v = IF Counted(t) > ArgMax THEN "out" ELSE "next"
  OBVIOUS
<1>14. CountsPassed(s)' <=> start'[s] <= elapsed /\ (requests'[s] <= m \/ ArgMax <= m)
  BY <1>1, <1>3 DEF CountsPassed, Passed, PassedIn, Slot, Count
<1>15. Passed(a, elapsed - ArgWindow + 1, elapsed)' = span
  BY <1>3 DEF Passed, PassedIn, Count
<1> HIDE DEF v, n, m, k, old, now, span, new, a, s
<1>16. (Counted(t) <= m \/ ArgMax <= m) /\ (v = "out" => ArgMax <= k)
  <2>1. PICK c \in Nat : c = Counted(t)
    BY <1>1, <1>4
  <2>2. CASE Expired(t)
    BY <1>1, <1>4, <1>7, <1>11, <1>13, <2>1, <2>2
  <2>3. CASE ~Expired(t)
    BY <1>1, <1>2, <1>4, <1>7, <1>8, <1>12, <1>13, <2>1, <2>3
  <2>4. QED
    BY <2>2, <2>3
<1>17. v \in {"next", "out"}
  BY <1>13
<1>18. CountsPassed(s)'
  BY <1>5, <1>14, <1>16
<1> USE DEF a, s, new, k
<1>19. QED
  BY <1>3, <1>15, <1>16, <1>17, <1>18

\* A step that decides nothing and changes no slot refuses nobody.
LEMMA QuietStep ==
  ASSUME TypeOK, TypeOK', CallsInv, CallsInv', [Next]_vars, elapsed <= elapsed',
         WindowInv, NoFalseRefusal, ClockKept' => ClockKept,
         UNCHANGED <<slotIp, start, requests, decided>>
  PROVE  WindowInv' /\ NoFalseRefusal'
<1>1. WindowInv'
  <2>1. ASSUME NEW s \in Slots, CountsPassed(s) PROVE CountsPassed(s)'
    BY <2>1, SlotKept
  <2>2. QED
    BY <2>1 DEF WindowInv
<1>2. NoFalseRefusal'
  BY DEF NoFalseRefusal, Passed
<1>3. QED
  BY <1>1, <1>2

\* Every step keeps what each slot has counted true of what has passed.
LEMMA RefusalStep ==
  ASSUME ArgumentsFit, TypeOK, TypeOK', MutexInv, CallsInv, CallsInv', [Next]_vars,
         WallInv, WindowInv, NoFalseRefusal
  PROVE  WindowInv' /\ NoFalseRefusal'
<1>1. ClockKept' => ClockKept
  BY WallStep
<1>2. elapsed \in Nat /\ elapsed' \in Nat /\ ArgMax \in Nat /\ ArgWindow \in Nat
  BY RateLimiterAssumption DEF TypeOK
<1>3. CASE Tick
  BY <1>1, <1>2, <1>3, QuietStep DEF Tick
<1>4. CASE SetBack \/ UNCHANGED vars
  BY <1>1, <1>2, <1>4, QuietStep DEF SetBack, vars
<1>5. ASSUME NEW t \in Threads, NEW addr \in Ips, Call(t, addr) PROVE WindowInv' /\ NoFalseRefusal'
  BY <1>1, <1>2, <1>5, QuietStep DEF Call
<1>6. ASSUME NEW t \in Threads, Lock(t) PROVE WindowInv' /\ NoFalseRefusal'
  BY <1>1, <1>2, <1>6, QuietStep DEF Lock
<1>7. ASSUME NEW t \in Threads, Claim(t) PROVE WindowInv' /\ NoFalseRefusal'
  <2>1. /\ UNCHANGED <<elapsed, wall, decided>>
        /\ Slot(t) \in Slots /\ start \in [Slots -> Nat] /\ requests \in [Slots -> Nat]
    BY <1>7, RateLimiterAssumption DEF Claim, MutexInv, Slot, TypeOK
  <2>2. NoFalseRefusal'
    BY <2>1 DEF NoFalseRefusal, Passed, ClockKept
  <2>3. ASSUME ClockKept, NEW s \in Slots, slotIp'[s] \in Ips PROVE CountsPassed(s)'
    <3>1. CASE s = Slot(t) /\ slotIp[s] # ip[t]
      <4>1. start'[s] = elapsed' /\ requests'[s] = 0
        BY <1>7, <2>1, <2>3, <3>1 DEF Claim, ClockKept
      <4>2. Cardinality(PassedIn(decided, slotIp'[s], elapsed, elapsed)) \in Nat
        BY <1>2, DecidedGrows, PassedGrows
      <4>3. Passed(slotIp[s], start[s], elapsed)' = PassedIn(decided, slotIp'[s], elapsed, elapsed)
        BY <2>1, <4>1 DEF Passed, PassedIn
      <4>4. start'[s] <= elapsed' /\ 0 <= Cardinality(Passed(slotIp[s], start[s], elapsed)')
        BY <1>2, <4>1, <4>2, <4>3
      <4>5. QED
        BY <4>1, <4>4 DEF CountsPassed
    <3>2. CASE ~(s = Slot(t) /\ slotIp[s] # ip[t])
      <4>1. slotIp'[s] = slotIp[s] /\ start'[s] = start[s] /\ requests'[s] = requests[s]
        BY <1>7, <2>1, <3>2 DEF Claim, TypeOK
      <4>2. CountsPassed(s)
        BY <2>3, <4>1 DEF WindowInv
      <4>3. QED
        BY <1>2, <2>1, <4>1, <4>2, SlotKept
    <3>3. QED
      BY <3>1, <3>2
  <2>4. QED
    BY <1>1, <2>2, <2>3 DEF WindowInv
<1>8. ASSUME NEW t \in Threads, Count(t) PROVE WindowInv' /\ NoFalseRefusal'
  <2>1. CASE ~ClockKept
    BY <1>1, <2>1 DEF WindowInv, NoFalseRefusal
  <2>2. CASE ClockKept
    <3>1. /\ UNCHANGED <<elapsed, wall, slotIp>> /\ Slot(t) \in Slots
          /\ slotIp[Slot(t)] = ip[t] /\ ip[t] \in Ips
          /\ \A s \in Slots : s # Slot(t) => start'[s] = start[s] /\ requests'[s] = requests[s]
      BY <1>8, RateLimiterAssumption DEF Count, MutexInv, Slot, TypeOK
    <3>2. CountsPassed(Slot(t))
      BY <2>2, <3>1 DEF WindowInv
    <3>3. CountsPassed(Slot(t))'
      BY <1>8, <2>2, <3>2, CountIsFair
    <3>4. PICK v \in {"next", "out"} :
            /\ decided' = decided \cup {[no |-> no[t], ip |-> ip[t], at |-> elapsed, v |-> v]}
            /\ v = "out" =>
                 Cardinality(Passed(ip[t], elapsed - ArgWindow + 1, elapsed)') >= ArgMax
      BY <1>8, <2>2, <3>2, CountIsFair
    <3>5. ASSUME NEW s \in Slots, slotIp'[s] \in Ips PROVE CountsPassed(s)'
      <4>1. CASE s = Slot(t)
        <5>1. Slot(t)' = s
          BY <1>8, <4>1 DEF Slot, Count
        <5>2. QED
          BY <3>3, <5>1 DEF CountsPassed, Passed
      <4>2. CASE s # Slot(t)
        <5>1. CountsPassed(s)
          BY <2>2, <3>1, <3>5 DEF WindowInv
        <5>2. QED
          BY <1>2, <3>1, <4>2, <5>1, SlotKept
      <4>3. QED
        BY <4>1, <4>2
    <3>6. ASSUME NEW d \in decided', d.v = "out"
          PROVE  Cardinality(Passed(d.ip, d.at - ArgWindow + 1, d.at)') >= ArgMax
      <4>1. CASE d \in decided
        <5>1. d.at \in Int
          BY <4>1, DecidedGrows
        <5>2. Cardinality(PassedIn(decided, d.ip, d.at - ArgWindow + 1, d.at)) >= ArgMax
          BY <2>2, <3>6, <4>1 DEF NoFalseRefusal, Passed, PassedIn
        <5>3. d.at - ArgWindow + 1 \in Int
          BY <1>2, <5>1
        <5>4. /\ Cardinality(PassedIn(decided, d.ip, d.at - ArgWindow + 1, d.at)) \in Nat
              /\ Cardinality(PassedIn(decided', d.ip, d.at - ArgWindow + 1, d.at)) \in Nat
              /\ Cardinality(PassedIn(decided, d.ip, d.at - ArgWindow + 1, d.at))
                   <= Cardinality(PassedIn(decided', d.ip, d.at - ArgWindow + 1, d.at))
          BY <5>1, <5>3, DecidedGrows, PassedGrows
        <5>5. Passed(d.ip, d.at - ArgWindow + 1, d.at)'
                = PassedIn(decided', d.ip, d.at - ArgWindow + 1, d.at)
          BY DEF Passed, PassedIn
        <5>6. QED
          BY <1>2, <5>2, <5>4, <5>5
      <4>2. CASE d \notin decided
        <5>1. d.ip = ip[t] /\ d.at = elapsed /\ v = "out"
          BY <3>4, <3>6, <4>2
        <5>2. Passed(d.ip, d.at - ArgWindow + 1, d.at)'
                = Passed(ip[t], elapsed - ArgWindow + 1, elapsed)'
          BY <1>8, <3>1, <5>1 DEF Passed, Count
        <5>3. QED
          BY <3>4, <5>1, <5>2
      <4>3. QED
        BY <4>1, <4>2
    <3>7. QED
      BY <3>5, <3>6 DEF WindowInv, NoFalseRefusal
  <2>3. QED
    BY <2>1, <2>2
<1>9. QED
  BY <1>3, <1>4, <1>5, <1>6, <1>7, <1>8 DEF Next, Step

\* For any number of threads and clients, any hash that puts clients into one
\* slot, and arguments that fit their types: unless the clock was set back, a
\* request is refused only if the configured maximum of the same client passed in
\* the time of a window before it.
THEOREM RefusalsAreDue ==
  ASSUME ArgumentsFit
  PROVE  Spec => []NoFalseRefusal
<1>1. Init => WallInv /\ WindowInv /\ NoFalseRefusal
  BY RateLimiterAssumption DEF Init, WallInv, WindowInv, NoFalseRefusal
<1>2. TypeOK /\ TypeOK' /\ MutexInv /\ CallsInv /\ CallsInv' /\ [Next]_vars
        /\ WallInv /\ WindowInv /\ NoFalseRefusal
        => WallInv' /\ WindowInv' /\ NoFalseRefusal'
  BY WallStep, RefusalStep
<1>3. QED
  BY <1>1, <1>2, Invariant, PTL DEF Spec

-----------------------------------------------------------------------------
(***************************************************************************)
(* No burst: where every client has a slot of its own and the clock is not *)
(* set back, a span as long as the window meets two windows at most.       *)
(***************************************************************************)

PassedOf(addr) == {d \in decided : d.v = "next" /\ d.ip = addr}

\* What a client got through, seen from the slot that is its own: everything in
\* windows that are over or in this one, and no more than the limit in this one
\* and in the length of a window before it.
OwnWindow(a) ==
  LET s == Hash[a] IN
    IF slotIp[s] = a
    THEN /\ start[s] <= elapsed
         /\ \A d \in PassedOf(a) : d.at < start[s] + ArgWindow
         /\ Cardinality(Passed(a, start[s], MaxTime)) <= requests[s]
         /\ Cardinality(Passed(a, start[s], MaxTime)) <= ArgMax
         /\ \A f \in Int : f > start[s] - ArgWindow =>
              Cardinality(Passed(a, f, start[s] - 1)) <= ArgMax
    ELSE PassedOf(a) = {}

BurstInv == ClockKept /\ \A a \in Ips : OwnWindow(a)

\* Of any span only finitely many requests are decided.
LEMMA PassedFinite ==
  ASSUME NEW D, IsFiniteSet(D), NEW addr, NEW f, NEW to
  PROVE  IsFiniteSet(PassedIn(D, addr, f, to)) /\ Cardinality(PassedIn(D, addr, f, to)) \in Nat
BY FS_Subset, FS_CardinalityType DEF PassedIn

\* A set covered by two sets of at most m elements has at most 2 * m.
LEMMA TwoWindows ==
  ASSUME NEW m \in Nat, NEW S, NEW T, NEW X, IsFiniteSet(S), IsFiniteSet(T),
         Cardinality(S) <= m, Cardinality(T) <= m, X \subseteq S \cup T
  PROVE  Cardinality(X) <= 2 * m
<1>1. /\ IsFiniteSet(S \cup T) /\ IsFiniteSet(S \cap T)
      /\ Cardinality(S \cup T) = Cardinality(S) + Cardinality(T) - Cardinality(S \cap T)
  BY FS_Union, FS_Intersection
<1>2. Cardinality(S) \in Nat /\ Cardinality(T) \in Nat /\ Cardinality(S \cap T) \in Nat
  BY <1>1, FS_CardinalityType
<1>3. Cardinality(X) \in Nat /\ Cardinality(X) <= Cardinality(S \cup T)
  BY <1>1, FS_Subset, FS_CardinalityType
<1>4. QED
  BY <1>1, <1>2, <1>3

\* A client none of whose requests passes, and whose slot is left alone, sees the
\* same as before.
LEMMA OthersKept ==
  ASSUME NEW a \in Ips, OwnWindow(a), PassedOf(a)' = PassedOf(a), elapsed \in Nat, elapsed' \in Nat,
         start[Hash[a]] \in Nat, elapsed <= elapsed', slotIp'[Hash[a]] = slotIp[Hash[a]],
         start'[Hash[a]] = start[Hash[a]], requests'[Hash[a]] = requests[Hash[a]]
  PROVE  OwnWindow(a)'
<1>1. ASSUME NEW f, NEW to PROVE PassedIn(decided', a, f, to) = PassedIn(decided, a, f, to)
  BY DEF PassedIn, PassedOf
<1>2. PICK e \in Nat : e = elapsed'
  OBVIOUS
<1>3. CASE slotIp[Hash[a]] = a
  <2>1. start[Hash[a]] <= e
    BY <1>2, <1>3 DEF OwnWindow
  <2>2. /\ \A d \in PassedOf(a) : d.at < start[Hash[a]] + ArgWindow
        /\ Cardinality(PassedIn(decided, a, start[Hash[a]], MaxTime)) <= requests[Hash[a]]
        /\ Cardinality(PassedIn(decided, a, start[Hash[a]], MaxTime)) <= ArgMax
        /\ \A f \in Int : f > start[Hash[a]] - ArgWindow =>
             Cardinality(PassedIn(decided, a, f, start[Hash[a]] - 1)) <= ArgMax
    BY <1>3 DEF OwnWindow, Passed, PassedIn
  <2>3. /\ \A d \in PassedOf(a)' : d.at < start[Hash[a]] + ArgWindow
        /\ Cardinality(PassedIn(decided', a, start[Hash[a]], MaxTime)) <= requests[Hash[a]]
        /\ Cardinality(PassedIn(decided', a, start[Hash[a]], MaxTime)) <= ArgMax
        /\ \A f \in Int : f > start[Hash[a]] - ArgWindow =>
             Cardinality(PassedIn(decided', a, f, start[Hash[a]] - 1)) <= ArgMax
    BY <1>1, <2>2
  <2>4. QED
    BY <1>2, <1>3, <2>1, <2>3 DEF OwnWindow, Passed, PassedIn
<1>4. CASE slotIp[Hash[a]] # a
  BY <1>4 DEF OwnWindow
<1>5. QED
  BY <1>3, <1>4

\* Claiming a slot that was nobody's starts a window in which nothing passed.
LEMMA ClaimKeepsWindows ==
  ASSUME OwnSlot, TypeOK, MutexInv, BurstInv, NEW t \in Threads, Claim(t), NEW a \in Ips
  PROVE  OwnWindow(a)'
<1> DEFINE s == Hash[a]
<1>1. /\ s \in Slots /\ Slot(t) \in Slots /\ Slot(t) = Hash[ip[t]] /\ ip[t] \in Ips
      /\ elapsed \in Nat /\ start[s] \in Nat /\ wall = elapsed /\ ArgMax \in Nat /\ ArgWindow \in Nat
      /\ UNCHANGED <<decided, elapsed>> /\ OwnWindow(a)
  BY RateLimiterAssumption DEF Claim, MutexInv, Slot, TypeOK, BurstInv, ClockKept
<1>2. CASE a = ip[t] /\ slotIp[s] # a
  <2>1. slotIp'[s] = a /\ start'[s] = elapsed /\ requests'[s] = 0
    BY <1>1, <1>2 DEF Claim, TypeOK
  <2>2. PassedOf(a)' = {} /\ PassedOf(a) = {}
    BY <1>1, <1>2 DEF OwnWindow, PassedOf
  <2>3. ASSUME NEW f, NEW to PROVE Cardinality(PassedIn(decided', a, f, to)) = 0
    <3>1. PassedIn(decided', a, f, to) = {}
      BY <2>2 DEF PassedIn, PassedOf
    <3>2. QED
      BY <3>1, FS_EmptySet
  <2>4. /\ \A d \in PassedOf(a)' : d.at < elapsed + ArgWindow
        /\ Cardinality(PassedIn(decided', a, elapsed, MaxTime)) <= 0
        /\ Cardinality(PassedIn(decided', a, elapsed, MaxTime)) <= ArgMax
        /\ \A f \in Int : f > elapsed - ArgWindow =>
             Cardinality(PassedIn(decided', a, f, elapsed - 1)) <= ArgMax
    BY <1>1, <2>2, <2>3
  <2>5. \A f, to : Passed(a, f, to)' = PassedIn(decided', a, f, to)
    BY DEF Passed, PassedIn
  <2>6. start'[s] <= elapsed' /\ slotIp'[s] = a
    BY <1>1, <2>1
  <2>7. /\ \A d \in PassedOf(a)' : d.at < start'[s] + ArgWindow
        /\ Cardinality(Passed(a, start[s], MaxTime)') <= requests'[s]
        /\ Cardinality(Passed(a, start[s], MaxTime)') <= ArgMax
        /\ \A f \in Int : f > start'[s] - ArgWindow =>
             Cardinality(Passed(a, f, start[s] - 1)') <= ArgMax
    BY <2>1, <2>4, <2>5
  <2>8. QED
    BY <2>6, <2>7 DEF OwnWindow
<1>3. CASE ~(a = ip[t] /\ slotIp[s] # a)
  <2>1. s = Slot(t) => slotIp[Slot(t)] = ip[t]
    BY <1>1, <1>3 DEF OwnSlot
  <2>2. slotIp'[s] = slotIp[s] /\ start'[s] = start[s] /\ requests'[s] = requests[s]
    BY <1>1, <2>1 DEF Claim, TypeOK
  <2>3. PassedOf(a)' = PassedOf(a)
    BY <1>1 DEF PassedOf
  <2>4. QED
    BY <1>1, <2>2, <2>3, OthersKept
<1>4. QED
  BY <1>2, <1>3

BurstOf(a) ==
  \A from \in 0 .. MaxTime : Cardinality(Passed(a, from, from + ArgWindow - 1)) <= 2 * ArgMax

\* Counting a request of a client either goes on with its window or starts one a
\* whole window later, and lets it pass only below the limit.
LEMMA CountKeepsWindow ==
  ASSUME ArgumentsFit, ArgWindow > 0, TypeOK, TypeOK', MutexInv, CallsInv, CallsInv', ClockKept,
         NEW t \in Threads, Count(t), OwnWindow(ip[t]), BurstOf(ip[t])
  PROVE  OwnWindow(ip[t])' /\ BurstOf(ip[t])'
<1> DEFINE a == ip[t]
           s == Slot(t)
           v == IF Counted(t) > ArgMax THEN "out" ELSE "next"
           new == [no |-> no[t], ip |-> a, at |-> elapsed, v |-> v]
<1>1. /\ a \in Ips /\ s \in Slots /\ s = Hash[a] /\ slotIp[s] = a
      /\ start[s] \in Nat /\ requests[s] \in Nat /\ elapsed \in Nat /\ wall = elapsed
      /\ ArgMax \in Nat /\ ArgWindow \in Nat /\ MaxTime \in Nat
  BY RateLimiterAssumption DEF Count, MutexInv, Slot, TypeOK, ClockKept
<1>2. /\ start[s] <= elapsed
      /\ \A d \in PassedOf(a) : d.at < start[s] + ArgWindow
      /\ Cardinality(PassedIn(decided, a, start[s], MaxTime)) <= requests[s]
      /\ Cardinality(PassedIn(decided, a, start[s], MaxTime)) <= ArgMax
      /\ \A f \in Int : f > start[s] - ArgWindow =>
           Cardinality(PassedIn(decided, a, f, start[s] - 1)) <= ArgMax
  BY <1>1 DEF OwnWindow, Passed, PassedIn
<1>3. /\ decided' = decided \cup {new} /\ slotIp' = slotIp /\ elapsed' = elapsed /\ ip' = ip
      /\ start' = IF Expired(t) THEN [start EXCEPT ![s] = wall] ELSE start
      /\ requests' = [requests EXCEPT ![s] = Counted(t)]
  BY LimitIsArgument DEF Count
<1>4. Counted(t) = (IF Expired(t) THEN 0 ELSE requests[s]) + 1
  BY CountIsExact
<1>5. /\ requests'[s] = Counted(t)
      /\ start'[s] = IF Expired(t) THEN elapsed ELSE start[s]
      /\ start'[s] \in Nat /\ start'[s] <= elapsed
  BY <1>1, <1>2, <1>3 DEF TypeOK
<1>6. Expired(t) <=> elapsed - start[s] >= ArgWindow
  BY <1>1, LimitIsArgument DEF Expired
<1>7. /\ IsFiniteSet(decided) /\ IsFiniteSet(decided')
      /\ \A d \in decided' : d.at \in Nat /\ d.at <= MaxTime
  BY RateLimiterAssumption DEF CallsInv, TypeOK, Decisions
<1>8. new.ip = a /\ new.at = elapsed /\ new.v = v /\ (v = "next" => Counted(t) <= ArgMax)
  BY <1>1, <1>4
<1> HIDE DEF v, new
<1>9. \A d \in PassedOf(a)' : d.at < start'[s] + ArgWindow
  <2>1. \A d \in PassedOf(a) : d.at < start'[s] + ArgWindow
    BY <1>1, <1>2, <1>5, <1>6, <1>7, <1>3 DEF PassedOf
  <2>2. elapsed < start'[s] + ArgWindow
    BY <1>1, <1>5, <1>6
  <2>3. QED
    BY <1>3, <1>8, <2>1, <2>2 DEF PassedOf
<1> DEFINE now == PassedIn(decided', a, start'[s], MaxTime)
           was == PassedIn(decided, a, start'[s], MaxTime)
<1>10. IsFiniteSet(now) /\ Cardinality(now) \in Nat /\ IsFiniteSet(was) /\ Cardinality(was) \in Nat
  BY <1>7, PassedFinite
<1>11. Cardinality(was) <= (IF Expired(t) THEN 0 ELSE requests[s]) /\ Cardinality(was) <= ArgMax
  <2>1. CASE Expired(t)
    <3>1. was = {}
      BY <1>1, <1>2, <1>3, <1>5, <1>6, <1>7, <2>1 DEF PassedIn, PassedOf
    <3>2. QED
      BY <1>1, <2>1, <3>1, FS_EmptySet
  <2>2. CASE ~Expired(t)
    BY <1>2, <1>5, <2>2
  <2>3. QED
    BY <2>1, <2>2
<1>12. Cardinality(now) <= Counted(t) /\ Cardinality(now) <= ArgMax
  <2>1. CASE v = "next"
    <3>1. now \subseteq was \cup {new}
      BY <1>3 DEF PassedIn
    <3> HIDE DEF now, was
    <3>2. /\ IsFiniteSet(was \cup {new})
          /\ Cardinality(was \cup {new}) \in {Cardinality(was), Cardinality(was) + 1}
      BY <1>10, FS_AddElement
    <3>3. Cardinality(now) <= Cardinality(was \cup {new})
      BY <3>1, <3>2, FS_Subset
    <3>4. PICK c \in Nat : c = Counted(t)
      BY <1>1, <1>4
    <3>5. QED
      BY <1>1, <1>4, <1>8, <1>10, <1>11, <2>1, <3>2, <3>3, <3>4
  <2>2. CASE v # "next"
    <3>1. now = was
      BY <1>3, <1>8, <2>2 DEF PassedIn
    <3>2. QED
      BY <1>1, <1>4, <1>10, <1>11, <3>1
  <2>3. QED
    BY <2>1, <2>2
<1>13. ASSUME NEW f \in Int, f > start'[s] - ArgWindow
       PROVE  Cardinality(PassedIn(decided', a, f, start'[s] - 1)) <= ArgMax
  <2>1. PassedIn(decided', a, f, start'[s] - 1) = PassedIn(decided, a, f, start'[s] - 1)
    BY <1>1, <1>3, <1>5, <1>8 DEF PassedIn
  <2>2. CASE Expired(t)
    <3>1. PassedIn(decided, a, f, start'[s] - 1) \subseteq PassedIn(decided, a, start[s], MaxTime)
      BY <1>1, <1>3, <1>5, <1>6, <1>7, <1>13, <2>2 DEF PassedIn
    <3>2. /\ Cardinality(PassedIn(decided, a, start[s], MaxTime)) \in Nat
          /\ Cardinality(PassedIn(decided, a, f, start'[s] - 1)) \in Nat
          /\ Cardinality(PassedIn(decided, a, f, start'[s] - 1))
               <= Cardinality(PassedIn(decided, a, start[s], MaxTime))
      BY <1>7, <3>1, PassedFinite, FS_Subset
    <3>3. QED
      BY <1>1, <1>2, <2>1, <3>2
  <2>3. CASE ~Expired(t)
    BY <1>2, <1>5, <1>13, <2>1, <2>3
  <2>4. QED
    BY <2>2, <2>3
<1>14. OwnWindow(a)'
  BY <1>1, <1>3, <1>5, <1>9, <1>12, <1>13 DEF OwnWindow, Passed, PassedIn
<1>15. ASSUME NEW from \in 0 .. MaxTime
       PROVE  Cardinality(PassedIn(decided', a, from, from + ArgWindow - 1)) <= 2 * ArgMax
  <2>1. CASE v = "next" /\ elapsed <= from + ArgWindow - 1
    <3>1. from \in Int /\ from > start'[s] - ArgWindow
      BY <1>1, <1>5, <2>1
    <3>2. Cardinality(PassedIn(decided', a, from, start'[s] - 1)) <= ArgMax
      BY <1>13, <3>1
    <3>3. PassedIn(decided', a, from, from + ArgWindow - 1)
            \subseteq PassedIn(decided', a, from, start'[s] - 1) \cup now
      BY <1>1, <1>5, <1>7, <3>1 DEF PassedIn
    <3>4. IsFiniteSet(PassedIn(decided', a, from, start'[s] - 1))
      BY <1>7, PassedFinite
    <3> HIDE DEF now, was
    <3>5. QED
      BY <1>1, <1>10, <1>12, <3>2, <3>3, <3>4, TwoWindows
  <2>2. CASE ~(v = "next" /\ elapsed <= from + ArgWindow - 1)
    <3>1. PassedIn(decided', a, from, from + ArgWindow - 1)
            = PassedIn(decided, a, from, from + ArgWindow - 1)
      BY <1>1, <1>3, <1>8, <2>2 DEF PassedIn
    <3>2. QED
      BY <3>1 DEF BurstOf, Passed, PassedIn
  <2>3. QED
    BY <2>1, <2>2
<1>16. BurstOf(a)'
  BY <1>3, <1>15 DEF BurstOf, Passed, PassedIn
<1>17. QED
  BY <1>3, <1>14, <1>16 DEF OwnWindow, BurstOf

\* A step that decides nothing and touches no slot makes no burst.
LEMMA QuietKeepsWindows ==
  ASSUME TypeOK, TypeOK', BurstInv, BurstBound, ClockKept', elapsed <= elapsed',
         UNCHANGED <<slotIp, start, requests, decided>>
  PROVE  BurstInv' /\ BurstBound'
<1>1. ASSUME NEW a \in Ips PROVE OwnWindow(a)'
  <2>1. OwnWindow(a) /\ PassedOf(a)' = PassedOf(a)
    BY DEF BurstInv, PassedOf
  <2>2. elapsed \in Nat /\ elapsed' \in Nat /\ start[Hash[a]] \in Nat
    BY RateLimiterAssumption DEF TypeOK
  <2>3. QED
    BY <2>1, <2>2, OthersKept
<1>2. BurstBound'
  BY DEF BurstBound, Passed
<1>3. QED
  BY <1>1, <1>2 DEF BurstInv

\* Every step keeps each client's windows apart and its bursts bounded.
LEMMA BurstStep ==
  ASSUME ArgumentsFit, ArgWindow > 0, OwnSlot, ClockBack = FALSE, [Next]_vars,
         TypeOK, TypeOK', MutexInv, CallsInv, CallsInv', BurstInv, BurstBound
  PROVE  BurstInv' /\ BurstBound'
<1>1. elapsed \in Nat /\ elapsed' \in Nat /\ elapsed <= elapsed
  BY RateLimiterAssumption DEF TypeOK
<1>2. CASE Tick
  <2>1. elapsed <= elapsed' /\ ClockKept'
    BY <1>1, <1>2 DEF Tick, BurstInv, ClockKept
  <2>2. QED
    BY <1>2, <2>1, QuietKeepsWindows DEF Tick
<1>3. ~SetBack
  BY DEF SetBack
<1>4. CASE UNCHANGED vars
  BY <1>1, <1>4, QuietKeepsWindows DEF vars, BurstInv, ClockKept
<1>5. ASSUME NEW t \in Threads, NEW addr \in Ips, Call(t, addr) PROVE BurstInv' /\ BurstBound'
  BY <1>1, <1>5, QuietKeepsWindows DEF Call, BurstInv, ClockKept
<1>6. ASSUME NEW t \in Threads, Lock(t) PROVE BurstInv' /\ BurstBound'
  BY <1>1, <1>6, QuietKeepsWindows DEF Lock, BurstInv, ClockKept
<1>7. ASSUME NEW t \in Threads, Claim(t) PROVE BurstInv' /\ BurstBound'
  <2>1. \A a \in Ips : OwnWindow(a)'
    BY <1>7, ClaimKeepsWindows
  <2>2. ClockKept' /\ BurstBound'
    BY <1>7 DEF Claim, BurstInv, ClockKept, BurstBound, Passed
  <2>3. QED
    BY <2>1, <2>2 DEF BurstInv
<1>8. ASSUME NEW t \in Threads, Count(t) PROVE BurstInv' /\ BurstBound'
  <2>1. ip[t] \in Ips /\ Slot(t) = Hash[ip[t]] /\ ClockKept /\ ClockKept'
    BY <1>8 DEF Count, MutexInv, Slot, BurstInv, ClockKept
  <2>2. OwnWindow(ip[t]) /\ BurstOf(ip[t])
    BY <2>1 DEF BurstInv, BurstBound, BurstOf
  <2>3. OwnWindow(ip[t])' /\ BurstOf(ip[t])'
    BY <1>8, <2>1, <2>2, CountKeepsWindow
  <2>4. ip' = ip
    BY <1>8 DEF Count
  <2>5. ASSUME NEW a \in Ips, a # ip[t] PROVE OwnWindow(a)' /\ BurstOf(a)'
    <3>1. Hash[a] # Slot(t) /\ Hash[a] \in Slots
      BY <2>1, <2>5, RateLimiterAssumption DEF OwnSlot
    <3>2. /\ elapsed' = elapsed /\ slotIp' = slotIp
          /\ start'[Hash[a]] = start[Hash[a]] /\ requests'[Hash[a]] = requests[Hash[a]]
      BY <1>8, <3>1 DEF Count, TypeOK
    <3>3. PICK v \in {"next", "out"} :
            decided' = decided \cup {[no |-> no[t], ip |-> ip[t], at |-> elapsed, v |-> v]}
      BY <1>8 DEF Count
    <3>4. PassedOf(a)' = PassedOf(a)
      BY <2>5, <3>3 DEF PassedOf
    <3>5. OwnWindow(a) /\ BurstOf(a) /\ start[Hash[a]] \in Nat
      BY <3>1 DEF BurstInv, BurstBound, BurstOf, TypeOK
    <3>6. OwnWindow(a)'
      BY <1>1, <3>2, <3>4, <3>5, OthersKept
    <3>7. \A f, to : PassedIn(decided', a, f, to) = PassedIn(decided, a, f, to)
      BY <3>4 DEF PassedIn, PassedOf
    <3>8. BurstOf(a)'
      BY <3>5, <3>7 DEF BurstOf, Passed, PassedIn
    <3>9. QED
      BY <3>6, <3>8
  <2>6. ASSUME NEW a \in Ips PROVE OwnWindow(a)' /\ BurstOf(a)'
    <3>1. CASE a = ip[t]
      <4>1. OwnWindow(ip[t])' <=> OwnWindow(a)'
        BY <2>4, <3>1 DEF OwnWindow, PassedOf, Passed
      <4>2. BurstOf(ip[t])' <=> BurstOf(a)'
        BY <2>4, <3>1 DEF BurstOf, Passed
      <4>3. QED
        BY <2>3, <4>1, <4>2
    <3>2. QED
      BY <2>5, <3>1
  <2>7. QED
    BY <2>1, <2>6 DEF BurstInv, BurstBound, BurstOf
<1>9. QED
  BY <1>2, <1>3, <1>4, <1>5, <1>6, <1>7, <1>8 DEF Next, Step

\* For any number of threads and clients, any limit and any window of at least a
\* second that fit their types: where every client has a slot of its own and the
\* clock is not set back, no span as long as the window lets more than twice the
\* maximum through.
THEOREM BurstsAreBounded ==
  ASSUME ArgumentsFit, ArgWindow > 0, OwnSlot, ClockBack = FALSE
  PROVE  Spec => []BurstBound
<1>1. Init => BurstInv /\ BurstBound
  <2> SUFFICES ASSUME Init PROVE BurstInv /\ BurstBound
    OBVIOUS
  <2>1. Cardinality({}) = 0 /\ 0 <= 2 * ArgMax
    BY FS_EmptySet, RateLimiterAssumption
  <2>2. \A a, f, to : Cardinality(Passed(a, f, to)) <= 2 * ArgMax
    <3>1. \A a, f, to : Passed(a, f, to) = {}
      BY DEF Init, Passed
    <3>2. QED
      BY <2>1, <3>1
  <2>3. BurstBound
    BY <2>2 DEF BurstBound
  <2>4. ASSUME NEW a \in Ips PROVE slotIp[Hash[a]] # a /\ PassedOf(a) = {}
    BY RateLimiterAssumption DEF Init, PassedOf
  <2>5. QED
    BY <2>3, <2>4 DEF Init, BurstInv, OwnWindow, ClockKept
<1>2. TypeOK /\ TypeOK' /\ MutexInv /\ CallsInv /\ CallsInv' /\ [Next]_vars /\ BurstInv /\ BurstBound
        => BurstInv' /\ BurstBound'
  BY BurstStep
<1>3. QED
  BY <1>1, <1>2, Invariant, PTL DEF Spec

================================================================================
