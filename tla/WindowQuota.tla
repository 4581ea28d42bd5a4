------------------------------ MODULE WindowQuota ------------------------------
(***************************************************************************)
(* What a rate limiter promises, with one indivisible decision per call: a *)
(* client has a window of Window seconds, opened for its first call and    *)
(* again for the first call after it ended; of the calls in a window the   *)
(* first Max pass ("next") and the others do not ("out").                  *)
(***************************************************************************)
EXTENDS Integers

CONSTANTS Threads, Ips, NoIp, Max, Window

VARIABLES
  elapsed,   \* time in seconds
  calling,   \* the client each thread is deciding about, or has decided about
  verdict,   \* "idle", "pending", "next" or "out" per thread
  opened,    \* when the window of a client opened
  count      \* calls counted in that window, 0 before the first one

vars == <<elapsed, calling, verdict, opened, count>>

Init ==
  /\ elapsed = 0
  /\ calling = [t \in Threads |-> NoIp]
  /\ verdict = [t \in Threads |-> "idle"]
  /\ opened = [ip \in Ips |-> 0]
  /\ count = [ip \in Ips |-> 0]

Tick ==
  /\ elapsed' = elapsed + 1
  /\ UNCHANGED <<calling, verdict, opened, count>>

Call(t, ip) ==
  /\ verdict[t] # "pending"
  /\ verdict' = [verdict EXCEPT ![t] = "pending"]
  /\ calling' = [calling EXCEPT ![t] = ip]
  /\ UNCHANGED <<elapsed, opened, count>>

Open(ip) == count[ip] > 0 /\ elapsed - opened[ip] < Window

\* A window may be said to open a little before the call that opens it is
\* decided, but never so early that it has already ended, nor in the future.
Decide(t) ==
  /\ verdict[t] = "pending"
  /\ LET ip == calling[t] IN
       /\ IF Open(ip)
          THEN /\ count' = [count EXCEPT ![ip] = @ + 1]
               /\ opened' = opened
          ELSE /\ count' = [count EXCEPT ![ip] = 1]
               /\ \E since \in {elapsed} \cup ((elapsed - Window + 1) .. elapsed) :
                    opened' = [opened EXCEPT ![ip] = since]
       /\ verdict' = [verdict EXCEPT ![t] = IF count'[ip] > Max THEN "out" ELSE "next"]
  /\ UNCHANGED <<elapsed, calling>>

Next ==
  \/ Tick
  \/ \E t \in Threads : Decide(t) \/ \E ip \in Ips : Call(t, ip)

Spec == Init /\ [][Next]_vars

================================================================================
