-------------------------------- MODULE Pipeline --------------------------------
(***************************************************************************)
(* What chttpx_handle does with a parsed request: the route, the chain of  *)
(* middlewares, the handler, the answer and the cleanup; the recovery      *)
(* middleware and the signal handler that longjmps back into it; and       *)
(* cHTTPX_Shutdown, which takes routes and server away meanwhile.          *)
(*                                                                         *)
(* A thread serves one request.  A middleware is "recovery", "limiter" or  *)
(* "user".  Of the limiter only its mutex matters here: RateLimiter has    *)
(* the rest.  recovery_middleware has returned when the signal handler     *)
(* jumps into it, which C leaves undefined: either the process dies, or    *)
(* the call that chttpx_handle is in seems to return `out', for its return *)
(* address lies where that of recovery_middleware was.                     *)
(***************************************************************************)
EXTENDS Naturals, Sequences

CONSTANTS
  Threads,
  NoThread,
  MaxMiddlewares,  \* MAX_MIDDLEWARES
  MaxUses,         \* bound: calls of cHTTPX_MiddlewareUse
  FaultSites,      \* where a SIGSEGV, SIGABRT or SIGFPE may be raised
  MayShutdown      \* whether cHTTPX_Shutdown is called

Sites == {"middleware", "limiter", "handler", "send", "cleanup"}

ASSUME PipelineAssumption ==
  /\ NoThread \notin Threads
  /\ MaxMiddlewares \in Nat
  /\ FaultSites \subseteq Sites
  /\ MayShutdown \in BOOLEAN

VARIABLES
  asked,      \* history: what cHTTPX_MiddlewareUse was called with
  table,      \* serv->middleware
  server,     \* "setup", "up", then shutdown: "freed", "reset", "null"
  alive,      \* the process has not been killed
  mutex,      \* rate_limit_mu
  pc,         \* where each thread is
  passed,     \* history: the middlewares that said next
  res,        \* whose response the variable res holds
  sent,       \* history: the responses the client was sent
  armed,      \* recovery_active, and the signal is not blocked
  recovered   \* history: where a fault was recovered from, or "no"

vars == <<asked, table, server, alive, mutex, pc, passed, res, sent, armed, recovered>>

perThread == <<passed, res, sent, armed, recovered>>

Kinds == {"recovery", "limiter", "user"}
Answers == {"handler", "user", "429", "404", "500"}

Init ==
  /\ asked = <<>>
  /\ table = <<>>
  /\ server = "setup"
  /\ alive = TRUE
  /\ mutex = NoThread
  /\ pc = [t \in Threads |-> "new"]
  /\ passed = [t \in Threads |-> <<>>]
  /\ res = [t \in Threads |-> "none"]
  /\ sent = [t \in Threads |-> <<>>]
  /\ armed = [t \in Threads |-> FALSE]
  /\ recovered = [t \in Threads |-> "no"]

-----------------------------------------------------------------------------
(***************************************************************************)
(* Setting up and shutting down                                            *)
(***************************************************************************)

\* A table that is full replaces its last entry.
MutUse(kind) ==
  /\ server = "setup"
  /\ Len(asked) < MaxUses
  /\ asked' = Append(asked, kind)
  /\ table' = IF Len(table) < MaxMiddlewares THEN Append(table, kind)
              ELSE [table EXCEPT ![Len(table)] = kind]
  /\ UNCHANGED <<server, alive, mutex, pc, perThread>>

\* One more than the table holds is dropped with a message.
Use(kind) ==
  /\ server = "setup"
  /\ Len(asked) < MaxUses
  /\ asked' = Append(asked, kind)
  /\ table' = IF Len(table) < MaxMiddlewares THEN Append(table, kind) ELSE table
  /\ UNCHANGED <<server, alive, mutex, pc, perThread>>

Listen ==
  /\ server = "setup"
  /\ server' = "up"
  /\ UNCHANGED <<asked, table, alive, mutex, pc, perThread>>

\* The routes are freed, the table is emptied, serv is set to NULL.
Shutdown ==
  /\ MayShutdown /\ alive
  /\ \/ server = "up" /\ server' = "freed"
     \/ server = "freed" /\ server' = "reset"
     \/ server = "reset" /\ server' = "null"
  /\ UNCHANGED <<asked, table, alive, mutex, pc, perThread>>

Die ==
  /\ alive' = FALSE
  /\ UNCHANGED <<asked, table, server, mutex, pc, perThread>>

\* cHTTPX_Listen goes on with serv after accept(), and nothing protects it.
ListenGone == alive /\ server = "null" /\ Die

-----------------------------------------------------------------------------
(***************************************************************************)
(* One request                                                             *)
(***************************************************************************)

Goto(t, from, to) ==
  /\ alive
  /\ pc[t] = from
  /\ pc' = [pc EXCEPT ![t] = to]

Start(t) ==
  /\ server \notin {"setup", "null"}
  /\ Goto(t, "new", "thread")
  /\ UNCHANGED <<asked, table, server, alive, mutex, perThread>>

\* handle_client_wrapper returns when serv is NULL: no answer and no close.
Refuse(t) ==
  /\ server = "null"
  /\ Goto(t, "thread", "lost")
  /\ UNCHANGED <<asked, table, server, alive, mutex, perThread>>

ReadRequest(t) ==
  /\ server # "null"
  /\ Goto(t, "thread", "find")
  /\ UNCHANGED <<asked, table, server, alive, mutex, perThread>>

RouteFound(t) ==
  /\ server \in {"up", "freed"}
  /\ Goto(t, "find", "chain")
  /\ UNCHANGED <<asked, table, server, alive, mutex, perThread>>

\* No middleware is asked.
RouteNotFound(t) ==
  /\ Goto(t, "find", "send")
  /\ res' = [res EXCEPT ![t] = "404"]
  /\ UNCHANGED <<asked, table, server, alive, mutex, passed, sent, armed, recovered>>

\* The table of routes is read while it is freed.
RoutesGone(t) == alive /\ server = "freed" /\ pc[t] = "find" /\ Die

Current(t) == table[Len(passed[t]) + 1]

InChain(t, kind) ==
  /\ alive
  /\ server # "null"
  /\ pc[t] = "chain"
  /\ Len(passed[t]) < Len(table)
  /\ Current(t) = kind

Passed(t) == passed' = [passed EXCEPT ![t] = Append(@, Current(t))]

Recovery(t) ==
  /\ InChain(t, "recovery")
  /\ armed' = [armed EXCEPT ![t] = TRUE]
  /\ Passed(t)
  /\ UNCHANGED <<asked, table, server, alive, mutex, pc, res, sent, recovered>>

Answer(t, whose) ==
  /\ res' = [res EXCEPT ![t] = whose]
  /\ pc' = [pc EXCEPT ![t] = "send"]

User(t) ==
  /\ InChain(t, "user")
  /\ \/ Passed(t) /\ UNCHANGED <<pc, res>>
     \/ Answer(t, "user") /\ UNCHANGED passed
  /\ UNCHANGED <<asked, table, server, alive, mutex, sent, armed, recovered>>

LimiterLock(t) ==
  /\ InChain(t, "limiter")
  /\ mutex = NoThread
  /\ mutex' = t
  /\ pc' = [pc EXCEPT ![t] = "limiter"]
  /\ UNCHANGED <<asked, table, server, alive, perThread>>

\* The refusal returns without the unlock.
MutLimiterDecides(t) ==
  /\ alive /\ pc[t] = "limiter"
  /\ \/ Passed(t) /\ pc' = [pc EXCEPT ![t] = "chain"] /\ mutex' = NoThread /\ UNCHANGED res
     \/ Answer(t, "429") /\ UNCHANGED <<passed, mutex>>
  /\ UNCHANGED <<asked, table, server, alive, sent, armed, recovered>>

LimiterDecides(t) ==
  /\ alive /\ pc[t] = "limiter"
  /\ mutex' = NoThread
  /\ \/ Passed(t) /\ pc' = [pc EXCEPT ![t] = "chain"] /\ UNCHANGED res
     \/ Answer(t, "429") /\ UNCHANGED passed
  /\ UNCHANGED <<asked, table, server, alive, sent, armed, recovered>>

ChainDone(t) ==
  /\ server # "null"
  /\ Len(passed[t]) = Len(table)
  /\ Goto(t, "chain", "handler")
  /\ UNCHANGED <<asked, table, server, alive, mutex, perThread>>

Handle(t) ==
  /\ alive /\ pc[t] = "handler"
  /\ Answer(t, "handler")
  /\ UNCHANGED <<asked, table, server, alive, mutex, passed, sent, armed, recovered>>

Send(t) ==
  /\ Goto(t, "send", "cleanup")
  /\ sent' = [sent EXCEPT ![t] = Append(@, res[t])]
  /\ UNCHANGED <<asked, table, server, alive, mutex, passed, res, armed, recovered>>

Cleanup(t) ==
  /\ Goto(t, "cleanup", "leave")
  /\ UNCHANGED <<asked, table, server, alive, mutex, perThread>>

\* serv->current_clients--
Leave(t) ==
  /\ server # "null"
  /\ Goto(t, "leave", "done")
  /\ UNCHANGED <<asked, table, server, alive, mutex, perThread>>

LeaveGone(t) == alive /\ server = "null" /\ pc[t] = "leave" /\ Die

-----------------------------------------------------------------------------
(***************************************************************************)
(* Faults                                                                  *)
(***************************************************************************)

\* The code a thread is in, when it may raise a signal there.
SiteOf(t) ==
  IF pc[t] = "chain"
  THEN IF server = "null" THEN "loop"
       ELSE IF InChain(t, "user") THEN "middleware" ELSE "none"
  ELSE pc[t]

\* Freed routes and a NULL serv raise signals of their own.
MayFault(t) ==
  /\ alive
  /\ \/ SiteOf(t) \in FaultSites
     \/ SiteOf(t) = "loop"
     \/ SiteOf(t) = "handler" /\ server \notin {"setup", "up"}

\* Not protected, or already recovering once; or the jump into the dead frame
\* ends the process.
FaultKills(t) == MayFault(t) /\ Die

\* The response is sent a second time after a fault in send_response.
MutAfterFault(site) ==
  IF site = "cleanup" THEN "leave" ELSE "send"

\* Where a call goes on that seems to return `out'.  A fault in send_response
\* is taken before anything is sent.
AfterFault(site) ==
  CASE site = "send" -> "cleanup"
    [] site = "cleanup" -> "leave"
    [] OTHER -> "send"

\* recovery_middleware returns without its answer.
MutFaultRecovered(t) ==
  /\ MayFault(t)
  /\ SiteOf(t) # "loop"
  /\ armed[t]
  /\ armed' = [armed EXCEPT ![t] = FALSE]
  /\ recovered' = [recovered EXCEPT ![t] = SiteOf(t)]
  /\ pc' = [pc EXCEPT ![t] = AfterFault(SiteOf(t))]
  /\ UNCHANGED <<asked, table, server, alive, mutex, passed, res, sent>>

FaultRecovered(t) ==
  /\ MayFault(t)
  /\ SiteOf(t) # "loop"
  /\ armed[t]
  /\ armed' = [armed EXCEPT ![t] = FALSE]
  /\ recovered' = [recovered EXCEPT ![t] = SiteOf(t)]
  /\ res' = [res EXCEPT ![t] = "500"]
  /\ pc' = [pc EXCEPT ![t] = AfterFault(SiteOf(t))]
  /\ UNCHANGED <<asked, table, server, alive, mutex, passed, sent>>

-----------------------------------------------------------------------------

Serve(t) ==
  \/ Refuse(t) \/ ReadRequest(t)
  \/ RouteFound(t) \/ RouteNotFound(t) \/ RoutesGone(t)
  \/ Recovery(t) \/ User(t) \/ LimiterLock(t) \/ LimiterDecides(t)
  \/ ChainDone(t) \/ Handle(t) \/ Send(t) \/ Cleanup(t)
  \/ Leave(t) \/ LeaveGone(t)

Fault(t) == FaultKills(t) \/ FaultRecovered(t)

Next ==
  \/ \E kind \in Kinds : Use(kind)
  \/ Listen
  \/ Shutdown
  \/ ListenGone
  \/ \E t \in Threads : Start(t) \/ Serve(t) \/ Fault(t)

Spec == Init /\ [][Next]_vars

\* The scheduler runs every thread, and one that waits for the mutex gets it
\* when the others, which take it a few times each, are done with it.
FairSpec ==
  /\ Spec
  /\ \A t \in Threads : WF_vars(Serve(t) \/ (SiteOf(t) = "loop" /\ Fault(t)))

-----------------------------------------------------------------------------
(***************************************************************************)
(* Properties.                                                             *)
(***************************************************************************)

\* The type of every variable; the table never overflows its array.
TypeOK ==
  /\ asked \in Seq(Kinds)
  /\ table \in Seq(Kinds) /\ Len(table) <= MaxMiddlewares
  /\ server \in {"setup", "up", "freed", "reset", "null"}
  /\ alive \in BOOLEAN
  /\ mutex \in Threads \cup {NoThread}
  /\ pc \in [Threads -> {"new", "thread", "lost", "find", "chain", "limiter",
                         "handler", "send", "cleanup", "leave", "done"}]
  /\ passed \in [Threads -> Seq(Kinds)]
  /\ res \in [Threads -> Answers \cup {"none"}]
  /\ sent \in [Threads -> Seq(Answers)]
  /\ armed \in [Threads -> BOOLEAN]
  /\ recovered \in [Threads -> Sites \cup {"no"}]

\* The first n elements of a sequence, or all it has.
FirstOf(s, n) == IF Len(s) <= n THEN s ELSE SubSeq(s, 1, n)

\* "Middleware functions are executed in the order they are registered, before
\* the route handler is called": when a handler runs, or has run, or its answer
\* goes out, the middlewares asked for first, as many as the table holds, have
\* each said next, in that order; also when faults were recovered from.
ChainInOrder ==
  \A t \in Threads :
    pc[t] = "handler" \/ res[t] = "handler" \/ sent[t] = <<"handler">> =>
      passed[t] = FirstOf(asked, MaxMiddlewares)

\* "If a middleware returns 0 (out), the chain is aborted and the response
\* provided by the middleware is sent": the answer a client gets is that of the
\* element of the chain that stopped it.
AnswerIsOfStopper ==
  \A t \in Threads : sent[t] # <<>> =>
    CASE sent[t] = <<"user">> -> Current(t) = "user"
      [] sent[t] = <<"429">> -> Current(t) = "limiter"
      [] sent[t] = <<"404">> -> passed[t] = <<>>
      [] sent[t] = <<"500">> -> recovered[t] \in {"middleware", "limiter", "handler"}
      [] OTHER -> sent[t] = <<"handler">>

\* A thread that has come to its end has answered exactly once, unless a fault
\* was recovered from while it was answering: then not at all.
OneAnswer ==
  \A t \in Threads : pc[t] \in {"leave", "done"} =>
    (recovered[t] = "send" /\ sent[t] = <<>>) \/ (recovered[t] # "send" /\ Len(sent[t]) = 1)

\* Whether the mutex was left locked by a recovered fault.
LockLost == mutex \in Threads /\ recovered[mutex] = "limiter"

\* The limiter's mutex is held by a thread inside the limiter; the one way to
\* leave with it is a fault there that recovery jumps out of.
LockIsInLimiter == mutex \in Threads => pc[mutex] = "limiter" \/ LockLost

\* A request that was read comes to its end unless the process is killed or a
\* recovered fault has taken the limiter's mutex with it.
EveryRequestEnds ==
  \A t \in Threads : pc[t] = "find" ~> (pc[t] = "done" \/ ~alive \/ LockLost)

================================================================================
