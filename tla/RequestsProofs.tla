----------------------------- MODULE RequestsProofs -----------------------------
(***************************************************************************)
(* The safety properties of the two halves of serving a request: Pipeline  *)
(* for any number of threads, middlewares and registrations, RequestBody   *)
(* for any lengths, limits and faults as long as a client sends nothing    *)
(* behind the body.  The invariant of the first says of a thread, by where *)
(* it is, how far it has come in the chain and whether it has answered;    *)
(* that of the second how what was stored relates to what was received.    *)
(***************************************************************************)
EXTENDS MCRequests, SequenceTheorems, TLAPS

-----------------------------------------------------------------------------
(***************************************************************************)
(* The chain                                                               *)
(***************************************************************************)

Early == {"new", "thread", "lost", "find"}
Ended == {"cleanup", "leave", "done"}

\* Nothing is served while the table is filled; the table holds what was asked
\* for first.
TableInv ==
  /\ Len(table) <= Len(asked)
  /\ Len(asked) > Len(table) => Len(table) = MaxMiddlewares
  /\ \A i \in 1 .. Len(table) : table[i] = asked[i]
  /\ server = "setup" => \A t \in Threads : pc[t] = "new"

\* The middlewares that said next are the beginning of the table.
ChainOf(t) ==
  /\ Len(passed[t]) <= Len(table)
  /\ \A i \in 1 .. Len(passed[t]) : passed[t][i] = table[i]
  /\ pc[t] \in Early => passed[t] = <<>> /\ res[t] = "none" /\ ~armed[t]
  /\ pc[t] \in {"chain", "limiter"} => res[t] = "none"
  /\ pc[t] = "limiter" => Len(passed[t]) < Len(table) /\ Current(t) = "limiter"
  /\ pc[t] = "handler" \/ res[t] = "handler" \/ sent[t] = <<"handler">> =>
       Len(passed[t]) = Len(table)

ChainInv == \A t \in Threads : ChainOf(t)

\* The answer a fits how thread t came to it.
Fits(t, a) ==
  /\ a = "user" => Len(passed[t]) < Len(table) /\ Current(t) = "user"
  /\ a = "429" => Len(passed[t]) < Len(table) /\ Current(t) = "limiter"
  /\ a = "404" => passed[t] = <<>>
  /\ a = "500" => recovered[t] \in {"middleware", "limiter", "handler"}

\* Sending comes once; a fault is recovered from once.
AnswerOf(t) ==
  /\ recovered[t] # "no" => ~armed[t] /\ pc[t] \in {"send"} \cup Ended
  /\ recovered[t] = "send" => pc[t] \in Ended
  /\ recovered[t] = "cleanup" => pc[t] \in {"leave", "done"}
  /\ pc[t] \notin Ended => sent[t] = <<>>
  /\ pc[t] \in Ended =>
       IF recovered[t] = "send" THEN sent[t] = <<>>
       ELSE \E a \in Answers : sent[t] = <<a>> /\ Fits(t, a)
  /\ pc[t] = "send" => res[t] \in Answers /\ Fits(t, res[t])

AnswerInv == \A t \in Threads : AnswerOf(t)

ServeInv == TypeOK /\ TableInv /\ ChainInv /\ AnswerInv /\ LockIsInLimiter

LEMMA ChainInit == Init => ServeInv
BY PipelineAssumption
  DEF Init, ServeInv, TypeOK, TableInv, ChainInv, ChainOf, AnswerInv, AnswerOf,
  LockIsInLimiter, Early, Ended, Kinds, Answers, Sites

LEMMA UseStep == ASSUME ServeInv, NEW use \in Kinds, Use(use) PROVE ServeInv'
<1> USE PipelineAssumption DEF ServeInv, Use, perThread
<1>1. \A t \in Threads : /\ pc[t] = "new" /\ passed[t] = <<>> /\ res[t] = "none"
                        /\ sent[t] = <<>> /\ recovered[t] = "no"
  BY DEF TypeOK, TableInv, ChainInv, ChainOf, AnswerInv, AnswerOf, Early, Ended
<1>2. <<>> # <<"handler">>
  OBVIOUS
<1>3. TypeOK'
  BY <1>1, <1>2
    DEF TypeOK, Kinds, Answers, Sites, ChainInv, ChainOf, AnswerInv, AnswerOf, Ended
<1>4. TableInv'
  BY <1>1, <1>2 DEF TypeOK, TableInv, ChainInv, ChainOf, Early
<1>5. ChainInv'
  <2> SUFFICES ASSUME NEW u \in Threads PROVE ChainOf(u)'
    BY DEF ChainInv
  <2>1. ChainOf(u) /\ AnswerOf(u)
    BY DEF ChainInv, AnswerInv
  <2> QED
    BY <1>1, <1>2, <2>1, SMTT(30)
      DEF TypeOK, ChainOf, AnswerOf, Early, Ended, Current, Kinds, Answers
<1>6. AnswerInv'
  <2> SUFFICES ASSUME NEW u \in Threads PROVE AnswerOf(u)'
    BY DEF AnswerInv
  <2>1. ChainOf(u) /\ AnswerOf(u)
    BY DEF ChainInv, AnswerInv
  <2> QED
    BY <1>1, <1>2, <2>1
      DEF TypeOK, ChainOf, AnswerOf, Fits, Early, Ended, Current, Kinds, Answers, Sites
<1>7. LockIsInLimiter'
  BY <1>1, <1>2 DEF TypeOK, LockIsInLimiter, LockLost, AnswerInv, AnswerOf, Ended, Sites
<1> QED
  BY <1>3, <1>4, <1>5, <1>6, <1>7

LEMMA ListenStep == ASSUME ServeInv, Listen PROVE ServeInv'
<1> USE PipelineAssumption DEF ServeInv, Listen, perThread
<1>1. TypeOK'
  BY DEF TypeOK, Kinds, Answers, Sites, ChainInv, ChainOf, AnswerInv, AnswerOf, Ended
<1>2. TableInv'
  BY DEF TypeOK, TableInv, ChainInv, ChainOf, Early
<1>3. ChainInv'
  <2> SUFFICES ASSUME NEW u \in Threads PROVE ChainOf(u)'
    BY DEF ChainInv
  <2>1. ChainOf(u) /\ AnswerOf(u)
    BY DEF ChainInv, AnswerInv
  <2> QED
    BY <2>1 DEF TypeOK, ChainOf, AnswerOf, Early, Ended, Current, Kinds, Answers
<1>4. AnswerInv'
  <2> SUFFICES ASSUME NEW u \in Threads PROVE AnswerOf(u)'
    BY DEF AnswerInv
  <2>1. ChainOf(u) /\ AnswerOf(u)
    BY DEF ChainInv, AnswerInv
  <2> QED
    BY <2>1
      DEF TypeOK, ChainOf, AnswerOf, Fits, Early, Ended, Current, Kinds, Answers, Sites
<1>5. LockIsInLimiter'
  BY DEF TypeOK, LockIsInLimiter, LockLost, AnswerInv, AnswerOf, Ended, Sites
<1> QED
  BY <1>1, <1>2, <1>3, <1>4, <1>5

LEMMA ShutdownStep == ASSUME ServeInv, Shutdown PROVE ServeInv'
<1> USE PipelineAssumption DEF ServeInv, Shutdown, perThread
<1>1. TypeOK'
  BY DEF TypeOK, Kinds, Answers, Sites, ChainInv, ChainOf, AnswerInv, AnswerOf, Ended
<1>2. TableInv'
  BY DEF TypeOK, TableInv, ChainInv, ChainOf, Early
<1>3. ChainInv'
  <2> SUFFICES ASSUME NEW u \in Threads PROVE ChainOf(u)'
    BY DEF ChainInv
  <2>1. ChainOf(u) /\ AnswerOf(u)
    BY DEF ChainInv, AnswerInv
  <2> QED
    BY <2>1 DEF TypeOK, ChainOf, AnswerOf, Early, Ended, Current, Kinds, Answers
<1>4. AnswerInv'
  <2> SUFFICES ASSUME NEW u \in Threads PROVE AnswerOf(u)'
    BY DEF AnswerInv
  <2>1. ChainOf(u) /\ AnswerOf(u)
    BY DEF ChainInv, AnswerInv
  <2> QED
    BY <2>1
      DEF TypeOK, ChainOf, AnswerOf, Fits, Early, Ended, Current, Kinds, Answers, Sites
<1>5. LockIsInLimiter'
  BY DEF TypeOK, LockIsInLimiter, LockLost, AnswerInv, AnswerOf, Ended, Sites
<1> QED
  BY <1>1, <1>2, <1>3, <1>4, <1>5

LEMMA DieStep == ASSUME ServeInv, Die PROVE ServeInv'
<1> USE PipelineAssumption DEF ServeInv, Die, perThread
<1>1. TypeOK'
  BY DEF TypeOK, Kinds, Answers, Sites, ChainInv, ChainOf, AnswerInv, AnswerOf, Ended
<1>2. TableInv'
  BY DEF TypeOK, TableInv, ChainInv, ChainOf, Early
<1>3. ChainInv'
  <2> SUFFICES ASSUME NEW u \in Threads PROVE ChainOf(u)'
    BY DEF ChainInv
  <2>1. ChainOf(u) /\ AnswerOf(u)
    BY DEF ChainInv, AnswerInv
  <2> QED
    BY <2>1 DEF TypeOK, ChainOf, AnswerOf, Early, Ended, Current, Kinds, Answers
<1>4. AnswerInv'
  <2> SUFFICES ASSUME NEW u \in Threads PROVE AnswerOf(u)'
    BY DEF AnswerInv
  <2>1. ChainOf(u) /\ AnswerOf(u)
    BY DEF ChainInv, AnswerInv
  <2> QED
    BY <2>1
      DEF TypeOK, ChainOf, AnswerOf, Fits, Early, Ended, Current, Kinds, Answers, Sites
<1>5. LockIsInLimiter'
  BY DEF TypeOK, LockIsInLimiter, LockLost, AnswerInv, AnswerOf, Ended, Sites
<1> QED
  BY <1>1, <1>2, <1>3, <1>4, <1>5

LEMMA StartStep == ASSUME ServeInv, NEW t \in Threads, Start(t) PROVE ServeInv'
<1> USE PipelineAssumption DEF ServeInv, Start, Goto, perThread
<1>1. TypeOK'
  BY DEF TypeOK, Kinds, Answers, Sites, ChainInv, ChainOf, AnswerInv, AnswerOf, Ended
<1>2. TableInv'
  BY DEF TypeOK, TableInv, ChainInv, ChainOf, Early
<1>3. ChainInv'
  <2> SUFFICES ASSUME NEW u \in Threads PROVE ChainOf(u)'
    BY DEF ChainInv
  <2>1. ChainOf(u) /\ AnswerOf(u) /\ ChainOf(t) /\ AnswerOf(t)
    BY DEF ChainInv, AnswerInv
  <2> QED
    BY <2>1 DEF TypeOK, ChainOf, AnswerOf, Early, Ended, Current, Kinds, Answers
<1>4. AnswerInv'
  <2> SUFFICES ASSUME NEW u \in Threads PROVE AnswerOf(u)'
    BY DEF AnswerInv
  <2>1. ChainOf(u) /\ AnswerOf(u) /\ ChainOf(t) /\ AnswerOf(t)
    BY DEF ChainInv, AnswerInv
  <2> QED
    BY <2>1
      DEF TypeOK, ChainOf, AnswerOf, Fits, Early, Ended, Current, Kinds, Answers, Sites
<1>5. LockIsInLimiter'
  BY DEF TypeOK, LockIsInLimiter, LockLost, AnswerInv, AnswerOf, Ended, Sites
<1> QED
  BY <1>1, <1>2, <1>3, <1>4, <1>5

LEMMA RefuseStep == ASSUME ServeInv, NEW t \in Threads, Refuse(t) PROVE ServeInv'
<1> USE PipelineAssumption DEF ServeInv, Refuse, Goto, perThread
<1>1. TypeOK'
  BY DEF TypeOK, Kinds, Answers, Sites, ChainInv, ChainOf, AnswerInv, AnswerOf, Ended
<1>2. TableInv'
  BY DEF TypeOK, TableInv, ChainInv, ChainOf, Early
<1>3. ChainInv'
  <2> SUFFICES ASSUME NEW u \in Threads PROVE ChainOf(u)'
    BY DEF ChainInv
  <2>1. ChainOf(u) /\ AnswerOf(u) /\ ChainOf(t) /\ AnswerOf(t)
    BY DEF ChainInv, AnswerInv
  <2> QED
    BY <2>1 DEF TypeOK, ChainOf, AnswerOf, Early, Ended, Current, Kinds, Answers
<1>4. AnswerInv'
  <2> SUFFICES ASSUME NEW u \in Threads PROVE AnswerOf(u)'
    BY DEF AnswerInv
  <2>1. ChainOf(u) /\ AnswerOf(u) /\ ChainOf(t) /\ AnswerOf(t)
    BY DEF ChainInv, AnswerInv
  <2> QED
    BY <2>1
      DEF TypeOK, ChainOf, AnswerOf, Fits, Early, Ended, Current, Kinds, Answers, Sites
<1>5. LockIsInLimiter'
  BY DEF TypeOK, LockIsInLimiter, LockLost, AnswerInv, AnswerOf, Ended, Sites
<1> QED
  BY <1>1, <1>2, <1>3, <1>4, <1>5

LEMMA ReadRequestStep == ASSUME ServeInv, NEW t \in Threads, ReadRequest(t) PROVE ServeInv'
<1> USE PipelineAssumption DEF ServeInv, ReadRequest, Goto, perThread
<1>1. TypeOK'
  BY DEF TypeOK, Kinds, Answers, Sites, ChainInv, ChainOf, AnswerInv, AnswerOf, Ended
<1>2. TableInv'
  BY DEF TypeOK, TableInv, ChainInv, ChainOf, Early
<1>3. ChainInv'
  <2> SUFFICES ASSUME NEW u \in Threads PROVE ChainOf(u)'
    BY DEF ChainInv
  <2>1. ChainOf(u) /\ AnswerOf(u) /\ ChainOf(t) /\ AnswerOf(t)
    BY DEF ChainInv, AnswerInv
  <2> QED
    BY <2>1 DEF TypeOK, ChainOf, AnswerOf, Early, Ended, Current, Kinds, Answers
<1>4. AnswerInv'
  <2> SUFFICES ASSUME NEW u \in Threads PROVE AnswerOf(u)'
    BY DEF AnswerInv
  <2>1. ChainOf(u) /\ AnswerOf(u) /\ ChainOf(t) /\ AnswerOf(t)
    BY DEF ChainInv, AnswerInv
  <2> QED
    BY <2>1
      DEF TypeOK, ChainOf, AnswerOf, Fits, Early, Ended, Current, Kinds, Answers, Sites
<1>5. LockIsInLimiter'
  BY DEF TypeOK, LockIsInLimiter, LockLost, AnswerInv, AnswerOf, Ended, Sites
<1> QED
  BY <1>1, <1>2, <1>3, <1>4, <1>5

LEMMA RouteFoundStep == ASSUME ServeInv, NEW t \in Threads, RouteFound(t) PROVE ServeInv'
<1> USE PipelineAssumption DEF ServeInv, RouteFound, Goto, perThread
<1>1. TypeOK'
  BY DEF TypeOK, Kinds, Answers, Sites, ChainInv, ChainOf, AnswerInv, AnswerOf, Ended
<1>2. TableInv'
  BY DEF TypeOK, TableInv, ChainInv, ChainOf, Early
<1>3. ChainInv'
  <2> SUFFICES ASSUME NEW u \in Threads PROVE ChainOf(u)'
    BY DEF ChainInv
  <2>1. ChainOf(u) /\ AnswerOf(u) /\ ChainOf(t) /\ AnswerOf(t)
    BY DEF ChainInv, AnswerInv
  <2> QED
    BY <2>1 DEF TypeOK, ChainOf, AnswerOf, Early, Ended, Current, Kinds, Answers
<1>4. AnswerInv'
  <2> SUFFICES ASSUME NEW u \in Threads PROVE AnswerOf(u)'
    BY DEF AnswerInv
  <2>1. ChainOf(u) /\ AnswerOf(u) /\ ChainOf(t) /\ AnswerOf(t)
    BY DEF ChainInv, AnswerInv
  <2> QED
    BY <2>1
      DEF TypeOK, ChainOf, AnswerOf, Fits, Early, Ended, Current, Kinds, Answers, Sites
<1>5. LockIsInLimiter'
  BY DEF TypeOK, LockIsInLimiter, LockLost, AnswerInv, AnswerOf, Ended, Sites
<1> QED
  BY <1>1, <1>2, <1>3, <1>4, <1>5

LEMMA RouteNotFoundStep == ASSUME ServeInv, NEW t \in Threads, RouteNotFound(t) PROVE ServeInv'
<1> USE PipelineAssumption DEF ServeInv, RouteNotFound, Goto, perThread
<1>1. TypeOK'
  BY DEF TypeOK, Kinds, Answers, Sites, ChainInv, ChainOf, AnswerInv, AnswerOf, Ended
<1>2. TableInv'
  BY DEF TypeOK, TableInv, ChainInv, ChainOf, Early
<1>3. ChainInv'
  <2> SUFFICES ASSUME NEW u \in Threads PROVE ChainOf(u)'
    BY DEF ChainInv
  <2>1. ChainOf(u) /\ AnswerOf(u) /\ ChainOf(t) /\ AnswerOf(t)
    BY DEF ChainInv, AnswerInv
  <2> QED
    BY <2>1 DEF TypeOK, ChainOf, AnswerOf, Early, Ended, Current, Kinds, Answers
<1>4. AnswerInv'
  <2> SUFFICES ASSUME NEW u \in Threads PROVE AnswerOf(u)'
    BY DEF AnswerInv
  <2>1. ChainOf(u) /\ AnswerOf(u) /\ ChainOf(t) /\ AnswerOf(t)
    BY DEF ChainInv, AnswerInv
  <2> QED
    BY <2>1
      DEF TypeOK, ChainOf, AnswerOf, Fits, Early, Ended, Current, Kinds, Answers, Sites
<1>5. LockIsInLimiter'
  BY DEF TypeOK, LockIsInLimiter, LockLost, AnswerInv, AnswerOf, Ended, Sites
<1> QED
  BY <1>1, <1>2, <1>3, <1>4, <1>5

LEMMA RecoveryStep == ASSUME ServeInv, NEW t \in Threads, Recovery(t) PROVE ServeInv'
<1> USE PipelineAssumption DEF ServeInv, Recovery, InChain, Passed, Current, perThread
<1>1. TypeOK'
  BY DEF TypeOK, Kinds, Answers, Sites, ChainInv, ChainOf, AnswerInv, AnswerOf, Ended
<1>2. TableInv'
  BY DEF TypeOK, TableInv, ChainInv, ChainOf, Early
<1>3. ChainInv'
  <2> SUFFICES ASSUME NEW u \in Threads PROVE ChainOf(u)'
    BY DEF ChainInv
  <2>1. ChainOf(u) /\ AnswerOf(u) /\ ChainOf(t) /\ AnswerOf(t)
    BY DEF ChainInv, AnswerInv
  <2> QED
    BY <2>1, SMTT(30) DEF TypeOK, ChainOf, AnswerOf, Early, Ended, Current, Kinds, Answers
<1>4. AnswerInv'
  <2> SUFFICES ASSUME NEW u \in Threads PROVE AnswerOf(u)'
    BY DEF AnswerInv
  <2>1. ChainOf(u) /\ AnswerOf(u) /\ ChainOf(t) /\ AnswerOf(t)
    BY DEF ChainInv, AnswerInv
  <2>2. CASE u = t
    BY <2>1, <2>2
      DEF TypeOK, ChainOf, AnswerOf, Fits, Early, Ended, Current, Kinds, Answers, Sites
  <2>3. CASE u # t
    <3>1. /\ passed'[u] = passed[u] /\ pc'[u] = pc[u] /\ res'[u] = res[u]
          /\ sent'[u] = sent[u] /\ armed'[u] = armed[u] /\ recovered'[u] = recovered[u]
          /\ table' = table
      BY <2>3 DEF TypeOK
    <3>2. \A a : Fits(u, a)' <=> Fits(u, a)
      BY <3>1 DEF Fits, Current
    <3> QED
      BY <2>1, <3>1, <3>2 DEF AnswerOf
  <2> QED
    BY <2>2, <2>3
<1>5. LockIsInLimiter'
  BY DEF TypeOK, LockIsInLimiter, LockLost, AnswerInv, AnswerOf, Ended, Sites
<1> QED
  BY <1>1, <1>2, <1>3, <1>4, <1>5

LEMMA UserStep == ASSUME ServeInv, NEW t \in Threads, User(t) PROVE ServeInv'
<1> USE PipelineAssumption DEF ServeInv, User, InChain, Passed, Answer, Current, perThread
<1>1. CASE Passed(t) /\ UNCHANGED <<pc, res>>
  <2>1. TypeOK'
    BY <1>1
      DEF TypeOK, Kinds, Answers, Sites, ChainInv, ChainOf, AnswerInv, AnswerOf, Ended
  <2>2. TableInv'
    BY <1>1 DEF TypeOK, TableInv, ChainInv, ChainOf, Early
  <2>3. ChainInv'
    <3> SUFFICES ASSUME NEW u \in Threads PROVE ChainOf(u)'
      BY DEF ChainInv
    <3>1. ChainOf(u) /\ AnswerOf(u) /\ ChainOf(t) /\ AnswerOf(t)
      BY DEF ChainInv, AnswerInv
    <3> QED
      BY <1>1, <3>1, SMTT(30) DEF TypeOK, ChainOf, AnswerOf, Early, Ended, Current, Kinds, Answers
  <2>4. AnswerInv'
    <3> SUFFICES ASSUME NEW u \in Threads PROVE AnswerOf(u)'
      BY DEF AnswerInv
    <3>1. ChainOf(u) /\ AnswerOf(u) /\ ChainOf(t) /\ AnswerOf(t)
      BY DEF ChainInv, AnswerInv
    <3>2. CASE u = t
      BY <1>1, <3>1, <3>2
        DEF TypeOK, ChainOf, AnswerOf, Fits, Early, Ended, Current, Kinds, Answers, Sites
    <3>3. CASE u # t
      <4>1. /\ passed'[u] = passed[u] /\ pc'[u] = pc[u] /\ res'[u] = res[u]
            /\ sent'[u] = sent[u] /\ armed'[u] = armed[u] /\ recovered'[u] = recovered[u]
            /\ table' = table
        BY <1>1, <3>3 DEF TypeOK
      <4>2. \A a : Fits(u, a)' <=> Fits(u, a)
        BY <4>1 DEF Fits, Current
      <4> QED
        BY <3>1, <4>1, <4>2 DEF AnswerOf
    <3> QED
      BY <3>2, <3>3
  <2>5. LockIsInLimiter'
    BY <1>1 DEF TypeOK, LockIsInLimiter, LockLost, AnswerInv, AnswerOf, Ended, Sites
  <2> QED
    BY <2>1, <2>2, <2>3, <2>4, <2>5
<1>2. CASE Answer(t, "user") /\ UNCHANGED passed
  <2>1. TypeOK'
    BY <1>2
      DEF TypeOK, Kinds, Answers, Sites, ChainInv, ChainOf, AnswerInv, AnswerOf, Ended
  <2>2. TableInv'
    BY <1>2 DEF TypeOK, TableInv, ChainInv, ChainOf, Early
  <2>3. ChainInv'
    <3> SUFFICES ASSUME NEW u \in Threads PROVE ChainOf(u)'
      BY DEF ChainInv
    <3>1. ChainOf(u) /\ AnswerOf(u) /\ ChainOf(t) /\ AnswerOf(t)
      BY DEF ChainInv, AnswerInv
    <3> QED
      BY <1>2, <3>1 DEF TypeOK, ChainOf, AnswerOf, Early, Ended, Current, Kinds, Answers
  <2>4. AnswerInv'
    <3> SUFFICES ASSUME NEW u \in Threads PROVE AnswerOf(u)'
      BY DEF AnswerInv
    <3>1. ChainOf(u) /\ AnswerOf(u) /\ ChainOf(t) /\ AnswerOf(t)
      BY DEF ChainInv, AnswerInv
    <3> QED
      BY <1>2, <3>1, SMTT(30)
        DEF TypeOK, ChainOf, AnswerOf, Fits, Early, Ended, Current, Kinds, Answers, Sites
  <2>5. LockIsInLimiter'
    BY <1>2 DEF TypeOK, LockIsInLimiter, LockLost, AnswerInv, AnswerOf, Ended, Sites
  <2> QED
    BY <2>1, <2>2, <2>3, <2>4, <2>5
<1> QED
  BY <1>1, <1>2

LEMMA LimiterLockStep == ASSUME ServeInv, NEW t \in Threads, LimiterLock(t) PROVE ServeInv'
<1> USE PipelineAssumption DEF ServeInv, LimiterLock, InChain, Current, perThread
<1>1. TypeOK'
  BY DEF TypeOK, Kinds, Answers, Sites, ChainInv, ChainOf, AnswerInv, AnswerOf, Ended
<1>2. TableInv'
  BY DEF TypeOK, TableInv, ChainInv, ChainOf, Early
<1>3. ChainInv'
  <2> SUFFICES ASSUME NEW u \in Threads PROVE ChainOf(u)'
    BY DEF ChainInv
  <2>1. ChainOf(u) /\ AnswerOf(u) /\ ChainOf(t) /\ AnswerOf(t)
    BY DEF ChainInv, AnswerInv
  <2> QED
    BY <2>1 DEF TypeOK, ChainOf, AnswerOf, Early, Ended, Current, Kinds, Answers
<1>4. AnswerInv'
  <2> SUFFICES ASSUME NEW u \in Threads PROVE AnswerOf(u)'
    BY DEF AnswerInv
  <2>1. ChainOf(u) /\ AnswerOf(u) /\ ChainOf(t) /\ AnswerOf(t)
    BY DEF ChainInv, AnswerInv
  <2> QED
    BY <2>1
      DEF TypeOK, ChainOf, AnswerOf, Fits, Early, Ended, Current, Kinds, Answers, Sites
<1>5. LockIsInLimiter'
  BY DEF TypeOK, LockIsInLimiter, LockLost, AnswerInv, AnswerOf, Ended, Sites
<1> QED
  BY <1>1, <1>2, <1>3, <1>4, <1>5

LEMMA LimiterDecidesStep == ASSUME ServeInv, NEW t \in Threads, LimiterDecides(t) PROVE ServeInv'
<1> USE PipelineAssumption DEF ServeInv, LimiterDecides, Passed, Answer, Current, perThread
<1>1. CASE Passed(t) /\ pc' = [pc EXCEPT ![t] = "chain"] /\ UNCHANGED res
  <2>1. TypeOK'
    BY <1>1
      DEF TypeOK, Kinds, Answers, Sites, ChainInv, ChainOf, AnswerInv, AnswerOf, Ended
  <2>2. TableInv'
    BY <1>1 DEF TypeOK, TableInv, ChainInv, ChainOf, Early
  <2>3. ChainInv'
    <3> SUFFICES ASSUME NEW u \in Threads PROVE ChainOf(u)'
      BY DEF ChainInv
    <3>1. ChainOf(u) /\ AnswerOf(u) /\ ChainOf(t) /\ AnswerOf(t)
      BY DEF ChainInv, AnswerInv
    <3> QED
      BY <1>1, <3>1, SMTT(30) DEF TypeOK, ChainOf, AnswerOf, Early, Ended, Current, Kinds, Answers
  <2>4. AnswerInv'
    <3> SUFFICES ASSUME NEW u \in Threads PROVE AnswerOf(u)'
      BY DEF AnswerInv
    <3>1. ChainOf(u) /\ AnswerOf(u) /\ ChainOf(t) /\ AnswerOf(t)
      BY DEF ChainInv, AnswerInv
    <3>2. CASE u = t
      BY <1>1, <3>1, <3>2
        DEF TypeOK, ChainOf, AnswerOf, Fits, Early, Ended, Current, Kinds, Answers, Sites
    <3>3. CASE u # t
      <4>1. /\ passed'[u] = passed[u] /\ pc'[u] = pc[u] /\ res'[u] = res[u]
            /\ sent'[u] = sent[u] /\ armed'[u] = armed[u] /\ recovered'[u] = recovered[u]
            /\ table' = table
        BY <1>1, <3>3 DEF TypeOK
      <4>2. \A a : Fits(u, a)' <=> Fits(u, a)
        BY <4>1 DEF Fits, Current
      <4> QED
        BY <3>1, <4>1, <4>2 DEF AnswerOf
    <3> QED
      BY <3>2, <3>3
  <2>5. LockIsInLimiter'
    BY <1>1 DEF TypeOK, LockIsInLimiter, LockLost, AnswerInv, AnswerOf, Ended, Sites
  <2> QED
    BY <2>1, <2>2, <2>3, <2>4, <2>5
<1>2. CASE Answer(t, "429") /\ UNCHANGED passed
  <2>1. TypeOK'
    BY <1>2
      DEF TypeOK, Kinds, Answers, Sites, ChainInv, ChainOf, AnswerInv, AnswerOf, Ended
  <2>2. TableInv'
    BY <1>2 DEF TypeOK, TableInv, ChainInv, ChainOf, Early
  <2>3. ChainInv'
    <3> SUFFICES ASSUME NEW u \in Threads PROVE ChainOf(u)'
      BY DEF ChainInv
    <3>1. ChainOf(u) /\ AnswerOf(u) /\ ChainOf(t) /\ AnswerOf(t)
      BY DEF ChainInv, AnswerInv
    <3> QED
      BY <1>2, <3>1 DEF TypeOK, ChainOf, AnswerOf, Early, Ended, Current, Kinds, Answers
  <2>4. AnswerInv'
    <3> SUFFICES ASSUME NEW u \in Threads PROVE AnswerOf(u)'
      BY DEF AnswerInv
    <3>1. ChainOf(u) /\ AnswerOf(u) /\ ChainOf(t) /\ AnswerOf(t)
      BY DEF ChainInv, AnswerInv
    <3> QED
      BY <1>2, <3>1, SMTT(30)
        DEF TypeOK, ChainOf, AnswerOf, Fits, Early, Ended, Current, Kinds, Answers, Sites
  <2>5. LockIsInLimiter'
    BY <1>2 DEF TypeOK, LockIsInLimiter, LockLost, AnswerInv, AnswerOf, Ended, Sites
  <2> QED
    BY <2>1, <2>2, <2>3, <2>4, <2>5
<1> QED
  BY <1>1, <1>2

LEMMA ChainDoneStep == ASSUME ServeInv, NEW t \in Threads, ChainDone(t) PROVE ServeInv'
<1> USE PipelineAssumption DEF ServeInv, ChainDone, Goto, perThread
<1>1. TypeOK'
  BY DEF TypeOK, Kinds, Answers, Sites, ChainInv, ChainOf, AnswerInv, AnswerOf, Ended
<1>2. TableInv'
  BY DEF TypeOK, TableInv, ChainInv, ChainOf, Early
<1>3. ChainInv'
  <2> SUFFICES ASSUME NEW u \in Threads PROVE ChainOf(u)'
    BY DEF ChainInv
  <2>1. ChainOf(u) /\ AnswerOf(u) /\ ChainOf(t) /\ AnswerOf(t)
    BY DEF ChainInv, AnswerInv
  <2> QED
    BY <2>1 DEF TypeOK, ChainOf, AnswerOf, Early, Ended, Current, Kinds, Answers
<1>4. AnswerInv'
  <2> SUFFICES ASSUME NEW u \in Threads PROVE AnswerOf(u)'
    BY DEF AnswerInv
  <2>1. ChainOf(u) /\ AnswerOf(u) /\ ChainOf(t) /\ AnswerOf(t)
    BY DEF ChainInv, AnswerInv
  <2> QED
    BY <2>1
      DEF TypeOK, ChainOf, AnswerOf, Fits, Early, Ended, Current, Kinds, Answers, Sites
<1>5. LockIsInLimiter'
  BY DEF TypeOK, LockIsInLimiter, LockLost, AnswerInv, AnswerOf, Ended, Sites
<1> QED
  BY <1>1, <1>2, <1>3, <1>4, <1>5

LEMMA HandleStep == ASSUME ServeInv, NEW t \in Threads, Handle(t) PROVE ServeInv'
<1> USE PipelineAssumption DEF ServeInv, Handle, Answer, perThread
<1>1. TypeOK'
  BY DEF TypeOK, Kinds, Answers, Sites, ChainInv, ChainOf, AnswerInv, AnswerOf, Ended
<1>2. TableInv'
  BY DEF TypeOK, TableInv, ChainInv, ChainOf, Early
<1>3. ChainInv'
  <2> SUFFICES ASSUME NEW u \in Threads PROVE ChainOf(u)'
    BY DEF ChainInv
  <2>1. ChainOf(u) /\ AnswerOf(u) /\ ChainOf(t) /\ AnswerOf(t)
    BY DEF ChainInv, AnswerInv
  <2> QED
    BY <2>1 DEF TypeOK, ChainOf, AnswerOf, Early, Ended, Current, Kinds, Answers
<1>4. AnswerInv'
  <2> SUFFICES ASSUME NEW u \in Threads PROVE AnswerOf(u)'
    BY DEF AnswerInv
  <2>1. ChainOf(u) /\ AnswerOf(u) /\ ChainOf(t) /\ AnswerOf(t)
    BY DEF ChainInv, AnswerInv
  <2> QED
    BY <2>1
      DEF TypeOK, ChainOf, AnswerOf, Fits, Early, Ended, Current, Kinds, Answers, Sites
<1>5. LockIsInLimiter'
  BY DEF TypeOK, LockIsInLimiter, LockLost, AnswerInv, AnswerOf, Ended, Sites
<1> QED
  BY <1>1, <1>2, <1>3, <1>4, <1>5

LEMMA SendStep == ASSUME ServeInv, NEW t \in Threads, Send(t) PROVE ServeInv'
<1> USE PipelineAssumption DEF ServeInv, Send, Goto, perThread
<1>1. sent[t] = <<>> /\ res[t] \in Answers /\ Fits(t, res[t]) /\ recovered[t] # "send"
  BY DEF AnswerInv, AnswerOf, Ended
<1>2. Append(<<>>, res[t]) = <<res[t]>>
  OBVIOUS
<1>3. \A a \in Answers : <<a>> = <<"handler">> => a = "handler"
  OBVIOUS
<1>4. sent' = [sent EXCEPT ![t] = <<res[t]>>]
  BY <1>1, <1>2
<1>5. TypeOK'
  BY <1>1, <1>3, <1>4
    DEF TypeOK, Kinds, Answers, Sites, ChainInv, ChainOf, AnswerInv, AnswerOf, Ended
<1>6. TableInv'
  BY <1>1, <1>3, <1>4 DEF TypeOK, TableInv, ChainInv, ChainOf, Early
<1>7. ChainInv'
  <2> SUFFICES ASSUME NEW u \in Threads PROVE ChainOf(u)'
    BY DEF ChainInv
  <2>1. ChainOf(u) /\ AnswerOf(u) /\ ChainOf(t) /\ AnswerOf(t)
    BY DEF ChainInv, AnswerInv
  <2> QED
    BY <1>1, <1>3, <1>4, <2>1
      DEF TypeOK, ChainOf, AnswerOf, Early, Ended, Current, Kinds, Answers
<1>8. AnswerInv'
  <2> SUFFICES ASSUME NEW u \in Threads PROVE AnswerOf(u)'
    BY DEF AnswerInv
  <2>1. ChainOf(u) /\ AnswerOf(u) /\ ChainOf(t) /\ AnswerOf(t)
    BY DEF ChainInv, AnswerInv
  <2> QED
    BY <1>1, <1>3, <1>4, <2>1
      DEF TypeOK, ChainOf, AnswerOf, Fits, Early, Ended, Current, Kinds, Answers, Sites
<1>9. LockIsInLimiter'
  BY <1>1, <1>3, <1>4
    DEF TypeOK, LockIsInLimiter, LockLost, AnswerInv, AnswerOf, Ended, Sites
<1> QED
  BY <1>5, <1>6, <1>7, <1>8, <1>9

LEMMA CleanupStep == ASSUME ServeInv, NEW t \in Threads, Cleanup(t) PROVE ServeInv'
<1> USE PipelineAssumption DEF ServeInv, Cleanup, Goto, perThread
<1>1. TypeOK'
  BY DEF TypeOK, Kinds, Answers, Sites, ChainInv, ChainOf, AnswerInv, AnswerOf, Ended
<1>2. TableInv'
  BY DEF TypeOK, TableInv, ChainInv, ChainOf, Early
<1>3. ChainInv'
  <2> SUFFICES ASSUME NEW u \in Threads PROVE ChainOf(u)'
    BY DEF ChainInv
  <2>1. ChainOf(u) /\ AnswerOf(u) /\ ChainOf(t) /\ AnswerOf(t)
    BY DEF ChainInv, AnswerInv
  <2> QED
    BY <2>1 DEF TypeOK, ChainOf, AnswerOf, Early, Ended, Current, Kinds, Answers
<1>4. AnswerInv'
  <2> SUFFICES ASSUME NEW u \in Threads PROVE AnswerOf(u)'
    BY DEF AnswerInv
  <2>1. ChainOf(u) /\ AnswerOf(u) /\ ChainOf(t) /\ AnswerOf(t)
    BY DEF ChainInv, AnswerInv
  <2> QED
    BY <2>1
      DEF TypeOK, ChainOf, AnswerOf, Fits, Early, Ended, Current, Kinds, Answers, Sites
<1>5. LockIsInLimiter'
  BY DEF TypeOK, LockIsInLimiter, LockLost, AnswerInv, AnswerOf, Ended, Sites
<1> QED
  BY <1>1, <1>2, <1>3, <1>4, <1>5

LEMMA LeaveStep == ASSUME ServeInv, NEW t \in Threads, Leave(t) PROVE ServeInv'
<1> USE PipelineAssumption DEF ServeInv, Leave, Goto, perThread
<1>1. TypeOK'
  BY DEF TypeOK, Kinds, Answers, Sites, ChainInv, ChainOf, AnswerInv, AnswerOf, Ended
<1>2. TableInv'
  BY DEF TypeOK, TableInv, ChainInv, ChainOf, Early
<1>3. ChainInv'
  <2> SUFFICES ASSUME NEW u \in Threads PROVE ChainOf(u)'
    BY DEF ChainInv
  <2>1. ChainOf(u) /\ AnswerOf(u) /\ ChainOf(t) /\ AnswerOf(t)
    BY DEF ChainInv, AnswerInv
  <2> QED
    BY <2>1 DEF TypeOK, ChainOf, AnswerOf, Early, Ended, Current, Kinds, Answers
<1>4. AnswerInv'
  <2> SUFFICES ASSUME NEW u \in Threads PROVE AnswerOf(u)'
    BY DEF AnswerInv
  <2>1. ChainOf(u) /\ AnswerOf(u) /\ ChainOf(t) /\ AnswerOf(t)
    BY DEF ChainInv, AnswerInv
  <2> QED
    BY <2>1
      DEF TypeOK, ChainOf, AnswerOf, Fits, Early, Ended, Current, Kinds, Answers, Sites
<1>5. LockIsInLimiter'
  BY DEF TypeOK, LockIsInLimiter, LockLost, AnswerInv, AnswerOf, Ended, Sites
<1> QED
  BY <1>1, <1>2, <1>3, <1>4, <1>5

LEMMA FaultRecoveredStep == ASSUME ServeInv, NEW t \in Threads, FaultRecovered(t) PROVE ServeInv'
<1> USE PipelineAssumption DEF ServeInv, FaultRecovered, perThread
<1>1. /\ pc[t] = "send" => SiteOf(t) = "send"
      /\ pc[t] = "cleanup" => SiteOf(t) = "cleanup"
      /\ pc[t] \in {"chain", "limiter", "handler"} =>
           SiteOf(t) \in {"middleware", "limiter", "handler"}
      /\ pc[t] = "limiter" => SiteOf(t) = "limiter"
      /\ pc[t] \in {"chain", "limiter", "handler", "send", "cleanup"}
  BY DEF MayFault, SiteOf, Sites, TypeOK
<1>2. /\ pc[t] = "send" => AfterFault(SiteOf(t)) = "cleanup"
      /\ pc[t] = "cleanup" => AfterFault(SiteOf(t)) = "leave"
      /\ pc[t] \in {"chain", "limiter", "handler"} => AfterFault(SiteOf(t)) = "send"
  BY <1>1 DEF AfterFault
<1>3. server # "setup" /\ recovered[t] = "no"
  BY <1>1 DEF TypeOK, TableInv, AnswerInv, AnswerOf, Ended
<1>4. TypeOK'
  BY <1>1, <1>2, <1>3
    DEF TypeOK, Kinds, Answers, Sites, ChainInv, ChainOf, AnswerInv, AnswerOf, Ended
<1>5. TableInv'
  BY <1>1, <1>2, <1>3 DEF TypeOK, TableInv, ChainInv, ChainOf, Early
<1>6. ChainInv'
  <2> SUFFICES ASSUME NEW u \in Threads PROVE ChainOf(u)'
    BY DEF ChainInv
  <2>1. ChainOf(u) /\ AnswerOf(u) /\ ChainOf(t) /\ AnswerOf(t)
    BY DEF ChainInv, AnswerInv
  <2> QED
    BY <1>1, <1>2, <1>3, <2>1
      DEF TypeOK, ChainOf, AnswerOf, Early, Ended, Current, Kinds, Answers
<1>7. AnswerInv'
  <2> SUFFICES ASSUME NEW u \in Threads PROVE AnswerOf(u)'
    BY DEF AnswerInv
  <2>1. ChainOf(u) /\ AnswerOf(u) /\ ChainOf(t) /\ AnswerOf(t)
    BY DEF ChainInv, AnswerInv
  <2> QED
    BY <1>1, <1>2, <1>3, <2>1, SMTT(30)
      DEF TypeOK, ChainOf, AnswerOf, Fits, Early, Ended, Current, Kinds, Answers, Sites
<1>8. LockIsInLimiter'
  BY <1>1, <1>2, <1>3
    DEF TypeOK, LockIsInLimiter, LockLost, AnswerInv, AnswerOf, Ended, Sites
<1> QED
  BY <1>4, <1>5, <1>6, <1>7, <1>8

THEOREM ServeInvStays == ServeInv /\ [Next]_vars => ServeInv'
<1> SUFFICES ASSUME ServeInv, [Next]_vars PROVE ServeInv'
  OBVIOUS
<1>1. ASSUME NEW use \in Kinds, Use(use) PROVE ServeInv'
  BY <1>1, UseStep
<1>2. CASE Listen
  BY <1>2, ListenStep
<1>3. CASE Shutdown
  BY <1>3, ShutdownStep
<1>4. CASE ListenGone
  BY <1>4, DieStep DEF ListenGone
<1>5. ASSUME NEW t \in Threads, Start(t) \/ Serve(t) \/ Fault(t) PROVE ServeInv'
  <2>1. CASE RoutesGone(t) \/ LeaveGone(t) \/ FaultKills(t)
    BY <2>1, DieStep DEF RoutesGone, LeaveGone, FaultKills
  <2>2. CASE Start(t) \/ Refuse(t) \/ ReadRequest(t) \/ RouteFound(t) \/ RouteNotFound(t)
    BY <2>2, StartStep, RefuseStep, ReadRequestStep, RouteFoundStep, RouteNotFoundStep
  <2>3. CASE Recovery(t) \/ User(t) \/ LimiterLock(t) \/ LimiterDecides(t) \/ ChainDone(t)
    BY <2>3, RecoveryStep, UserStep, LimiterLockStep, LimiterDecidesStep, ChainDoneStep
  <2>4. CASE Handle(t) \/ Send(t) \/ Cleanup(t) \/ Leave(t) \/ FaultRecovered(t)
    BY <2>4, HandleStep, SendStep, CleanupStep, LeaveStep, FaultRecoveredStep
  <2> QED
    BY <1>5, <2>1, <2>2, <2>3, <2>4 DEF Serve, Fault
<1>6. CASE UNCHANGED vars
  BY <1>6
    DEF vars, perThread, ServeInv, TypeOK, TableInv, ChainInv, ChainOf, AnswerInv, AnswerOf, Fits,
    LockIsInLimiter, LockLost, Current
<1> QED
  BY <1>1, <1>2, <1>3, <1>4, <1>5, <1>6 DEF Next

LEMMA ServeInvHolds == Spec => []ServeInv
<1> QED
  BY ChainInit, ServeInvStays, PTL DEF Spec

\* Table, threads and answers keep their types, and the table never overflows.
THEOREM ChainTypesHold == Spec => []TypeOK
<1>1. ServeInv => TypeOK
  BY DEF ServeInv
<1> QED
  BY ServeInvHolds, <1>1, PTL

\* Whatever faults and whenever the server is shut down, no handler runs before
\* all the middlewares of the table, the first ones registered, have said next.
THEOREM HandlersComeLast == Spec => []ChainInOrder
<1>1. ServeInv => ChainInOrder
  <2> SUFFICES ASSUME ServeInv, NEW t \in Threads,
                      pc[t] = "handler" \/ res[t] = "handler" \/ sent[t] = <<"handler">>
               PROVE  passed[t] = FirstOf(asked, MaxMiddlewares)
    BY DEF ChainInOrder
  <2> USE PipelineAssumption DEF ServeInv, TypeOK
  <2>1. Len(passed[t]) = Len(table) /\ passed[t] \in Seq(Kinds)
    BY DEF ChainInv, ChainOf
  <2>2. \A i \in 1 .. Len(table) : passed[t][i] = asked[i]
    BY <2>1 DEF ChainInv, ChainOf, TableInv
  <2>3. CASE Len(asked) <= MaxMiddlewares
    <3>1. Len(asked) = Len(table)
      BY <2>3 DEF TableInv
    <3> QED
      BY <2>1, <2>2, <2>3, <3>1, SeqEqual DEF FirstOf
  <2>4. CASE ~(Len(asked) <= MaxMiddlewares)
    <3>1. Len(table) = MaxMiddlewares
      BY <2>4 DEF TableInv
    <3> DEFINE first == SubSeq(asked, 1, MaxMiddlewares)
    <3>2. first \in Seq(Kinds) /\ Len(first) = MaxMiddlewares
      BY <2>4
    <3>3. \A i \in 1 .. MaxMiddlewares : first[i] = asked[i]
      BY <2>4
    <3>4. passed[t] = first
      BY <2>1, <2>2, <3>1, <3>2, <3>3, SeqEqual
    <3> QED
      BY <2>4, <3>4 DEF FirstOf
  <2> QED
    BY <2>3, <2>4
<1> QED
  BY ServeInvHolds, <1>1, PTL

\* The answer is that of whoever stopped the chain.
THEOREM StopperAnswers == Spec => []AnswerIsOfStopper
<1>1. ServeInv => AnswerIsOfStopper
  <2> SUFFICES ASSUME ServeInv, NEW t \in Threads, sent[t] # <<>>
               PROVE  \E a \in Answers : sent[t] = <<a>> /\ Fits(t, a)
    BY DEF AnswerIsOfStopper, Fits, Answers
  <2> QED
    BY DEF ServeInv, AnswerInv, AnswerOf
<1> QED
  BY ServeInvHolds, <1>1, PTL

\* One answer for every thread that has ended, none if answering failed.
THEOREM AnsweredOnce == Spec => []OneAnswer
<1>1. ServeInv => OneAnswer
  <2>1. \A a \in Answers : Len(<<a>>) = 1
    OBVIOUS
  <2> QED
    BY <2>1 DEF ServeInv, AnswerInv, AnswerOf, OneAnswer, Ended
<1> QED
  BY ServeInvHolds, <1>1, PTL

\* Only a recovered fault inside the limiter leaves its mutex locked.
THEOREM LockKept == Spec => []LockIsInLimiter
<1>1. ServeInv => LockIsInLimiter
  BY DEF ServeInv
<1> QED
  BY ServeInvHolds, <1>1, PTL

-----------------------------------------------------------------------------
(***************************************************************************)
(* The body                                                                *)
(***************************************************************************)

\* A client sends one request and waits for its answer.
OneRequest == Extras \subseteq {0}

\* What is in memory is the beginning of the body.
MemoryInv ==
  body # NoBody =>
    /\ InMemory
    /\ Len(body) <= clen
    /\ body = Part(hlen, hlen + Len(body))

\* How far the socket has been read, by where the thread is.  A text body that
\* was read into memory leaves a gap between the file and the socket.
SocketInv ==
  /\ buf <= taken
  /\ where \in {"head", "body"} => taken = buf /\ body = NoBody
  /\ where = "memory" =>
       body # NoBody /\ taken = hlen + Len(body) /\ remaining = clen - Len(body)
  /\ where = "media" => taken = IF body = NoBody THEN buf ELSE hlen + Len(body)
  /\ where = "file" =>
       /\ Terminated /\ file # NoFile /\ Len(file) <= clen
       /\ \/ taken = hlen + Len(file) /\ file = Part(hlen, hlen + Len(file))
          \/ taken > hlen + Len(file) /\ body # NoBody

Cut == ended /\ arrived < BodyEnd

\* Without faults a body is missing, in part or whole, only if the client went
\* away or no memory was to be had for it.
DeliveryInv ==
  /\ where \notin {"head", "body", "memory"} /\ body # NoBody /\ ~faulty =>
       Len(body) = clen \/ Cut
  /\ where = "media" /\ body = NoBody /\ ~faulty => ~InMemory
  /\ AtHandler /\ ~filename /\ body = NoBody /\ clen > 0 /\ Terminated /\ ~faulty =>
       Cut \/ (kind = "json" /\ clen > MaxMem)

NameInv == filename => AtHandler /\ file = Part(hlen, BodyEnd) /\ body = NoBody

BodyInv ==
  /\ BodyTypeOK /\ extra = 0
  /\ MemoryInv /\ SocketInv /\ DeliveryInv /\ NameInv

-----------------------------------------------------------------------------
(***************************************************************************)
(* Runs of positions                                                       *)
(***************************************************************************)

LEMMA PartFacts ==
  ASSUME NEW a \in Nat, NEW b \in Nat, a <= b
  PROVE  /\ Part(a, b) \in Seq(1 .. b) /\ Part(a, b) \in Seq(Nat)
         /\ Len(Part(a, b)) = b - a
<1>1. b - a \in Nat /\ \A i \in 1 .. (b - a) : a + i \in 1 .. b /\ a + i \in Nat
  OBVIOUS
<1> QED
  BY <1>1 DEF Part

\* Two runs that meet are one.
LEMMA PartJoins ==
  ASSUME NEW a \in Nat, NEW b \in Nat, NEW c \in Nat, a <= b, b <= c
  PROVE  Part(a, b) \o Part(b, c) = Part(a, c)
<1> DEFINE p == Part(a, b)  q == Part(b, c)  r == Part(a, c)
<1>1. /\ p \in Seq(Nat) /\ q \in Seq(Nat) /\ r \in Seq(Nat)
      /\ Len(p) = b - a /\ Len(q) = c - b /\ Len(r) = c - a
  BY PartFacts, a <= c
<1>2. /\ \A i \in 1 .. Len(p) : p[i] = a + i
      /\ \A i \in 1 .. Len(q) : q[i] = b + i
      /\ \A i \in 1 .. Len(r) : r[i] = a + i
  BY <1>1 DEF Part
<1> HIDE DEF p, q, r
<1>3. /\ p \o q \in Seq(Nat) /\ Len(p \o q) = Len(p) + Len(q)
      /\ \A i \in 1 .. Len(p) + Len(q) :
           (p \o q)[i] = IF i <= Len(p) THEN p[i] ELSE q[i - Len(p)]
  BY <1>1, ConcatProperties
<1>4. Len(p) + Len(q) = Len(r)
  BY <1>1
<1>5. ASSUME NEW i \in 1 .. Len(r) PROVE (p \o q)[i] = r[i]
  <2>1. r[i] = a + i
    BY <1>2
  <2>2. CASE i <= Len(p)
    BY <1>1, <1>2, <1>3, <1>4, <2>1, <2>2
  <2>3. CASE i > Len(p)
    <3>1. i - Len(p) \in 1 .. Len(q)
      BY <1>1, <2>3
    <3>2. q[i - Len(p)] = b + (i - Len(p))
      BY <1>2, <3>1
    <3> QED
      BY <1>1, <1>3, <1>4, <2>1, <2>3, <3>2, SMTT(30)
  <2>4. i <= Len(p) \/ i > Len(p)
    BY <1>1
  <2> QED
    BY <2>2, <2>3, <2>4
<1>6. p \o q = r
  BY <1>1, <1>3, <1>4, <1>5, SeqEqual
<1> QED
  BY <1>6 DEF p, q, r

LEMMA SeqWidens ==
  ASSUME NEW m \in Nat, NEW n \in Nat, m <= n, NEW s \in Seq(1 .. m)
  PROVE  s \in Seq(1 .. n)
OBVIOUS

LEMMA RecvFacts ==
  ASSUME NEW room, Recv(room), taken \in Nat, arrived \in Nat
  PROVE  taken' \in Nat /\ taken < taken' /\ taken' <= arrived /\ taken' - taken <= room
BY DEF Recv

-----------------------------------------------------------------------------
(***************************************************************************)
(* The invariant                                                           *)
(***************************************************************************)

LEMMA BodyInvStarts == OneRequest /\ BodyInit => BodyInv
<1> USE RequestBodyAssumption DEF OneRequest, BodyInit, BodyInv
<1>1. OneRequest /\ BodyInit => BodyTypeOK /\ extra = 0
  <2> SUFFICES ASSUME OneRequest, BodyInit PROVE BodyTypeOK /\ extra = 0
    OBVIOUS
  <2>1. extra = 0 /\ hlen \in Nat /\ clen \in Nat
    OBVIOUS
  <2>2. arrived \in 0 .. StreamEnd /\ taken \in 0 .. arrived
    BY <2>1 DEF StreamEnd, BodyEnd
  <2>3. remaining \in 0 .. SizeT - 1 /\ buf \in 0 .. Cap
    OBVIOUS
  <2> QED
    BY <2>1, <2>2, <2>3 DEF BodyTypeOK
<1>2. OneRequest /\ BodyInit => MemoryInv /\ SocketInv /\ DeliveryInv /\ NameInv
  BY DEF MemoryInv, SocketInv, DeliveryInv, NameInv, AtHandler
<1> QED
  BY <1>1, <1>2

\* The numbers and sequences of a state of the invariant.
LEMMA BodyFacts ==
  ASSUME BodyInv
  PROVE  /\ hlen \in Nat /\ clen \in Nat /\ clen < SizeT /\ SizeT \in Nat
         /\ arrived \in Nat /\ arrived <= BodyEnd /\ BodyEnd = hlen + clen
         /\ taken \in Nat /\ taken <= arrived
         /\ buf \in Nat /\ buf <= taken /\ buf <= Cap
         /\ Positions = 1 .. BodyEnd /\ BodyEnd \in Nat
         /\ body # NoBody => body \in Seq(Nat) /\ Len(body) \in Nat /\ hlen <= buf
         /\ file # NoFile => file \in Seq(Nat) /\ Len(file) \in Nat
<1> USE RequestBodyAssumption DEF BodyInv, BodyTypeOK, Positions, StreamEnd, BodyEnd
<1>1. /\ hlen \in Nat /\ clen \in Nat /\ clen < SizeT /\ SizeT \in Nat
      /\ arrived \in Nat /\ arrived <= BodyEnd
  OBVIOUS
<1>2. taken \in Nat /\ taken <= arrived /\ buf \in Nat /\ buf <= taken /\ buf <= Cap
  BY <1>1 DEF SocketInv
<1>3. body # NoBody => body \in Seq(Nat) /\ Len(body) \in Nat /\ hlen <= buf
  BY <1>1 DEF MemoryInv, InMemory, Terminated
<1>4. file # NoFile => file \in Seq(Nat) /\ Len(file) \in Nat
  BY <1>1
<1> QED
  BY <1>1, <1>2, <1>3, <1>4

LEMMA ClientSendStep == ASSUME BodyInv, ClientSend PROVE BodyInv'
<1> USE RequestBodyAssumption DEF BodyInv, ClientSend, request, BodyTypeOK, Positions, StreamEnd, BodyEnd
<1>1. BodyTypeOK' /\ extra' = 0
  BY DEF MemoryInv, SocketInv, NameInv
<1>2. MemoryInv'
  BY DEF MemoryInv, SocketInv, InMemory, Terminated
<1>3. SocketInv'
  BY DEF MemoryInv, SocketInv, NameInv, InMemory, Terminated, AtHandler
<1>4. DeliveryInv'
  BY DEF MemoryInv, SocketInv, DeliveryInv, NameInv, InMemory, Terminated, AtHandler, Cut
<1>5. NameInv'
  BY DEF MemoryInv, SocketInv, NameInv, AtHandler
<1> QED
  BY <1>1, <1>2, <1>3, <1>4, <1>5

LEMMA ClientEndStep == ASSUME BodyInv, ClientEnd PROVE BodyInv'
<1> USE RequestBodyAssumption DEF BodyInv, ClientEnd, request, BodyTypeOK, Positions, StreamEnd, BodyEnd
<1>1. BodyTypeOK' /\ extra' = 0
  BY DEF MemoryInv, SocketInv, NameInv
<1>2. MemoryInv'
  BY DEF MemoryInv, SocketInv, InMemory, Terminated
<1>3. SocketInv'
  BY DEF MemoryInv, SocketInv, NameInv, InMemory, Terminated, AtHandler
<1>4. DeliveryInv'
  BY DEF MemoryInv, SocketInv, DeliveryInv, NameInv, InMemory, Terminated, AtHandler, Cut
<1>5. NameInv'
  BY DEF MemoryInv, SocketInv, NameInv, AtHandler
<1> QED
  BY <1>1, <1>2, <1>3, <1>4, <1>5

LEMMA HeadStopsStep == ASSUME BodyInv, HeadStops PROVE BodyInv'
<1> USE RequestBodyAssumption DEF BodyInv, HeadStops, request, BodyTypeOK, Positions, StreamEnd, BodyEnd
<1>1. BodyTypeOK' /\ extra' = 0
  BY DEF MemoryInv, SocketInv, NameInv
<1>2. MemoryInv'
  BY DEF MemoryInv, SocketInv, InMemory, Terminated
<1>3. SocketInv'
  BY DEF MemoryInv, SocketInv, NameInv, InMemory, Terminated, AtHandler
<1>4. DeliveryInv'
  BY DEF MemoryInv, SocketInv, DeliveryInv, NameInv, InMemory, Terminated, AtHandler, Cut
<1>5. NameInv'
  BY DEF MemoryInv, SocketInv, NameInv, AtHandler
<1> QED
  BY <1>1, <1>2, <1>3, <1>4, <1>5

LEMMA SkipBodyStep == ASSUME BodyInv, SkipBody PROVE BodyInv'
<1> USE RequestBodyAssumption DEF BodyInv, SkipBody, request, BodyTypeOK, Positions, StreamEnd, BodyEnd
<1>1. BodyTypeOK' /\ extra' = 0
  BY DEF MemoryInv, SocketInv, NameInv
<1>2. MemoryInv'
  BY DEF MemoryInv, SocketInv, InMemory, Terminated
<1>3. SocketInv'
  BY DEF MemoryInv, SocketInv, NameInv, InMemory, Terminated, AtHandler
<1>4. DeliveryInv'
  BY DEF MemoryInv, SocketInv, DeliveryInv, NameInv, InMemory, Terminated, AtHandler, Cut
<1>5. NameInv'
  BY DEF MemoryInv, SocketInv, NameInv, AtHandler
<1> QED
  BY <1>1, <1>2, <1>3, <1>4, <1>5

LEMMA AllocBodyFailsStep == ASSUME BodyInv, AllocBodyFails PROVE BodyInv'
<1> USE RequestBodyAssumption DEF BodyInv, AllocBodyFails, request, BodyTypeOK, Positions, StreamEnd, BodyEnd
<1>1. BodyTypeOK' /\ extra' = 0
  BY DEF MemoryInv, SocketInv, NameInv
<1>2. MemoryInv'
  BY DEF MemoryInv, SocketInv, InMemory, Terminated
<1>3. SocketInv'
  BY DEF MemoryInv, SocketInv, NameInv, InMemory, Terminated, AtHandler
<1>4. DeliveryInv'
  BY DEF MemoryInv, SocketInv, DeliveryInv, NameInv, InMemory, Terminated, AtHandler, Cut
<1>5. NameInv'
  BY DEF MemoryInv, SocketInv, NameInv, AtHandler
<1> QED
  BY <1>1, <1>2, <1>3, <1>4, <1>5

LEMMA BodyCompleteStep == ASSUME BodyInv, BodyComplete PROVE BodyInv'
<1> USE RequestBodyAssumption DEF BodyInv, BodyComplete, request, BodyTypeOK, Positions, StreamEnd, BodyEnd
<1>1. BodyTypeOK' /\ extra' = 0
  BY DEF MemoryInv, SocketInv, NameInv
<1>2. MemoryInv'
  BY DEF MemoryInv, SocketInv, InMemory, Terminated
<1>3. SocketInv'
  BY DEF MemoryInv, SocketInv, NameInv, InMemory, Terminated, AtHandler
<1>4. DeliveryInv'
  BY DEF MemoryInv, SocketInv, DeliveryInv, NameInv, InMemory, Terminated, AtHandler, Cut
<1>5. NameInv'
  BY DEF MemoryInv, SocketInv, NameInv, AtHandler
<1> QED
  BY <1>1, <1>2, <1>3, <1>4, <1>5

LEMMA RecvHeadStep == ASSUME BodyInv, RecvHead PROVE BodyInv'
<1>1. taken' \in Nat /\ taken < taken' /\ taken' <= arrived /\ taken' - taken <= Cap - buf
  BY BodyFacts, RecvFacts DEF RecvHead
<1>2. taken = buf /\ body = NoBody
  BY DEF BodyInv, SocketInv, RecvHead
<1>3. buf' \in 0 .. Cap /\ taken' \in 0 .. arrived'
  BY BodyFacts, <1>1, <1>2, RequestBodyAssumption DEF RecvHead
<1> USE RequestBodyAssumption DEF BodyInv, RecvHead, request
<1>4. BodyTypeOK' /\ extra' = 0
  BY <1>3 DEF BodyTypeOK, Positions, StreamEnd, BodyEnd
<1>5. MemoryInv'
  BY BodyFacts, <1>1, <1>2
  DEF MemoryInv, SocketInv, InMemory, Terminated
<1>6. SocketInv'
  BY BodyFacts, <1>1, <1>2
  DEF MemoryInv, SocketInv, NameInv, InMemory, Terminated, AtHandler
<1>7. DeliveryInv'
  BY BodyFacts, <1>1, <1>2
  DEF MemoryInv, SocketInv, DeliveryInv, NameInv, InMemory, Terminated, AtHandler, Cut, BodyEnd
<1>8. NameInv'
  BY BodyFacts, <1>1, <1>2
  DEF MemoryInv, SocketInv, NameInv, AtHandler, BodyEnd
<1> QED
  BY <1>4, <1>5, <1>6, <1>7, <1>8

LEMMA AllocBodyStep == ASSUME BodyInv, AllocBody PROVE BodyInv'
<1>1. /\ hlen \in Nat /\ clen \in Nat /\ buf \in Nat /\ hlen <= buf /\ buf - hlen <= clen
      /\ BodyEnd \in Nat /\ buf <= BodyEnd /\ Positions = 1 .. BodyEnd
  BY BodyFacts DEF AllocBody, InMemory, Terminated
<1>2. /\ Part(hlen, buf) \in Seq(1 .. buf) /\ Part(hlen, buf) \in Seq(Nat)
      /\ Len(Part(hlen, buf)) = buf - hlen
  BY <1>1, PartFacts
<1>3. /\ body' = Part(hlen, buf) /\ body' \in Seq(Nat) /\ body' # NoBody
      /\ Len(body') = buf - hlen
  BY <1>2, RequestBodyAssumption DEF AllocBody
<1>4. body' \in Seq(Positions)
  BY <1>1, <1>2, <1>3, SeqWidens
<1>5. clen - (buf - hlen) \in 0 .. SizeT - 1 /\ SizeT \in Nat
  BY BodyFacts, <1>1
<1>6. (clen - (buf - hlen)) % SizeT = clen - (buf - hlen)
  BY <1>5
<1>7. remaining' = clen - Len(body') /\ remaining' \in 0 .. SizeT - 1
  BY <1>3, <1>5, <1>6 DEF AllocBody
<1>8. taken = buf /\ hlen + Len(body') = buf
  BY <1>1, <1>3 DEF BodyInv, SocketInv, AllocBody
<1> USE RequestBodyAssumption DEF BodyInv, AllocBody, request
<1>9. BodyTypeOK' /\ extra' = 0
  BY <1>4, <1>7 DEF BodyTypeOK, Positions, StreamEnd, BodyEnd
<1>10. MemoryInv'
  BY BodyFacts, <1>1, <1>3, <1>7, <1>8
  DEF MemoryInv, SocketInv, InMemory, Terminated
<1>11. SocketInv'
  BY BodyFacts, <1>1, <1>3, <1>7, <1>8
  DEF MemoryInv, SocketInv, NameInv, InMemory, Terminated, AtHandler
<1>12. DeliveryInv'
  BY BodyFacts, <1>1, <1>3, <1>7, <1>8
  DEF MemoryInv, SocketInv, DeliveryInv, NameInv, InMemory, Terminated, AtHandler, Cut, BodyEnd
<1>13. NameInv'
  BY BodyFacts, <1>1, <1>3, <1>7, <1>8
  DEF MemoryInv, SocketInv, NameInv, AtHandler, BodyEnd
<1> QED
  BY <1>9, <1>10, <1>11, <1>12, <1>13

LEMMA RecvBodyStep == ASSUME BodyInv, RecvBody PROVE BodyInv'
<1>1. /\ SizeT \in Nat /\ arrived \in Nat
      /\ remaining \in Nat /\ remaining < SizeT
  BY BodyFacts DEF BodyInv, BodyTypeOK
<1>2. /\ taken \in Nat /\ taken' \in Nat /\ taken < taken' /\ taken' <= arrived
      /\ taken' - taken <= remaining
  BY BodyFacts, RecvFacts DEF RecvBody
<1>3. /\ InMemory /\ body # NoBody /\ taken = hlen + Len(body) /\ remaining = clen - Len(body)
      /\ body = Part(hlen, taken)
  BY DEF BodyInv, SocketInv, MemoryInv, RecvBody
<1>4. /\ hlen \in Nat /\ clen \in Nat /\ hlen <= taken /\ taken <= taken' /\ hlen <= taken'
      /\ taken' <= BodyEnd /\ BodyEnd \in Nat /\ Positions = 1 .. BodyEnd
      /\ Len(body) \in Nat /\ SizeT \in Nat
  <2>1. PICK u \in Nat : u = taken'
    BY <1>2
  <2>2. /\ hlen \in Nat /\ clen \in Nat /\ hlen <= taken /\ Len(body) \in Nat
        /\ BodyEnd \in Nat /\ arrived <= BodyEnd /\ Positions = 1 .. BodyEnd
    BY BodyFacts, <1>3
  <2>3. taken <= u /\ hlen <= u /\ u <= BodyEnd
    BY <1>1, <1>2, <2>1, <2>2
  <2> QED
    BY <1>1, <2>1, <2>2, <2>3
<1>5. body' = Part(hlen, taken')
  <2>1. Part(hlen, taken) \o Part(taken, taken') = Part(hlen, taken')
    BY <1>2, <1>4, PartJoins
  <2> QED
    BY <1>3, <2>1 DEF RecvBody
<1>6. /\ Part(hlen, taken') \in Seq(1 .. taken') /\ Part(hlen, taken') \in Seq(Nat)
       /\ Len(Part(hlen, taken')) = taken' - hlen
  BY <1>2, <1>4, PartFacts
<1>7. body' # NoBody /\ body' \in Seq(Positions) /\ Len(body') = taken' - hlen
  BY <1>2, <1>4, <1>5, <1>6, SeqWidens, RequestBodyAssumption
<1>8. remaining' = remaining - (taken' - taken)
  BY DEF RecvBody
<1>9. /\ hlen + Len(body') = taken' /\ Len(body') <= clen
       /\ remaining' = clen - Len(body') /\ remaining' \in 0 .. SizeT - 1
  <2>1. PICK u \in Nat : u = taken'
    BY <1>2
  <2>2. Len(body') = u - hlen /\ remaining' = remaining - (u - taken)
    BY <1>7, <1>8, <2>1
  <2>3. taken < u /\ u - taken <= remaining
    BY <1>2, <2>1
  <2>4. taken = hlen + Len(body) /\ remaining = clen - Len(body)
    BY <1>3
  <2>5. /\ u - hlen <= clen /\ hlen + (u - hlen) = u
        /\ remaining - (u - taken) = clen - (u - hlen)
        /\ remaining - (u - taken) \in 0 .. SizeT - 1
    <3>1. /\ hlen \in Nat /\ clen \in Nat /\ taken \in Nat
          /\ Len(body) \in Nat /\ remaining \in Nat /\ SizeT \in Nat
      BY <1>1, <1>2, <1>4
    <3> QED
      BY <1>1, <2>3, <2>4, <3>1
  <2> QED
    BY <2>1, <2>2, <2>5
<1>10. taken' \in 0 .. arrived'
  BY <1>2 DEF RecvBody
<1>11. body' = Part(hlen, hlen + Len(body'))
  BY <1>5, <1>9
<1>12. /\ where' = "memory" /\ buf' = buf /\ hlen' = hlen /\ clen' = clen
       /\ buf \in Nat /\ buf <= taken
  BY BodyFacts DEF RecvBody, request
<1>13. buf' <= taken'
  <2>1. PICK u \in Nat : u = taken'
    BY <1>2
  <2> QED
    BY <1>2, <1>12, <2>1
<1> USE RequestBodyAssumption DEF BodyInv, RecvBody, request
<1>14. BodyTypeOK' /\ extra' = 0
  BY <1>7, <1>9, <1>10 DEF BodyTypeOK, Positions, StreamEnd, BodyEnd
<1>15. MemoryInv'
  BY BodyFacts, <1>2, <1>3, <1>7, <1>9, <1>11
  DEF MemoryInv, SocketInv, InMemory, Terminated
<1>16. SocketInv'
  BY <1>7, <1>9, <1>12, <1>13 DEF SocketInv
<1>17. DeliveryInv'
  BY BodyFacts, <1>2, <1>3, <1>7, <1>9, <1>11
  DEF MemoryInv, SocketInv, DeliveryInv, NameInv, InMemory, Terminated, AtHandler, Cut, BodyEnd
<1>18. NameInv'
  BY BodyFacts, <1>2, <1>3, <1>7, <1>9, <1>11
  DEF MemoryInv, SocketInv, NameInv, AtHandler, BodyEnd
<1> QED
  BY <1>14, <1>15, <1>16, <1>17, <1>18

LEMMA BodyStopsStep == ASSUME BodyInv, BodyStops PROVE BodyInv'
<1>1. body # NoBody /\ taken = hlen + Len(body) /\ remaining = clen - Len(body) /\ remaining > 0
  BY DEF BodyInv, SocketInv, BodyStops
<1>2. Len(body) < clen /\ taken < BodyEnd
  BY BodyFacts, <1>1
<1>3. ~faulty' => ended
  BY DEF BodyStops, BodyInv, BodyTypeOK
<1>4. ~faulty' => ended /\ arrived < BodyEnd
  BY <1>2, <1>3 DEF BodyStops, NothingWaits
<1> USE RequestBodyAssumption DEF BodyInv, BodyStops, request
<1>5. BodyTypeOK' /\ extra' = 0
  BY DEF BodyTypeOK, Positions, StreamEnd, BodyEnd
<1>6. MemoryInv'
  BY BodyFacts, <1>1, <1>2, <1>4
  DEF MemoryInv, SocketInv, InMemory, Terminated
<1>7. SocketInv'
  BY BodyFacts, <1>1, <1>2, <1>4
  DEF MemoryInv, SocketInv, NameInv, InMemory, Terminated, AtHandler
<1>8. DeliveryInv'
  BY BodyFacts, <1>1, <1>2, <1>4
  DEF MemoryInv, SocketInv, DeliveryInv, NameInv, InMemory, Terminated, AtHandler, Cut, BodyEnd
<1>9. NameInv'
  BY BodyFacts, <1>1, <1>2, <1>4
  DEF MemoryInv, SocketInv, NameInv, AtHandler, BodyEnd
<1> QED
  BY <1>5, <1>6, <1>7, <1>8, <1>9

LEMMA SkipMediaStep == ASSUME BodyInv, SkipMedia PROVE BodyInv'
<1> USE RequestBodyAssumption DEF BodyInv, SkipMedia, request, BodyTypeOK, Positions, StreamEnd, BodyEnd
<1>1. BodyTypeOK' /\ extra' = 0
  BY DEF MemoryInv, SocketInv, NameInv, Uploaded
<1>2. MemoryInv'
  BY DEF MemoryInv, SocketInv, InMemory, Terminated, Uploaded
<1>3. SocketInv'
  BY DEF MemoryInv, SocketInv, NameInv, InMemory, Terminated, AtHandler, Uploaded
<1>4. DeliveryInv'
  BY DEF MemoryInv, SocketInv, DeliveryInv, NameInv, InMemory, Terminated, AtHandler, Cut, Uploaded
<1>5. NameInv'
  BY DEF MemoryInv, SocketInv, NameInv, AtHandler, Uploaded
<1> QED
  BY <1>1, <1>2, <1>3, <1>4, <1>5

LEMMA OpenFailsStep == ASSUME BodyInv, OpenFails PROVE BodyInv'
<1> USE RequestBodyAssumption DEF BodyInv, OpenFails, request, BodyTypeOK, Positions, StreamEnd, BodyEnd
<1>1. BodyTypeOK' /\ extra' = 0
  BY DEF MemoryInv, SocketInv, NameInv, Uploaded
<1>2. MemoryInv'
  BY DEF MemoryInv, SocketInv, InMemory, Terminated, Uploaded
<1>3. SocketInv'
  BY DEF MemoryInv, SocketInv, NameInv, InMemory, Terminated, AtHandler, Uploaded
<1>4. DeliveryInv'
  BY DEF MemoryInv, SocketInv, DeliveryInv, NameInv, InMemory, Terminated, AtHandler, Cut, Uploaded
<1>5. NameInv'
  BY DEF MemoryInv, SocketInv, NameInv, AtHandler, Uploaded
<1> QED
  BY <1>1, <1>2, <1>3, <1>4, <1>5

LEMMA OpenFileStep == ASSUME BodyInv, OpenFile PROVE BodyInv'
<1>1. /\ Clipped = buf /\ hlen \in Nat /\ clen \in Nat /\ buf \in Nat /\ hlen <= buf
      /\ buf - hlen <= clen /\ buf <= BodyEnd /\ BodyEnd \in Nat /\ Positions = 1 .. BodyEnd
  BY BodyFacts DEF OpenFile, Clipped, Terminated
<1>2. /\ Part(hlen, buf) \in Seq(1 .. buf) /\ Part(hlen, buf) \in Seq(Nat)
      /\ Len(Part(hlen, buf)) = buf - hlen
  BY <1>1, PartFacts
<1>3. /\ file' = Part(hlen, buf) /\ file' # NoFile /\ file' \in Seq(Positions)
      /\ Len(file') = buf - hlen
  BY <1>1, <1>2, SeqWidens, RequestBodyAssumption DEF OpenFile
<1>4. hlen + Len(file') = buf
  BY <1>1, <1>3
<1> USE RequestBodyAssumption DEF BodyInv, OpenFile, request
<1>5. BodyTypeOK' /\ extra' = 0
  BY <1>3 DEF BodyTypeOK, Positions, StreamEnd, BodyEnd
<1>6. MemoryInv'
  BY BodyFacts, <1>1, <1>3, <1>4
  DEF MemoryInv, SocketInv, InMemory, Terminated
<1>7. SocketInv'
  BY BodyFacts, <1>1, <1>3, <1>4
  DEF MemoryInv, SocketInv, NameInv, InMemory, Terminated, AtHandler
<1>8. DeliveryInv'
  BY BodyFacts, <1>1, <1>3, <1>4
  DEF MemoryInv, SocketInv, DeliveryInv, NameInv, InMemory, Terminated, AtHandler, Cut, BodyEnd
<1>9. NameInv'
  BY BodyFacts, <1>1, <1>3, <1>4
  DEF MemoryInv, SocketInv, NameInv, AtHandler, BodyEnd
<1> QED
  BY <1>5, <1>6, <1>7, <1>8, <1>9

LEMMA RecvFileStep == ASSUME BodyInv, RecvFile PROVE BodyInv'
<1>1. file # NoFile /\ file \in Seq(Nat) /\ Len(file) \in Nat
  BY BodyFacts DEF BodyInv, SocketInv, RecvFile
<1>2. /\ taken \in Nat /\ taken' \in Nat /\ taken < taken' /\ taken' <= arrived
      /\ taken' - taken <= Lesser(FileBuffer, clen - Len(file))
  BY BodyFacts, RecvFacts DEF RecvFile
<1>3. /\ hlen \in Nat /\ clen \in Nat /\ taken <= taken' /\ taken' - taken <= clen - Len(file)
      /\ taken' <= BodyEnd /\ BodyEnd \in Nat /\ Positions = 1 .. BodyEnd
  BY BodyFacts, <1>1, <1>2, RequestBodyAssumption, SMTT(30) DEF Lesser
<1>4. /\ Part(taken, taken') \in Seq(1 .. taken') /\ Part(taken, taken') \in Seq(Nat)
      /\ Len(Part(taken, taken')) = taken' - taken
  BY <1>2, <1>3, PartFacts
<1>5. file' = file \o Part(taken, taken')
  BY DEF RecvFile
<1>6. file' \in Seq(Nat) /\ Len(file') = Len(file) + Len(Part(taken, taken')) /\ file' # NoFile
  BY <1>1, <1>4, <1>5, ConcatProperties, RequestBodyAssumption, ZenonT(30)
<1>7. Len(file') = Len(file) + (taken' - taken) /\ Len(file') <= clen /\ Len(file') \in Nat
  BY <1>1, <1>2, <1>3, <1>4, <1>6
<1>8. file' \in Seq(Positions)
  <2>1. Part(taken, taken') \in Seq(Positions)
    BY <1>2, <1>3, <1>4, SeqWidens
  <2>2. file \in Seq(Positions)
    BY <1>1 DEF BodyInv, BodyTypeOK
  <2> QED
    BY <1>5, <2>1, <2>2, ConcatProperties
<1>9. ASSUME taken = hlen + Len(file), file = Part(hlen, hlen + Len(file))
       PROVE  taken' = hlen + Len(file') /\ file' = Part(hlen, hlen + Len(file'))
  <2>1. taken' = hlen + Len(file') /\ hlen <= taken
    BY <1>1, <1>2, <1>3, <1>7, <1>9, SMTT(30)
  <2>2. Part(hlen, taken) \o Part(taken, taken') = Part(hlen, taken')
    BY <1>2, <1>3, <2>1, PartJoins
  <2> QED
    BY <1>5, <1>9, <2>1, <2>2
<1>10. ASSUME taken > hlen + Len(file)
       PROVE  taken' > hlen + Len(file')
  BY <1>1, <1>2, <1>3, <1>7, <1>10
<1>11. \/ taken' = hlen + Len(file') /\ file' = Part(hlen, hlen + Len(file'))
       \/ taken' > hlen + Len(file') /\ body # NoBody
  BY <1>9, <1>10 DEF BodyInv, SocketInv, RecvFile
<1>12. /\ where' = "file" /\ buf' = buf /\ hlen' = hlen /\ clen' = clen /\ body' = body
       /\ buf \in Nat /\ buf <= taken /\ Terminated
  BY BodyFacts DEF BodyInv, SocketInv, RecvFile, request
<1>13. buf' <= taken'
  <2>1. PICK u \in Nat : u = taken'
    BY <1>2
  <2> QED
    BY <1>2, <1>12, <2>1
<1> USE RequestBodyAssumption DEF BodyInv, RecvFile, request
<1>14. BodyTypeOK' /\ extra' = 0
  BY BodyFacts, <1>2, <1>8 DEF BodyTypeOK, Positions, StreamEnd, BodyEnd
<1>15. MemoryInv'
  BY BodyFacts, <1>2, <1>6, <1>7, <1>11
  DEF MemoryInv, SocketInv, InMemory, Terminated
<1>16. SocketInv'
  BY <1>6, <1>7, <1>11, <1>12, <1>13 DEF SocketInv, Terminated
<1>17. DeliveryInv'
  BY BodyFacts, <1>2, <1>6, <1>7, <1>11
  DEF MemoryInv, SocketInv, DeliveryInv, NameInv, InMemory, Terminated, AtHandler, Cut, BodyEnd
<1>18. NameInv'
  BY BodyFacts, <1>2, <1>6, <1>7, <1>11
  DEF MemoryInv, SocketInv, NameInv, AtHandler, BodyEnd
<1> QED
  BY <1>14, <1>15, <1>16, <1>17, <1>18

LEMMA RecvFileFailsStep == ASSUME BodyInv, RecvFileFails PROVE BodyInv'
<1>1. file # NoFile /\ file \in Seq(Nat) /\ Len(file) \in Nat
  BY BodyFacts DEF BodyInv, SocketInv, RecvFileFails
<1>2. /\ taken \in Nat /\ taken' \in Nat /\ taken < taken' /\ taken' <= arrived
      /\ taken' - taken <= Lesser(FileBuffer, clen - Len(file))
  BY BodyFacts, RecvFacts DEF RecvFileFails
<1>3. /\ hlen \in Nat /\ clen \in Nat /\ taken <= taken' /\ taken' - taken <= clen - Len(file)
      /\ taken' <= BodyEnd /\ BodyEnd \in Nat /\ Positions = 1 .. BodyEnd
  BY BodyFacts, <1>1, <1>2, RequestBodyAssumption, SMTT(30) DEF Lesser
<1> USE RequestBodyAssumption DEF BodyInv, RecvFileFails, request
<1>4. BodyTypeOK' /\ extra' = 0
  BY BodyFacts, <1>2 DEF BodyTypeOK, Positions, StreamEnd, BodyEnd
<1>5. MemoryInv'
  BY BodyFacts, <1>1, <1>2
  DEF MemoryInv, SocketInv, InMemory, Terminated
<1>6. SocketInv'
  BY BodyFacts, <1>1, <1>2
  DEF MemoryInv, SocketInv, NameInv, InMemory, Terminated, AtHandler
<1>7. DeliveryInv'
  BY BodyFacts, <1>1, <1>2
  DEF MemoryInv, SocketInv, DeliveryInv, NameInv, InMemory, Terminated, AtHandler, Cut, BodyEnd
<1>8. NameInv'
  BY BodyFacts, <1>1, <1>2
  DEF MemoryInv, SocketInv, NameInv, AtHandler, BodyEnd
<1> QED
  BY <1>4, <1>5, <1>6, <1>7, <1>8

LEMMA FileEndsStep == ASSUME BodyInv, FileEnds PROVE BodyInv'
<1>1. file # NoFile /\ Len(file) \in Nat
  BY BodyFacts DEF BodyInv, SocketInv, FileEnds
<1>2. body # NoBody \/ Cut
  BY BodyFacts, <1>1 DEF BodyInv, SocketInv, NothingWaits, Cut, FileEnds
<1> USE RequestBodyAssumption DEF BodyInv, FileEnds, request
<1>3. BodyTypeOK' /\ extra' = 0
  BY DEF BodyTypeOK, Positions, StreamEnd, BodyEnd
<1>4. MemoryInv'
  BY BodyFacts, <1>1, <1>2
  DEF MemoryInv, SocketInv, InMemory, Terminated
<1>5. SocketInv'
  BY BodyFacts, <1>1, <1>2
  DEF MemoryInv, SocketInv, NameInv, InMemory, Terminated, AtHandler
<1>6. DeliveryInv'
  BY BodyFacts, <1>1, <1>2
  DEF MemoryInv, SocketInv, DeliveryInv, NameInv, InMemory, Terminated, AtHandler, Cut, BodyEnd
<1>7. NameInv'
  BY BodyFacts, <1>1, <1>2
  DEF MemoryInv, SocketInv, NameInv, AtHandler, BodyEnd
<1> QED
  BY <1>3, <1>4, <1>5, <1>6, <1>7

LEMMA FileRetriesStep == ASSUME BodyInv, FileRetries PROVE BodyInv'
<1> USE RequestBodyAssumption DEF BodyInv, FileRetries, request, BodyTypeOK, Positions, StreamEnd, BodyEnd
<1>1. BodyTypeOK' /\ extra' = 0
  BY DEF MemoryInv, SocketInv, NameInv
<1>2. MemoryInv'
  BY DEF MemoryInv, SocketInv, InMemory, Terminated
<1>3. SocketInv'
  BY DEF MemoryInv, SocketInv, NameInv, InMemory, Terminated, AtHandler
<1>4. DeliveryInv'
  BY DEF MemoryInv, SocketInv, DeliveryInv, NameInv, InMemory, Terminated, AtHandler, Cut
<1>5. NameInv'
  BY DEF MemoryInv, SocketInv, NameInv, AtHandler
<1> QED
  BY <1>1, <1>2, <1>3, <1>4, <1>5

LEMMA FileCompleteStep == ASSUME BodyInv, FileComplete PROVE BodyInv'
<1> USE RequestBodyAssumption DEF BodyInv, FileComplete, request, BodyTypeOK, Positions, StreamEnd, BodyEnd
<1>1. BodyTypeOK' /\ extra' = 0
  BY DEF MemoryInv, SocketInv, NameInv
<1>2. MemoryInv'
  BY DEF MemoryInv, SocketInv, InMemory, Terminated
<1>3. SocketInv'
  BY DEF MemoryInv, SocketInv, NameInv, InMemory, Terminated, AtHandler
<1>4. DeliveryInv'
  BY DEF MemoryInv, SocketInv, DeliveryInv, NameInv, InMemory, Terminated, AtHandler, Cut
<1>5. NameInv'
  BY DEF MemoryInv, SocketInv, NameInv, AtHandler
<1> QED
  BY <1>1, <1>2, <1>3, <1>4, <1>5

LEMMA HandleRequestStep == ASSUME BodyInv, HandleRequest PROVE BodyInv'
<1> USE RequestBodyAssumption DEF BodyInv, HandleRequest, request, BodyTypeOK, Positions, StreamEnd, BodyEnd
<1>1. BodyTypeOK' /\ extra' = 0
  BY DEF MemoryInv, SocketInv, NameInv
<1>2. MemoryInv'
  BY DEF MemoryInv, SocketInv, InMemory, Terminated
<1>3. SocketInv'
  BY DEF MemoryInv, SocketInv, NameInv, InMemory, Terminated, AtHandler
<1>4. DeliveryInv'
  BY DEF MemoryInv, SocketInv, DeliveryInv, NameInv, InMemory, Terminated, AtHandler, Cut
<1>5. NameInv'
  BY DEF MemoryInv, SocketInv, NameInv, AtHandler
<1> QED
  BY <1>1, <1>2, <1>3, <1>4, <1>5

LEMMA BodyStutterStep == ASSUME BodyInv, UNCHANGED bodyVars PROVE BodyInv'
BY DEF BodyInv, bodyVars, request, BodyTypeOK, Positions, StreamEnd, BodyEnd, MemoryInv, SocketInv,
  DeliveryInv, NameInv, AtHandler, Cut, InMemory, Terminated

LEMMA BodyInvStays == BodyInv /\ [BodyNext]_bodyVars => BodyInv'
<1> SUFFICES ASSUME BodyInv, [BodyNext]_bodyVars PROVE BodyInv'
  OBVIOUS
<1>1. CASE ClientSend \/ ClientEnd
  BY <1>1, ClientSendStep, ClientEndStep
<1>2. CASE ReadHead
  BY <1>2, RecvHeadStep, HeadStopsStep DEF ReadHead
<1>3. CASE ReadBody
  BY <1>3, SkipBodyStep, AllocBodyStep, AllocBodyFailsStep, RecvBodyStep, BodyStopsStep,
    BodyCompleteStep DEF ReadBody
<1>4. CASE ReadMedia
  BY <1>4, SkipMediaStep, OpenFailsStep, OpenFileStep, RecvFileStep, RecvFileFailsStep,
    FileEndsStep, FileRetriesStep, FileCompleteStep DEF ReadMedia
<1>5. CASE HandleRequest
  BY <1>5, HandleRequestStep
<1>6. CASE UNCHANGED bodyVars
  BY <1>6, BodyStutterStep
<1> QED
  BY <1>1, <1>2, <1>3, <1>4, <1>5, <1>6 DEF BodyNext, Server

-----------------------------------------------------------------------------
(***************************************************************************)
(* The theorems                                                            *)
(***************************************************************************)

LEMMA BodyInvHolds == OneRequest /\ BodySpec => []BodyInv
<1>1. OneRequest /\ BodyInit => BodyInv
  BY BodyInvStarts
<1> QED
  BY <1>1, BodyInvStays, PTL DEF BodySpec

\* The buffer, the body in memory and the file stay in their types: no position
\* is stored that was not sent, and remaining never wraps.
THEOREM BodyTypesHold == OneRequest /\ BodySpec => []BodyTypeOK
<1>1. BodyInv => BodyTypeOK
  BY DEF BodyInv
<1> QED
  BY <1>1, BodyInvHolds, PTL

\* A file that the handler is told of is the body, for any buffer, chunk and
\* body size and however the bytes arrive: the thread of a text body that was
\* read into memory before can wait for ever, but never gets to a file name.
THEOREM FileHoldsBody == OneRequest /\ BodySpec => []FileIsBody
<1>1. BodyInv => FileIsBody
  BY DEF BodyInv, NameInv, FileIsBody
<1> QED
  BY <1>1, BodyInvHolds, PTL

\* What the handler finds in memory is the beginning of the body.
THEOREM MemoryHoldsPrefix == OneRequest /\ BodySpec => []BodyIsPrefix
<1>1. BodyInv => BodyIsPrefix
  BY DEF BodyInv, MemoryInv, BodyIsPrefix
<1> QED
  BY <1>1, BodyInvHolds, PTL

\* A body that was sent whole reaches the handler whole, with the exceptions
\* that BodyDelivered names.
THEOREM WholeBodyDelivered == OneRequest /\ BodySpec => []BodyDelivered
<1>1. BodyInv => BodyDelivered
  <2> SUFFICES ASSUME BodyInv, AtHandler, arrived >= BodyEnd, clen > 0, Terminated, ~faulty, ~filename
               PROVE  body = Part(hlen, BodyEnd) \/ (kind = "json" /\ clen > MaxMem)
    BY DEF BodyDelivered
  <2>1. ~Cut
    BY BodyFacts DEF Cut
  <2>2. CASE body = NoBody
    BY <2>1, <2>2 DEF BodyInv, DeliveryInv
  <2>3. CASE body # NoBody
    BY <2>1, <2>3 DEF BodyInv, DeliveryInv, MemoryInv, AtHandler, BodyEnd
  <2> QED
    BY <2>2, <2>3
<1> QED
  BY <1>1, BodyInvHolds, PTL

-----------------------------------------------------------------------------
(***************************************************************************)
(* Both                                                                    *)
(***************************************************************************)

RequestsInv ==
  /\ half \in {"body", "chain"}
  /\ ServeInv /\ BodyTypeOK /\ (half = "body" => BodyInv)

LEMMA RequestsInvStarts == OneRequest /\ RequestsInit => RequestsInv
<1> SUFFICES ASSUME OneRequest, RequestsInit PROVE RequestsInv
  OBVIOUS
<1>1. half \in {"body", "chain"} /\ ServeInv
  BY ChainInit DEF RequestsInit
<1>2. CASE half = "body"
  <2>1. BodyInv
    BY <1>2, BodyInvStarts DEF RequestsInit
  <2>2. QED
    BY <1>1, <2>1 DEF RequestsInv, BodyInv
<1>3. CASE half # "body"
  <2>1. NoRequest
    BY <1>3 DEF RequestsInit
  <2>2. BodyTypeOK
    <3>1. Cap \in Nat /\ 0 \in 0 .. Cap /\ 0 \in 0 .. (SizeT - 1)
      BY RequestBodyAssumption
    <3>2. StreamEnd = Cap
      BY <2>1, <3>1 DEF NoRequest, StreamEnd, BodyEnd
    <3>3. 0 \in 0 .. 0
      OBVIOUS
    <3>4. QED
      BY <2>1, <3>1, <3>2, <3>3, RequestsAssumption, Zenon DEF NoRequest, BodyTypeOK
  <2>3. QED
    BY <1>1, <1>3, <2>2 DEF RequestsInv
<1>4. QED
  BY <1>2, <1>3

LEMMA RequestsInvStays == RequestsInv /\ [RequestsNext]_requestsVars => RequestsInv'
<1> SUFFICES ASSUME RequestsInv, [RequestsNext]_requestsVars PROVE RequestsInv'
  OBVIOUS
<1>1. half' = half /\ [Next]_vars
  BY DEF RequestsNext, requestsVars
<1>2. ServeInv'
  BY <1>1, ServeInvStays DEF RequestsInv
<1>3. CASE half = "body"
  <2>1. [BodyNext]_bodyVars
    BY <1>3 DEF RequestsNext, requestsVars
  <2>2. BodyInv'
    BY <1>3, <2>1, BodyInvStays DEF RequestsInv
  <2>3. QED
    BY <1>1, <1>2, <2>2 DEF RequestsInv, BodyInv
<1>4. CASE half # "body"
  <2>1. UNCHANGED bodyVars
    BY <1>4 DEF RequestsNext, requestsVars
  <2>2. BodyTypeOK'
    BY <2>1 DEF RequestsInv, BodyTypeOK, bodyVars, request, StreamEnd, BodyEnd, Positions
  <2>3. QED
    BY <1>1, <1>2, <1>4, <2>2 DEF RequestsInv
<1>5. QED
  BY <1>3, <1>4

\* Whichever half runs, every variable keeps its type.
THEOREM RequestsTypesHold == OneRequest /\ RequestsSpec => []RequestsTypeOK
<1>1. RequestsInv => RequestsTypeOK
  BY DEF RequestsInv, ServeInv, RequestsTypeOK
<1>2. QED
  BY <1>1, RequestsInvStarts, RequestsInvStays, PTL DEF RequestsSpec

================================================================================
