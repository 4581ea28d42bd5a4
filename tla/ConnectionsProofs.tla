--------------------------- MODULE ConnectionsProofs ---------------------------
(***************************************************************************)
(* What holds of Connections for every number of clients, descriptors and  *)
(* slots: the type of the state, that a client is only ever answered by    *)
(* its own thread as long as no client uses OPTIONS, and, where ++ and --  *)
(* are indivisible, that current_clients counts the served connections and *)
(* max_clients bounds them.                                                *)
(***************************************************************************)
EXTENDS Connections, FiniteSetTheorems, SequenceTheorems, TLAPS

USE DEF loopVars, threadVars, netVars

\* A size_t stays a size_t under ++ and under --.
LEMMA CounterStaysInRange ==
  ASSUME NEW n \in 0 .. (Modulus - 1)
  PROVE  /\ Plus1(n) \in 0 .. (Modulus - 1)
         /\ Minus1(n) \in 0 .. (Modulus - 1)
  BY ConnectionsAssumption DEF Plus1, Minus1

\* Sending a first and a second part.
LEMMA AppendShort ==
  ASSUME NEW a, NEW b
  PROVE  Append(<<>>, a) = <<a>> /\ Append(<<a>>, b) = <<a, b>>
<1> DEFINE S == {a, b}
<1>1. a \in S /\ b \in S
  OBVIOUS
<1> HIDE DEF S
<1>2. <<>> \in Seq(S) /\ <<a>> \in Seq(S) /\ <<a, b>> \in Seq(S)
  BY <1>1
<1>3. Append(<<>>, a) = <<a>>
  <2>1. /\ Append(<<>>, a) \in Seq(S) /\ Len(Append(<<>>, a)) = 1
        /\ Append(<<>>, a)[1] = a
    BY <1>1, <1>2, AppendProperties
  <2>2. QED
    BY <1>2, <2>1, SeqEqual
<1>4. Append(<<a>>, b) = <<a, b>>
  <2>1. Len(<<a>>) = 1 /\ <<a>>[1] = a
    OBVIOUS
  <2> DEFINE s == <<a>>
  <2> HIDE DEF s
  <2>2. s \in Seq(S) /\ Len(s) = 1 /\ s[1] = a
    BY <1>2, <2>1 DEF s
  <2>3. /\ Append(s, b) \in Seq(S)
        /\ Len(Append(s, b)) = Len(s) + 1
        /\ \A i \in 1 .. Len(s) : Append(s, b)[i] = s[i]
        /\ Append(s, b)[Len(s) + 1] = b
    <3>1. Append(s, b) \in Seq(S) /\ Len(Append(s, b)) = Len(s) + 1
      BY <1>1, <2>2, AppendProperties
    <3>2. \A i \in 1 .. Len(s) : Append(s, b)[i] = s[i]
      BY <1>1, <2>2, AppendProperties
    <3>3. Append(s, b)[Len(s) + 1] = b
      BY <1>1, <2>2, AppendProperties
    <3>4. QED
      BY <3>1, <3>2, <3>3
  <2> DEFINE t == <<a, b>>
  <2>4. t \in Seq(S) /\ Len(t) = 2 /\ t[1] = a /\ t[2] = b
    BY <1>2
  <2> HIDE DEF t
  <2>5. \A i \in 1 .. 2 : Append(s, b)[i] = t[i]
    BY <2>2, <2>3, <2>4
  <2>6. Append(s, b) = t
    BY <2>2, <2>3, <2>4, <2>5, SeqEqual
  <2>7. QED
    BY <2>6 DEF s, t
<1>5. QED
  BY <1>3, <1>4

\* Every variable keeps its type, with every fault, either way of compiling
\* the loop and either way of incrementing.
THEOREM TypeCorrect == Spec => []TypeOK
<1>1. Init => TypeOK
  BY ConnectionsAssumption DEF Init, TypeOK, Outside, Running, Ended, Parts, RequestKinds
<1>2. TypeOK /\ [Next]_vars => TypeOK'
  <2> SUFFICES ASSUME TypeOK, [Next]_vars PROVE TypeOK'
    OBVIOUS
  <2> USE DEF Outside, Running, Ended, Parts, RequestKinds, Goto
  <2>1. ASSUME NEW c \in Conns,
               Connect(c) \/ Hangup(c) \/ \E r \in Requests : ClientSend(c, r)
        PROVE  TypeOK'
    <3>1. CASE Connect(c) \/ Hangup(c)
      BY <3>1 DEF Connect, Hangup, TypeOK
    <3>2. ASSUME NEW r \in Requests, ClientSend(c, r) PROVE TypeOK'
      <4>1. r \in RequestKinds
        BY ConnectionsAssumption
      <4>2. QED
        BY <3>2, <4>1 DEF ClientSend, TypeOK
    <3>3. QED
      BY <2>1, <3>1, <3>2
  <2>2. ASSUME LoopStep PROVE TypeOK'
    <3>1. CASE LoopAdmit \/ LoopSpin \/ AcceptFails \/ Alloc \/ Spawn \/ IncLoad
      BY <3>1 DEF LoopAdmit, LoopSpin, AcceptFails, Alloc, Spawn, IncLoad, TypeOK
    <3>2. ASSUME NEW c \in Conns, NEW f \in Fds, Accept(c, f) PROVE TypeOK'
      BY <3>2, ConnectionsAssumption DEF Accept, TypeOK
    <3>3. CASE Inc \/ IncStore
      BY <3>3, CounterStaysInRange, ZenonT(30) DEF Inc, IncStore, TypeOK
    <3>4. QED
      BY <2>2, <3>1, <3>2, <3>3 DEF LoopStep
  <2>3. ASSUME LoopFault PROVE TypeOK'
    <3>1. CASE AllocFail
      BY <3>1 DEF AllocFail, TypeOK
    <3>2. CASE SpawnFail
      BY <3>2 DEF SpawnFail, TypeOK
    <3>3. QED
      BY <2>3, <3>1, <3>2 DEF LoopFault
  <2>4. ASSUME NEW c \in Conns, ThreadStep(c) PROVE TypeOK'
    <3>1. CASE ReadRequest(c)
      BY <3>1 DEF ReadRequest, TypeOK
    <3>2. CASE ReadFail(c)
      BY <3>2 DEF ReadFail, TypeOK
    <3>3. CASE OptionsClose(c) \/ Close(c)
      BY <3>3 DEF OptionsClose, Close, CloseFd, TypeOK
    <3>4. ASSUME NEW part \in Parts, Transmit(c, part)
          PROVE  /\ up' \in BOOLEAN
                 /\ peer' \in [Conns -> {"open", "closed", "reset"}]
                 /\ wire' \in [Conns -> Seq([by : Conns, part : Parts])]
      <4> DEFINE x == At(c)
                 m == [by |-> c, part |-> part]
                 M == [by : Conns, part : Parts]
      <4>1. m \in M
        OBVIOUS
      <4>2. /\ up' = up \/ up' \in BOOLEAN
            /\ peer' = peer \/ \E p \in {"closed", "reset"} : peer' = [peer EXCEPT ![x] = p]
            /\ wire' = wire \/ wire' = [wire EXCEPT ![x] = Append(wire[x], m)]
        BY <3>4 DEF Transmit
      <4>3. wire \in [Conns -> Seq(M)]
        BY DEF TypeOK
      <4> HIDE DEF x, m, M
      <4>4. wire' \in [Conns -> Seq(M)]
        <5>1. ASSUME NEW y \in Conns PROVE Append(wire[y], m) \in Seq(M)
          BY <4>1, <4>3
        <5>2. QED
          BY <4>2, <4>3, <5>1
      <4>5. up' \in BOOLEAN
        BY <4>2, Zenon DEF TypeOK
      <4>6. peer' \in [Conns -> {"open", "closed", "reset"}]
        BY <4>2 DEF TypeOK
      <4>7. QED
        BY <4>4, <4>5, <4>6 DEF M
    <3>5. CASE OptionsReply(c) \/ SendHead(c) \/ SendBody(c)
      BY <3>4, <3>5, ZenonT(30) DEF OptionsReply, SendHead, SendBody, TypeOK
    <3>6. CASE Dec(c)
      BY <3>6, CounterStaysInRange DEF Dec, TypeOK
    <3>7. CASE DecLoad(c)
      BY <3>7, CounterStaysInRange DEF DecLoad, TypeOK
    <3>8. CASE DecStore(c)
      BY <3>8, CounterStaysInRange DEF DecStore, TypeOK
    <3>9. QED
      BY <2>4, <3>1, <3>2, <3>3, <3>5, <3>6, <3>7, <3>8 DEF ThreadStep
  <2>5. CASE UNCHANGED vars
    BY <2>5 DEF vars, TypeOK
  <2>6. QED
    BY <2>1, <2>2, <2>3, <2>4, <2>5 DEF Next, ClientStep
<1>3. QED
  BY <1>1, <1>2, PTL DEF Spec

-----------------------------------------------------------------------------
(***************************************************************************)
(* Between accept() and the end of the round the loop works for one        *)
(* connection that no thread works for yet.                                *)
(***************************************************************************)

LoopHoldsConn ==
  /\ loop \in {"inc", "incstore"} => loopConn \in Conns /\ pc[loopConn] = "accepted"
  /\ loop \in {"alloc", "spawn"} => loopConn \in Conns /\ pc[loopConn] = "counted"

\* The connection the loop works for is where the loop is: no thread moves it.
LEMMA LoopHolds == Spec => []LoopHoldsConn
<1>1. Init => LoopHoldsConn
  BY DEF Init, LoopHoldsConn
<1>2. TypeOK /\ LoopHoldsConn /\ [Next]_vars => LoopHoldsConn'
  <2> SUFFICES ASSUME TypeOK, LoopHoldsConn, [Next]_vars PROVE LoopHoldsConn'
    OBVIOUS
  <2> USE DEF Goto
  <2>1. ASSUME NEW c \in Conns,
               Connect(c) \/ Hangup(c) \/ \E r \in Requests : ClientSend(c, r)
        PROVE  LoopHoldsConn'
    BY <2>1 DEF Connect, ClientSend, Hangup, LoopHoldsConn, TypeOK
  <2>2. CASE LoopStep \/ LoopFault
    BY <2>2, ConnectionsAssumption
    DEF LoopHoldsConn, TypeOK, LoopStep, LoopAdmit, LoopSpin, Accept, AcceptFails, Inc, IncLoad,
        IncStore, Alloc, Spawn, LoopFault, AllocFail, SpawnFail
  <2>3. ASSUME NEW c \in Conns, ThreadStep(c) PROVE LoopHoldsConn'
    <3>1. pc[c] \notin {"accepted", "counted"}
      BY <2>3 DEF ThreadStep, ReadRequest, ReadFail, OptionsReply, OptionsClose, SendHead,
                  SendBody, Close, Dec, DecLoad, DecStore
    <3>2. UNCHANGED <<loop, loopConn>> /\ \E s : pc' = [pc EXCEPT ![c] = s]
      BY <2>3 DEF ThreadStep, ReadRequest, ReadFail, OptionsReply, OptionsClose, SendHead,
                  SendBody, Close, Dec, DecLoad, DecStore
    <3>3. QED
      BY <3>1, <3>2 DEF LoopHoldsConn, TypeOK
  <2>4. CASE UNCHANGED vars
    BY <2>4 DEF vars, LoopHoldsConn
  <2>5. QED
    BY <2>1, <2>2, <2>3, <2>4 DEF Next, ClientStep
<1>3. QED
  BY <1>1, <1>2, TypeCorrect, PTL DEF Spec

-----------------------------------------------------------------------------
(***************************************************************************)
(* Isolation.  While a connection is being accepted or served its number   *)
(* stands for it, so everything its thread receives, sends and closes is   *)
(* its own.  This is inductive only without OPTIONS: is_method_options     *)
(* closes the number under a thread that goes on using it.                 *)
(***************************************************************************)

Owning == {"accepted", "counted", "read", "head", "body", "close"}

NoOptionsPath ==
  \A c \in Conns : inbox[c] # "OPTIONS" /\ pc[c] \notin {"options", "optclose"}

OwnsItsFd ==
  \A c \in Conns : pc[c] \in Owning => fd[c] \in Fds /\ fdTable[fd[c]] = c

Header(c)  == [by |-> c, part |-> "head"]
Payload(c) == [by |-> c, part |-> "body"]

\* What has been sent to c, by where its thread is.
Sent(c) ==
  /\ wire[c] \in {<<>>, <<Header(c)>>, <<Header(c), Payload(c)>>}
  /\ pc[c] \in Outside \cup {"read", "head", "lost"} => wire[c] = <<>>
  /\ pc[c] = "body" => wire[c] # <<Header(c), Payload(c)>>
  /\ pc[c] \in Outside \cup {"read"} => method[c] = "none"
  /\ pc[c] \in {"head", "body"} => method[c] = "ROUTED"
  /\ (pc[c] \in {"body", "close", "dec", "store", "done"} /\ method[c] = "ROUTED" /\ peer[c] = "open")
        => wire[c] # <<>>

SentSoFar == \A c \in Conns : Sent(c)

IsolationInv == NoOptionsPath /\ OwnsItsFd /\ SentSoFar

\* The steps that send nothing: the clients and the accept loop.
LEMMA IsolationOutside ==
  ASSUME TypeOK, LoopHoldsConn, IsolationInv, "OPTIONS" \notin Requests,
         ClientStep \/ LoopStep \/ LoopFault
  PROVE  IsolationInv'
<1> USE DEF IsolationInv, Goto
<1>1. NoOptionsPath'
  <2>1. CASE ClientStep
    BY <2>1 DEF NoOptionsPath, ClientStep, Connect, ClientSend, Hangup, TypeOK
  <2>2. ASSUME NEW c \in Conns, NEW f \in Fds, Accept(c, f) PROVE NoOptionsPath'
    BY <2>2 DEF NoOptionsPath, Accept, TypeOK
  <2>3. CASE Inc \/ IncStore \/ Spawn \/ AllocFail \/ SpawnFail
    BY <2>3 DEF NoOptionsPath, Inc, IncStore, Spawn, AllocFail, SpawnFail, TypeOK
  <2>4. CASE LoopAdmit \/ LoopSpin \/ AcceptFails \/ Alloc \/ IncLoad
    BY <2>4 DEF NoOptionsPath, LoopAdmit, LoopSpin, AcceptFails, Alloc, IncLoad
  <2>5. QED
    BY <2>1, <2>2, <2>3, <2>4 DEF LoopStep, LoopFault
<1>2. OwnsItsFd'
  <2>1. ASSUME NEW c \in Conns, NEW f \in Fds, Accept(c, f) PROVE OwnsItsFd'
    BY <2>1, ConnectionsAssumption DEF Accept, FreeFds, OwnsItsFd, Owning, TypeOK
  <2>2. CASE AllocFail
    BY <2>2, ConnectionsAssumption DEF AllocFail, LoopHoldsConn, OwnsItsFd, Owning, TypeOK
  <2>3. CASE ClientStep
    BY <2>3 DEF ClientStep, Connect, ClientSend, Hangup, OwnsItsFd, Owning, TypeOK
  <2>4. CASE Inc \/ IncStore \/ Spawn
    BY <2>4 DEF Inc, IncStore, Spawn, OwnsItsFd, Owning, TypeOK
  <2>5. CASE SpawnFail
    BY <2>5 DEF SpawnFail, OwnsItsFd, Owning, TypeOK
  <2>6. CASE LoopAdmit \/ LoopSpin \/ AcceptFails \/ Alloc \/ IncLoad
    BY <2>6 DEF LoopAdmit, LoopSpin, AcceptFails, Alloc, IncLoad, OwnsItsFd
  <2>7. QED
    BY <2>1, <2>2, <2>3, <2>4, <2>5, <2>6 DEF LoopStep, LoopFault
<1>3. SentSoFar'
  <2> SUFFICES ASSUME NEW d \in Conns, Sent(d) PROVE Sent(d)'
    BY DEF SentSoFar
  <2> USE DEF Sent, Outside, Header, Payload
  <2>1. ASSUME NEW c \in Conns,
               Connect(c) \/ Hangup(c) \/ \E r \in Requests : ClientSend(c, r)
        PROVE  Sent(d)'
    BY <2>1 DEF Connect, ClientSend, Hangup, TypeOK
  <2>2. ASSUME NEW c \in Conns, NEW f \in Fds, Accept(c, f) PROVE Sent(d)'
    BY <2>2 DEF Accept, TypeOK
  <2>3. CASE Inc \/ IncStore \/ Spawn \/ AllocFail \/ SpawnFail
    BY <2>3 DEF Inc, IncStore, Spawn, AllocFail, SpawnFail, TypeOK
  <2>4. CASE LoopAdmit \/ LoopSpin \/ AcceptFails \/ Alloc \/ IncLoad
    BY <2>4 DEF LoopAdmit, LoopSpin, AcceptFails, Alloc, IncLoad
  <2>5. QED
    BY <2>1, <2>2, <2>3, <2>4 DEF LoopStep, LoopFault, ClientStep
<1>4. QED
  BY <1>1, <1>2, <1>3

\* The steps of a client thread: without OPTIONS it holds its own number.
LEMMA IsolationThread ==
  ASSUME TypeOK, IsolationInv, NEW c \in Conns, ThreadStep(c)
  PROVE  IsolationInv'
<1> USE DEF IsolationInv, Goto
<1>1. pc[c] \notin {"options", "optclose"} /\ \A d \in Conns : inbox[d] # "OPTIONS"
  BY DEF NoOptionsPath
<1>2. ~OptionsReply(c) /\ ~OptionsClose(c)
  BY <1>1 DEF OptionsReply, OptionsClose
<1>3. ASSUME pc[c] \in {"read", "head", "body", "close"} PROVE At(c) = c /\ fd[c] \in Fds
  BY <1>3 DEF OwnsItsFd, Owning, At
<1>4. CASE ReadRequest(c)
  <2>1. /\ At(c) = c /\ inbox[c] = "ROUTED" /\ pc[c] = "read"
        /\ pc' = [pc EXCEPT ![c] = "head"]
        /\ method' = [method EXCEPT ![c] = "ROUTED"]
        /\ inbox' = [inbox EXCEPT ![c] = "taken"]
        /\ UNCHANGED <<fd, fdTable, peer, wire>>
    BY <1>1, <1>3, <1>4 DEF ReadRequest
  <2>2. NoOptionsPath' /\ OwnsItsFd'
    BY <2>1 DEF NoOptionsPath, OwnsItsFd, Owning, TypeOK
  <2>3. ASSUME NEW d \in Conns, Sent(d) PROVE Sent(d)'
    BY <2>1, <2>3 DEF Sent, Header, Payload, Outside, TypeOK
  <2>4. QED
    BY <2>2, <2>3 DEF SentSoFar
<1>5. CASE ReadFail(c)
  <2>1. /\ pc[c] = "read" /\ pc' = [pc EXCEPT ![c] = "close"]
        /\ inbox' = inbox \/ inbox' = [inbox EXCEPT ![c] = "taken"]
        /\ UNCHANGED <<fd, fdTable, method, peer, wire>>
    BY <1>3, <1>5 DEF ReadFail
  <2>2. NoOptionsPath' /\ OwnsItsFd'
    BY <2>1 DEF NoOptionsPath, OwnsItsFd, Owning, TypeOK
  <2>3. ASSUME NEW d \in Conns, Sent(d) PROVE Sent(d)'
    BY <2>1, <2>3 DEF Sent, Header, Payload, Outside, TypeOK
  <2>4. QED
    BY <2>2, <2>3 DEF SentSoFar
<1>6. CASE SendHead(c) \/ SendBody(c)
  <2> DEFINE part == IF pc[c] = "head" THEN "head" ELSE "body"
  <2>1. /\ pc[c] \in {"head", "body"} /\ At(c) = c
        /\ \E s \in {"body", "close"} : pc' = [pc EXCEPT ![c] = s] /\ (pc[c] = "body" => s = "close")
        /\ UNCHANGED <<fd, fdTable, method, inbox>>
        /\ Transmit(c, part)
    BY <1>3, <1>6 DEF SendHead, SendBody
  <2>2. \/ peer[c] = "open" /\ peer' = peer /\ wire' = [wire EXCEPT ![c] = Append(wire[c], [by |-> c, part |-> part])]
        \/ /\ peer[c] # "open" /\ wire' = wire
           /\ peer' = peer \/ \E p \in {"closed", "reset"} : peer' = [peer EXCEPT ![c] = p]
    BY <2>1, ConnectionsAssumption DEF Transmit
  <2>3. NoOptionsPath' /\ OwnsItsFd'
    BY <2>1 DEF NoOptionsPath, OwnsItsFd, Owning, TypeOK
  <2>4. ASSUME NEW d \in Conns, Sent(d), d # c PROVE Sent(d)'
    BY <2>1, <2>2, <2>4 DEF Sent, Header, Payload, TypeOK
  <2>5. ASSUME Sent(c) PROVE Sent(c)'
    <3> DEFINE H == Header(c)
               B == Payload(c)
    <3>1. H # B /\ <<H>> # <<>> /\ <<H, B>> # <<>> /\ <<H>> # <<H, B>>
      BY DEF Header, Payload
    <3>2. Append(<<>>, H) = <<H>> /\ Append(<<H>>, B) = <<H, B>>
      BY AppendShort
    <3>3. /\ pc[c] = "head" => wire[c] = <<>> /\ [by |-> c, part |-> part] = H
          /\ pc[c] = "body" => wire[c] \in {<<>>, <<H>>} /\ [by |-> c, part |-> part] = B
          /\ method[c] = "ROUTED"
      BY <2>1, <2>5 DEF Sent, Header, Payload
    <3>4. pc'[c] \in {"body", "close"} /\ (pc[c] = "body" => pc'[c] = "close") /\ method'[c] = "ROUTED"
      BY <2>1, <3>3 DEF TypeOK
    <3>5. CASE peer[c] = "open"
      <4>1. wire'[c] = IF pc[c] = "head" THEN <<H>> ELSE <<H, B>>
        <5>1. wire'[c] = Append(wire[c], [by |-> c, part |-> part])
          BY <2>2, <3>5 DEF TypeOK
        <5>2. pc[c] = "body" => wire[c] = <<H>>
          BY <2>1, <2>5, <3>3, <3>5 DEF Sent
        <5>3. QED
          BY <2>1, <3>2, <3>3, <5>1, <5>2
      <4>2. QED
        <5> HIDE DEF H, B
        <5>1. Sent(c)' <=>
                /\ wire'[c] \in {<<>>, <<H>>, <<H, B>>}
                /\ pc'[c] \in Outside \cup {"read", "head", "lost"} => wire'[c] = <<>>
                /\ pc'[c] = "body" => wire'[c] # <<H, B>>
                /\ pc'[c] \in Outside \cup {"read"} => method'[c] = "none"
                /\ pc'[c] \in {"head", "body"} => method'[c] = "ROUTED"
                /\ (pc'[c] \in {"body", "close", "dec", "store", "done"}
                      /\ method'[c] = "ROUTED" /\ peer'[c] = "open") => wire'[c] # <<>>
          BY DEF Sent, H, B
        <5>2. CASE pc[c] = "head"
          <6>1. wire'[c] = <<H>>
            BY <4>1, <5>2
          <6>2. QED
            BY <3>1, <3>4, <5>1, <6>1 DEF Outside
        <5>3. CASE pc[c] = "body"
          <6>1. wire'[c] = <<H, B>> /\ pc'[c] = "close"
            BY <3>4, <4>1, <5>3
          <6>2. QED
            BY <3>1, <3>4, <5>1, <6>1 DEF Outside
        <5>4. QED
          BY <2>1, <5>2, <5>3
    <3>6. CASE peer[c] # "open"
      <4>1. wire'[c] = wire[c] /\ peer'[c] # "open"
        BY <2>2, <3>6 DEF TypeOK
      <4>2. QED
        BY <2>1, <2>5, <3>3, <3>4, <4>1 DEF Sent, Outside, Header, Payload
    <3>7. QED
      BY <3>5, <3>6
  <2>6. QED
    BY <2>3, <2>4, <2>5 DEF SentSoFar
<1>7. CASE Close(c)
  <2>1. /\ pc[c] = "close" /\ pc' = [pc EXCEPT ![c] = "dec"] /\ fdTable[fd[c]] = c
        /\ fdTable' = [fdTable EXCEPT ![fd[c]] = NoConn]
        /\ UNCHANGED <<fd, method, inbox, peer, wire>>
    BY <1>3, <1>7 DEF Close, CloseFd, At
  <2>2. NoOptionsPath' /\ OwnsItsFd'
    BY <2>1 DEF NoOptionsPath, OwnsItsFd, Owning, TypeOK
  <2>3. ASSUME NEW d \in Conns, Sent(d) PROVE Sent(d)'
    BY <2>1, <2>3 DEF Sent, Header, Payload, Outside, TypeOK
  <2>4. QED
    BY <2>2, <2>3 DEF SentSoFar
<1>8. CASE Dec(c) \/ DecLoad(c) \/ DecStore(c)
  <2>1. /\ pc[c] \in {"dec", "store"}
        /\ \E s \in {"store", "done"} : pc' = [pc EXCEPT ![c] = s]
        /\ UNCHANGED <<fd, fdTable, method, inbox, peer, wire>>
    BY <1>8 DEF Dec, DecLoad, DecStore
  <2>2. NoOptionsPath' /\ OwnsItsFd'
    BY <2>1 DEF NoOptionsPath, OwnsItsFd, Owning, TypeOK
  <2>3. ASSUME NEW d \in Conns, Sent(d) PROVE Sent(d)'
    BY <2>1, <2>3 DEF Sent, Header, Payload, Outside, TypeOK
  <2>4. QED
    BY <2>2, <2>3 DEF SentSoFar
<1>9. QED
  BY <1>2, <1>4, <1>5, <1>6, <1>7, <1>8 DEF ThreadStep

\* The invariant of a server no client sends OPTIONS to.
LEMMA IsolationInvariant ==
  ASSUME "OPTIONS" \notin Requests
  PROVE  Spec => []IsolationInv
<1>1. Init => IsolationInv
  BY DEF Init, IsolationInv, NoOptionsPath, OwnsItsFd, Owning, SentSoFar, Sent, Header, Payload, Outside
<1>2. TypeOK /\ LoopHoldsConn /\ IsolationInv /\ [Next]_vars => IsolationInv'
  <2> SUFFICES ASSUME TypeOK, LoopHoldsConn, IsolationInv, [Next]_vars PROVE IsolationInv'
    OBVIOUS
  <2>1. CASE UNCHANGED vars
    BY <2>1 DEF vars, IsolationInv, NoOptionsPath, OwnsItsFd, SentSoFar, Sent
  <2>2. QED
    BY <2>1, IsolationOutside, IsolationThread DEF Next
<1>3. QED
  BY <1>1, <1>2, TypeCorrect, LoopHolds, PTL DEF Spec

\* Nobody receives what was sent for somebody else, provided no client sends
\* OPTIONS: for any number of clients and descriptors, for any max_clients, also
\* with lost updates of the counter and with failing malloc and thread creation.
THEOREM Isolation ==
  ASSUME "OPTIONS" \notin Requests
  PROVE  Spec => []ResponseIsolation
<1>1. IsolationInv => ResponseIsolation
  <2> SUFFICES ASSUME IsolationInv, NEW c \in Conns, NEW i \in DOMAIN wire[c]
               PROVE  wire[c][i].by = c
    BY DEF ResponseIsolation
  <2>1. wire[c] \in {<<>>, <<Header(c)>>, <<Header(c), Payload(c)>>}
    BY DEF IsolationInv, SentSoFar, Sent
  <2>2. wire[c][i] \in {Header(c), Payload(c)}
    BY <2>1
  <2>3. QED
    BY <2>2 DEF Header, Payload
<1>2. QED
  BY <1>1, IsolationInvariant, PTL

\* Under the same condition every request that was parsed is answered exactly
\* once while its client stays, header before body.
THEOREM AnsweredExactlyOnce ==
  ASSUME "OPTIONS" \notin Requests
  PROVE  Spec => []AnsweredOnce
<1>1. IsolationInv => AnsweredOnce
  <2> SUFFICES ASSUME IsolationInv, NEW c \in Conns
               PROVE  /\ PartsOn(c) \in {<<>>, <<"head">>, <<"head", "body">>}
                      /\ (pc[c] \in {"close", "dec", "store", "done"} /\ method[c] = "ROUTED" /\ peer[c] = "open")
                           => wire[c] # <<>>
    BY DEF AnsweredOnce
  <2>1. Sent(c)
    BY DEF IsolationInv, SentSoFar
  <2>2. PartsOn(c) \in {<<>>, <<"head">>, <<"head", "body">>}
    <3>1. CASE wire[c] = <<>>
      BY <3>1 DEF PartsOn
    <3>2. CASE wire[c] = <<Header(c)>>
      BY <3>2 DEF PartsOn, Header
    <3>3. CASE wire[c] = <<Header(c), Payload(c)>>
      BY <3>3 DEF PartsOn, Header, Payload
    <3>4. QED
      BY <2>1, <3>1, <3>2, <3>3 DEF Sent
  <2>3. QED
    BY <2>1, <2>2 DEF Sent
<1>2. QED
  BY <1>1, IsolationInvariant, PTL

\* Nobody closes a connection under the thread that serves it, under the same
\* condition.
THEOREM OwnerCloses ==
  ASSUME "OPTIONS" \notin Requests
  PROVE  Spec => OnlyOwnerCloses
<1> DEFINE Taken(f, c) ==
      (fdTable[f] = c /\ fdTable'[f] # c) =>
         \/ pc[c] = "close" /\ pc'[c] = "dec"
         \/ pc[c] = "counted" /\ pc'[c] = "lost"
<1>1. TypeOK /\ LoopHoldsConn /\ IsolationInv /\ [Next]_vars
        => [\A f \in Fds, c \in Conns : Taken(f, c)]_vars
  <2> SUFFICES ASSUME TypeOK, LoopHoldsConn, IsolationInv, Next, NEW f \in Fds, NEW c \in Conns
               PROVE  Taken(f, c)
    OBVIOUS
  <2> USE DEF Goto, IsolationInv
  <2>1. ASSUME NEW d \in Conns, NEW g \in Fds, Accept(d, g) PROVE Taken(f, c)
    BY <2>1, ConnectionsAssumption DEF Accept, FreeFds, TypeOK
  <2>2. CASE AllocFail
    BY <2>2 DEF AllocFail, LoopHoldsConn, OwnsItsFd, Owning, TypeOK
  <2>3. ASSUME NEW d \in Conns, Close(d) PROVE Taken(f, c)
    BY <2>3 DEF Close, CloseFd, OwnsItsFd, Owning, TypeOK
  <2>4. ASSUME NEW d \in Conns, OptionsClose(d) PROVE FALSE
    BY <2>4 DEF OptionsClose, NoOptionsPath
  <2>5. ASSUME fdTable' = fdTable PROVE Taken(f, c)
    BY <2>5
  <2>6. ASSUME NEW d \in Conns, ThreadStep(d) PROVE Taken(f, c)
    BY <2>3, <2>4, <2>5, <2>6
    DEF ThreadStep, ReadRequest, ReadFail, OptionsReply, SendHead, SendBody, Dec, DecLoad, DecStore
  <2>7. CASE ClientStep
    BY <2>5, <2>7 DEF ClientStep, Connect, ClientSend, Hangup
  <2>8. CASE LoopStep \/ LoopFault
    BY <2>1, <2>2, <2>5, <2>8
    DEF LoopStep, LoopAdmit, LoopSpin, AcceptFails, Inc, IncLoad, IncStore, Alloc, Spawn,
        LoopFault, SpawnFail
  <2>9. QED
    BY <2>6, <2>7, <2>8 DEF Next
<1>2. QED
  BY <1>1, TypeCorrect, LoopHolds, IsolationInvariant, PTL DEF Spec, OnlyOwnerCloses

-----------------------------------------------------------------------------
(***************************************************************************)
(* Descriptors.  This holds with OPTIONS too: what is_method_options       *)
(* closes twice is never left open.                                        *)
(***************************************************************************)

\* Every open descriptor is the one its connection remembers, and the close of
\* that connection is still ahead or its thread never started.
THEOREM NoDescriptorForgotten == Spec => []OpenFdsHaveCloser
<1>1. Init => OpenFdsHaveCloser
  BY DEF Init, OpenFdsHaveCloser
<1>2. TypeOK /\ LoopHoldsConn /\ OpenFdsHaveCloser /\ [Next]_vars => OpenFdsHaveCloser'
  <2> DEFINE HasCloser == {"accepted", "counted", "read", "options", "optclose",
                           "head", "body", "close", "lost"}
  <2> SUFFICES ASSUME TypeOK, LoopHoldsConn, OpenFdsHaveCloser, [Next]_vars,
                      NEW f \in Fds, fdTable'[f] # NoConn
               PROVE  fd'[fdTable'[f]] = f /\ pc'[fdTable'[f]] \in HasCloser
    BY DEF OpenFdsHaveCloser
  <2> USE DEF Goto
  <2>1. ASSUME NEW x, NEW s, pc' = [pc EXCEPT ![x] = s], pc[x] \in HasCloser => s \in HasCloser,
               fd' = fd, fdTable' = fdTable
        PROVE  fd'[fdTable'[f]] = f /\ pc'[fdTable'[f]] \in HasCloser
    <3>1. fdTable[f] \in Conns /\ fd[fdTable[f]] = f /\ pc[fdTable[f]] \in HasCloser
      BY <2>1 DEF OpenFdsHaveCloser, TypeOK
    <3>2. CASE x = fdTable[f]
      BY <2>1, <3>1, <3>2 DEF TypeOK
    <3>3. CASE x # fdTable[f]
      BY <2>1, <3>1, <3>3 DEF TypeOK
    <3>4. QED
      BY <3>2, <3>3
  <2>2. ASSUME NEW c \in Conns, NEW g \in Fds, Accept(c, g)
        PROVE  fd'[fdTable'[f]] = f /\ pc'[fdTable'[f]] \in HasCloser
    BY <2>2, ConnectionsAssumption DEF Accept, FreeFds, OpenFdsHaveCloser, TypeOK
  <2>3. CASE AllocFail
    BY <2>3 DEF AllocFail, LoopHoldsConn, OpenFdsHaveCloser, TypeOK
  <2>4. ASSUME NEW c \in Conns, Close(c) \/ OptionsClose(c)
        PROVE  fd'[fdTable'[f]] = f /\ pc'[fdTable'[f]] \in HasCloser
    <3>1. /\ fdTable' = [fdTable EXCEPT ![fd[c]] = NoConn] /\ fd' = fd
          /\ \E s : pc' = [pc EXCEPT ![c] = s]
      BY <2>4 DEF Close, OptionsClose, CloseFd
    <3>2. f # fd[c] /\ fdTable'[f] = fdTable[f]
      BY <3>1 DEF TypeOK
    <3>3. fdTable[f] # c
      BY <3>2 DEF OpenFdsHaveCloser, TypeOK
    <3>4. QED
      BY <3>1, <3>2, <3>3 DEF OpenFdsHaveCloser, TypeOK
  <2>5. CASE UNCHANGED <<pc, fd, fdTable>>
    BY <2>5 DEF OpenFdsHaveCloser
  <2>6. CASE Inc \/ IncStore \/ Spawn \/ SpawnFail
    <3>1. CASE Inc \/ IncStore
      BY <2>1, <3>1 DEF Inc, IncStore
    <3>2. CASE Spawn \/ SpawnFail
      BY <2>1, <3>2 DEF Spawn, SpawnFail
    <3>3. QED
      BY <2>6, <3>1, <3>2
  <2>7. CASE LoopAdmit \/ LoopSpin \/ AcceptFails \/ Alloc \/ IncLoad
    BY <2>5, <2>7 DEF LoopAdmit, LoopSpin, AcceptFails, Alloc, IncLoad
  <2>8. ASSUME NEW c \in Conns, ThreadStep(c)
        PROVE  fd'[fdTable'[f]] = f /\ pc'[fdTable'[f]] \in HasCloser
    <3>1. CASE ReadRequest(c) \/ ReadFail(c)
      BY <2>1, <3>1 DEF ReadRequest, ReadFail
    <3>2. CASE OptionsReply(c) \/ SendHead(c) \/ SendBody(c)
      BY <2>1, <3>2 DEF OptionsReply, SendHead, SendBody
    <3>3. CASE Dec(c) \/ DecLoad(c) \/ DecStore(c)
      BY <2>1, <3>3 DEF Dec, DecLoad, DecStore
    <3>4. QED
      BY <2>4, <2>8, <3>1, <3>2, <3>3 DEF ThreadStep
  <2>9. ASSUME NEW c \in Conns,
               Connect(c) \/ Hangup(c) \/ \E r \in Requests : ClientSend(c, r)
        PROVE  fd'[fdTable'[f]] = f /\ pc'[fdTable'[f]] \in HasCloser
    BY <2>1, <2>5, <2>9 DEF Connect, ClientSend, Hangup
  <2>10. CASE UNCHANGED vars
    BY <2>5, <2>10 DEF vars
  <2>11. QED
    <3> HIDE DEF HasCloser
    <3> QED BY <2>2, <2>3, <2>6, <2>7, <2>8, <2>9, <2>10 DEF Next, LoopStep, LoopFault, ClientStep
<1>3. QED
  BY <1>1, <1>2, TypeCorrect, LoopHolds, PTL DEF Spec

-----------------------------------------------------------------------------
(***************************************************************************)
(* Slots.  Where ++ and -- are indivisible the counter counts Holding, and *)
(* the test made before accept() still holds at the ++ after it: only the  *)
(* accept loop increments.                                                 *)
(***************************************************************************)

SlotInv ==
  AtomicRmw =>
    /\ loop # "incstore" /\ \A c \in Conns : pc[c] # "store"
    /\ currentClients = Cardinality(Holding)
    /\ currentClients <= MaxClients
    /\ loop \in {"accept", "inc"} => currentClients < MaxClients

\* A step that moves one connection within Holding, or outside it, changes
\* neither Holding nor the counter.
LEMMA SameSlots ==
  ASSUME TypeOK, NEW x \in Conns, NEW s, pc' = [pc EXCEPT ![x] = s],
         x \in Holding <=> s \in {"counted", "lost"} \cup (Running \ {"store"})
  PROVE  Holding' = Holding
BY DEF Holding, TypeOK

\* Below the limit ++ does not wrap, and above zero -- does not.
LEMMA CounterSteps ==
  ASSUME NEW n \in 0 .. (Modulus - 1)
  PROVE  /\ n < MaxClients => Plus1(n) = n + 1
         /\ n > 0 => Minus1(n) = n - 1
<1>1. Modulus \in Nat /\ MaxClients \in Nat /\ MaxClients < Modulus /\ n \in Nat
  BY ConnectionsAssumption
<1>2. QED
  BY <1>1 DEF Plus1, Minus1

\* The inductive invariant about slots: the counter is exact at every point of
\* the loop and of the threads, and there is room for the connection the loop
\* has admitted.
LEMMA SlotInvariant == Spec => []SlotInv
<1>1. Init => SlotInv
  <2> SUFFICES ASSUME Init PROVE SlotInv
    OBVIOUS
  <2>1. Holding = {}
    BY DEF Init, Holding, Running
  <2>2. Cardinality(Holding) = 0 /\ currentClients = 0
    BY <2>1, FS_EmptySet DEF Init
  <2>3. QED
    BY <2>2, ConnectionsAssumption DEF Init, SlotInv
<1>2. TypeOK /\ LoopHoldsConn /\ SlotInv /\ [Next]_vars => SlotInv'
  <2> SUFFICES ASSUME TypeOK, LoopHoldsConn, SlotInv, [Next]_vars, AtomicRmw PROVE SlotInv'
    BY DEF SlotInv
  <2> USE DEF Goto
  <2>1. IsFiniteSet(Holding)
    BY FS_Subset, ConnectionsAssumption DEF Holding
  <2>2. CASE Inc
    <3>1. loopConn \in Conns /\ loopConn \notin Holding /\ currentClients < MaxClients
      BY <2>2 DEF Inc, LoopHoldsConn, Holding, Running, SlotInv
    <3>2. Holding' = Holding \cup {loopConn}
      BY <2>2, <3>1 DEF Inc, Holding, TypeOK
    <3>3. Cardinality(Holding') = currentClients + 1
      BY <2>1, <3>1, <3>2, FS_AddElement DEF SlotInv
    <3>4. currentClients' = currentClients + 1
      BY <2>2, <3>1, CounterSteps DEF Inc, TypeOK
    <3>5. QED
      BY <2>2, <3>1, <3>3, <3>4, ConnectionsAssumption DEF Inc, SlotInv, TypeOK
  <2>3. ASSUME NEW c \in Conns, Dec(c) PROVE SlotInv'
    <3>1. c \in Holding
      BY <2>3 DEF Dec, Holding, Running
    <3>2. Holding' = Holding \ {c}
      BY <2>3, <3>1 DEF Dec, Holding, Running, TypeOK
    <3>3. Cardinality(Holding') = currentClients - 1
      BY <2>1, <3>1, <3>2, FS_RemoveElement DEF SlotInv
    <3>4. currentClients > 0
      BY <2>1, <3>1, FS_EmptySet DEF SlotInv, TypeOK
    <3>5. currentClients' = currentClients - 1
      BY <2>3, <3>4, CounterSteps DEF Dec, TypeOK
    <3>6. QED
      BY <2>3, <3>3, <3>5, ConnectionsAssumption DEF Dec, SlotInv, TypeOK
  <2>4. ASSUME Holding' = Holding, currentClients' = currentClients,
               loop' \in {"accept", "inc"} => currentClients < MaxClients,
               loop' # "incstore", \A c \in Conns : pc'[c] # "store"
        PROVE  SlotInv'
    BY <2>4 DEF SlotInv
  <2>5. CASE LoopAdmit \/ LoopSpin \/ AcceptFails \/ Alloc
    BY <2>4, <2>5 DEF LoopAdmit, LoopSpin, AcceptFails, Alloc, Holding, SlotInv
  <2>6. CASE Spawn \/ SpawnFail \/ AllocFail
    <3>1. \E s \in {"read", "lost"} : pc' = [pc EXCEPT ![loopConn] = s] /\ loopConn \in Conns /\ loopConn \in Holding
      BY <2>6 DEF Spawn, SpawnFail, AllocFail, LoopHoldsConn, Holding
    <3>2. Holding' = Holding
      BY <3>1, SameSlots DEF Running
    <3>3. \A c \in Conns : pc'[c] # "store"
      BY <3>1 DEF SlotInv, TypeOK
    <3>4. QED
      BY <2>4, <2>6, <3>2, <3>3 DEF Spawn, SpawnFail, AllocFail
  <2>7. ASSUME NEW c \in Conns, NEW f \in Fds, Accept(c, f) PROVE SlotInv'
    <3>1. Holding' = Holding
      BY <2>7, SameSlots DEF Accept, Holding, Running
    <3>2. \A d \in Conns : pc'[d] # "store"
      BY <2>7 DEF Accept, SlotInv, TypeOK
    <3>3. QED
      BY <2>4, <2>7, <3>1, <3>2 DEF Accept, SlotInv
  <2>8. ASSUME NEW c \in Conns, ThreadStep(c), ~Dec(c) PROVE SlotInv'
    <3>1. /\ c \in Holding
          /\ \E s \in Running \ {"store"} : pc' = [pc EXCEPT ![c] = s]
          /\ UNCHANGED <<currentClients, loop>>
      BY <2>8 DEF ThreadStep, ReadRequest, ReadFail, OptionsReply, OptionsClose, SendHead,
                  SendBody, Close, DecLoad, DecStore, SlotInv, Holding, Running
    <3>2. Holding' = Holding
      BY <3>1, SameSlots
    <3>3. \A d \in Conns : pc'[d] # "store"
      BY <3>1 DEF SlotInv, TypeOK
    <3>4. QED
      BY <2>4, <3>1, <3>2, <3>3 DEF SlotInv
  <2>9. ASSUME NEW c \in Conns,
               Connect(c) \/ Hangup(c) \/ \E r \in Requests : ClientSend(c, r)
        PROVE  SlotInv'
    <3>1. Holding' = Holding
      BY <2>9, SameSlots DEF Connect, Hangup, ClientSend, Holding, Running
    <3>2. \A d \in Conns : pc'[d] # "store"
      BY <2>9 DEF Connect, Hangup, ClientSend, SlotInv, TypeOK
    <3>3. QED
      BY <2>4, <2>9, <3>1, <3>2 DEF Connect, Hangup, ClientSend, SlotInv
  <2>10. CASE UNCHANGED vars
    BY <2>10 DEF vars, SlotInv, Holding
  <2>11. ~IncLoad /\ ~IncStore
    BY DEF IncLoad, IncStore, SlotInv
  <2>12. QED
    BY <2>2, <2>3, <2>5, <2>6, <2>7, <2>8, <2>9, <2>10, <2>11 DEF Next, LoopStep, LoopFault, ClientStep
<1>3. QED
  BY <1>1, <1>2, TypeCorrect, LoopHolds, PTL DEF Spec

\* current_clients is exactly the number of connections that hold a slot.
THEOREM SlotsAreExact == Spec => []SlotsExact
<1>1. SlotInv => SlotsExact
  BY DEF SlotInv, SlotsExact
<1>2. QED
  BY <1>1, SlotInvariant, PTL

\* At most max_clients connections are served at any time.
THEOREM LimitRespected == Spec => []WithinLimit
<1>1. TypeOK /\ SlotInv => WithinLimit
  <2> SUFFICES ASSUME TypeOK, SlotInv, AtomicRmw
               PROVE  Cardinality({c \in Conns : pc[c] \in Running}) <= MaxClients
    BY DEF WithinLimit
  <2>1. IsFiniteSet(Holding)
    BY FS_Subset, ConnectionsAssumption DEF Holding
  <2>2. {c \in Conns : pc[c] \in Running} \subseteq Holding
    BY DEF Holding, SlotInv
  <2>3. Cardinality({c \in Conns : pc[c] \in Running}) <= Cardinality(Holding)
    BY <2>1, <2>2, FS_Subset
  <2>4. /\ Cardinality(Holding) \in Nat /\ Cardinality(Holding) <= MaxClients
        /\ Cardinality({c \in Conns : pc[c] \in Running}) \in Nat
    BY <2>1, <2>2, FS_Subset, FS_CardinalityType DEF SlotInv
  <2>5. QED
    BY <2>3, <2>4, ConnectionsAssumption
<1>2. QED
  BY <1>1, TypeCorrect, SlotInvariant, PTL

================================================================================
