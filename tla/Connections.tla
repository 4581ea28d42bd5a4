------------------------------ MODULE Connections ------------------------------
(***************************************************************************)
(* The life of a client connection in libchttpx: the accept loop of        *)
(* cHTTPX_Listen, one detached thread per accepted connection running      *)
(* handle_client_wrapper and chttpx_handle, the kernel's descriptor table  *)
(* they share, and the unsynchronised counter serv->current_clients.       *)
(*                                                                         *)
(* The model covers the server between cHTTPX_Init and cHTTPX_Shutdown, so *)
(* `serv' is not NULL.  A thread is named by the connection it was started *)
(* for; what it holds is only the descriptor NUMBER, and every recv, send  *)
(* and close goes through the descriptor table.  What the handler and the  *)
(* middlewares do with the request is abstracted into the choice whether   *)
(* the response has a body.                                                *)
(***************************************************************************)
EXTENDS Naturals, Sequences, FiniteSets

CONSTANTS
  Conns,        \* client connections; each one connects at most once (a bound)
  Fds,          \* descriptor numbers the process may have open for clients
  NoConn,       \* a free entry of the descriptor table
  MaxClients,   \* serv->max_clients
  Modulus,      \* a size_t holds 0 .. Modulus-1
  Requests,     \* what clients may send: a subset of RequestKinds
  Faults,       \* what may go wrong around the server: a subset of FaultKinds
  AtomicRmw,    \* TRUE: ++ and -- are indivisible (one processor);
                \* FALSE: the load and the store of addq/subq are separate
  CachedCheck   \* TRUE: the loop test is compiled as gcc -O2 does it, with
                \* current_clients loaded once before the empty loop body

\* "OPTIONS": that method; "ROUTED": any other request line that parses;
\* "GARBAGE": bytes from which parse_req_buffer gets no method and path.
RequestKinds == {"OPTIONS", "ROUTED", "GARBAGE"}
FaultKinds   == {"malloc", "thread", "hangup"}

ASSUME ConnectionsAssumption ==
  /\ IsFiniteSet(Conns)
  /\ NoConn \notin Conns
  /\ Fds \subseteq Nat
  /\ Modulus \in Nat
  /\ MaxClients \in 0 .. (Modulus - 1)
  /\ Requests \subseteq RequestKinds
  /\ Faults \subseteq FaultKinds
  /\ AtomicRmw \in BOOLEAN
  /\ CachedCheck \in BOOLEAN

VARIABLES
  up,              \* the process is running
  currentClients,  \* serv->current_clients
  loop,            \* where cHTTPX_Listen is
  loopConn,        \* the connection its client_fd was accepted for
  loopReg,         \* the value its ++ has loaded
  pc,              \* where each connection, and later its thread, is
  fd,              \* client_sock: the number accept returned for it
  method,          \* the request the thread parsed, "none" before
  reg,             \* the value the thread's -- has loaded
  fdTable,         \* kernel: which connection a number stands for
  inbox,           \* kernel: the request waiting to be received
  peer,            \* kernel: the other end, "open", "closed" or "reset"
  wire             \* what was sent on the connection, and by which thread

loopVars   == <<loop, loopConn, loopReg>>
threadVars == <<fd, method, reg>>
netVars    == <<inbox, peer, wire>>
vars == <<up, currentClients, loop, loopConn, loopReg,
          pc, fd, method, reg, fdTable, inbox, peer, wire>>

\* A connection before its thread runs, while it runs, and after.
Outside == {"new", "backlog", "accepted", "counted"}
Running == {"read", "options", "optclose", "head", "body", "close", "dec", "store"}
Ended   == {"done", "lost"}

Parts == {"head", "body"}

Init ==
  /\ up = TRUE
  /\ currentClients = 0
  /\ loop = "check"
  /\ loopConn = NoConn
  /\ loopReg = 0
  /\ pc = [c \in Conns |-> "new"]
  /\ fd = [c \in Conns |-> 0]
  /\ method = [c \in Conns |-> "none"]
  /\ reg = [c \in Conns |-> 0]
  /\ fdTable = [f \in Fds |-> NoConn]
  /\ inbox = [c \in Conns |-> "empty"]
  /\ peer = [c \in Conns |-> "open"]
  /\ wire = [c \in Conns |-> <<>>]

Goto(c, from, to) ==
  /\ pc[c] = from
  /\ pc' = [pc EXCEPT ![c] = to]

-----------------------------------------------------------------------------
(***************************************************************************)
(* The clients.                                                            *)
(***************************************************************************)

Connect(c) ==
  /\ Goto(c, "new", "backlog")
  /\ UNCHANGED <<up, currentClients, loopVars, threadVars, fdTable, netVars>>

ClientSend(c, r) ==
  /\ pc[c] # "new" /\ peer[c] = "open" /\ inbox[c] = "empty"
  /\ inbox' = [inbox EXCEPT ![c] = r]
  /\ UNCHANGED <<up, currentClients, loopVars, pc, threadVars, fdTable, peer, wire>>

Hangup(c) ==
  /\ "hangup" \in Faults
  /\ pc[c] # "new" /\ peer[c] = "open"
  /\ peer' = [peer EXCEPT ![c] = "closed"]
  /\ UNCHANGED <<up, currentClients, loopVars, pc, threadVars, fdTable, inbox, wire>>

-----------------------------------------------------------------------------
(***************************************************************************)
(* The accept loop.                                                        *)
(***************************************************************************)

\* The limit itself is still admitted.
MutLoopAdmit ==
  /\ loop = "check"
  /\ currentClients <= MaxClients
  /\ loop' = "accept"
  /\ UNCHANGED <<up, currentClients, loopConn, loopReg, pc, threadVars, fdTable, netVars>>

\* The counter is below the limit: on to accept().
LoopAdmit ==
  /\ loop = "check"
  /\ currentClients < MaxClients
  /\ loop' = "accept"
  /\ UNCHANGED <<up, currentClients, loopConn, loopReg, pc, threadVars, fdTable, netVars>>

\* The limit is reached.  A build that re-reads the counter just goes round;
\* one that keeps it in a register never leaves the test again.
LoopSpin ==
  /\ loop = "check"
  /\ currentClients >= MaxClients
  /\ CachedCheck
  /\ loop' = "stuck"
  /\ UNCHANGED <<up, currentClients, loopConn, loopReg, pc, threadVars, fdTable, netVars>>

FreeFds == {f \in Fds : fdTable[f] = NoConn}

\* accept() returns the lowest free number.
Accept(c, f) ==
  /\ loop = "accept"
  /\ Goto(c, "backlog", "accepted")
  /\ f \in FreeFds
  /\ \A g \in FreeFds : f <= g
  /\ fd' = [fd EXCEPT ![c] = f]
  /\ fdTable' = [fdTable EXCEPT ![f] = c]
  /\ loop' = "inc"
  /\ loopConn' = c
  /\ UNCHANGED <<up, currentClients, loopReg, method, reg, netVars>>

\* accept() has no number left and returns -1 at once: continue.
AcceptFails ==
  /\ loop = "accept"
  /\ FreeFds = {}
  /\ loop' = "check"
  /\ UNCHANGED <<up, currentClients, loopConn, loopReg, pc, threadVars, fdTable, netVars>>

\* size_t arithmetic.
Plus1(n)  == IF n = Modulus - 1 THEN 0 ELSE n + 1
Minus1(n) == IF n = 0 THEN Modulus - 1 ELSE n - 1

\* serv->current_clients++, in one step or as a load and a store.
Inc ==
  /\ AtomicRmw
  /\ loop = "inc"
  /\ Goto(loopConn, "accepted", "counted")
  /\ currentClients' = Plus1(currentClients)
  /\ loop' = "alloc"
  /\ UNCHANGED <<up, loopConn, loopReg, threadVars, fdTable, netVars>>

IncLoad ==
  /\ ~AtomicRmw
  /\ loop = "inc"
  /\ loopReg' = currentClients
  /\ loop' = "incstore"
  /\ UNCHANGED <<up, currentClients, loopConn, pc, threadVars, fdTable, netVars>>

IncStore ==
  /\ loop = "incstore"
  /\ Goto(loopConn, "accepted", "counted")
  /\ currentClients' = Plus1(loopReg)
  /\ loop' = "alloc"
  /\ UNCHANGED <<up, loopConn, loopReg, threadVars, fdTable, netVars>>

Alloc ==
  /\ loop = "alloc"
  /\ loop' = "spawn"
  /\ UNCHANGED <<up, currentClients, loopConn, loopReg, pc, threadVars, fdTable, netVars>>

\* malloc returned NULL but the loop does not go round.
MutAllocFail ==
  /\ "malloc" \in Faults
  /\ loop = "alloc"
  /\ fdTable' = [fdTable EXCEPT ![fd[loopConn]] = NoConn]
  /\ loop' = "spawn"
  /\ UNCHANGED <<up, currentClients, loopConn, loopReg, pc, threadVars, netVars>>

\* malloc returned NULL: the descriptor is closed, the slot stays counted.
AllocFail ==
  /\ "malloc" \in Faults
  /\ loop = "alloc"
  /\ Goto(loopConn, "counted", "lost")
  /\ fdTable' = [fdTable EXCEPT ![fd[loopConn]] = NoConn]
  /\ loop' = "check"
  /\ UNCHANGED <<up, currentClients, loopConn, loopReg, threadVars, netVars>>

Spawn ==
  /\ loop = "spawn"
  /\ Goto(loopConn, "counted", "read")
  /\ loop' = "check"
  /\ UNCHANGED <<up, currentClients, loopConn, loopReg, threadVars, fdTable, netVars>>

\* _thread_create fails and nobody looks: descriptor and slot stay taken, and
\* pthread_detach gets a thread_id that was never written, which may crash.
SpawnFail ==
  /\ "thread" \in Faults
  /\ loop = "spawn"
  /\ Goto(loopConn, "counted", "lost")
  /\ loop' = "check"
  /\ up' \in BOOLEAN
  /\ UNCHANGED <<currentClients, loopConn, loopReg, threadVars, fdTable, netVars>>

LoopStep ==
  \/ LoopAdmit
  \/ LoopSpin
  \/ \E c \in Conns, f \in Fds : Accept(c, f)
  \/ AcceptFails
  \/ Inc
  \/ IncLoad
  \/ IncStore
  \/ Alloc
  \/ Spawn

LoopFault == AllocFail \/ SpawnFail

-----------------------------------------------------------------------------
(***************************************************************************)
(* A client thread.  At(c) is what the number it holds stands for now.     *)
(***************************************************************************)

At(c) == fdTable[fd[c]]

\* One send(): nothing on a closed number; a peer that hung up answers with a
\* reset, and after the reset send() raises SIGPIPE (nobody ignores it) unless
\* this call only reports ECONNRESET.
Transmit(c, part) ==
  \/ /\ At(c) = NoConn
     /\ UNCHANGED <<up, peer, wire>>
  \/ /\ At(c) # NoConn /\ peer[At(c)] = "open"
     /\ wire' = [wire EXCEPT ![At(c)] = Append(@, [by |-> c, part |-> part])]
     /\ UNCHANGED <<up, peer>>
  \/ /\ At(c) # NoConn /\ peer[At(c)] = "closed"
     /\ \E p \in {"closed", "reset"} : peer' = [peer EXCEPT ![At(c)] = p]
     /\ UNCHANGED <<up, wire>>
  \/ /\ At(c) # NoConn /\ peer[At(c)] = "reset"
     /\ up' \in BOOLEAN
     /\ UNCHANGED <<peer, wire>>

\* close(): the number is free again; EBADF when it already was.
CloseFd(c) == fdTable' = [fdTable EXCEPT ![fd[c]] = NoConn]

\* read_req and parse_req_buffer succeed.
ReadRequest(c) ==
  /\ pc[c] = "read"
  /\ At(c) # NoConn
  /\ inbox[At(c)] \in {"OPTIONS", "ROUTED"}
  /\ pc' = [pc EXCEPT ![c] = IF inbox[At(c)] = "OPTIONS" THEN "options" ELSE "head"]
  /\ method' = [method EXCEPT ![c] = inbox[At(c)]]
  /\ inbox' = [inbox EXCEPT ![At(c)] = "taken"]
  /\ UNCHANGED <<up, currentClients, loopVars, fd, reg, fdTable, peer, wire>>

MutReadFail(c) ==
  /\ Goto(c, "read", "dec")
  /\ \/ /\ At(c) # NoConn /\ inbox[At(c)] = "GARBAGE"
        /\ inbox' = [inbox EXCEPT ![At(c)] = "taken"]
     \/ /\ At(c) # NoConn => inbox[At(c)] \in {"empty", "taken"}
        /\ UNCHANGED inbox
  /\ UNCHANGED <<up, currentClients, loopVars, threadVars, fdTable, peer, wire>>

\* No slot is given back when the request could not be read.
MutReadFailLost(c) ==
  /\ Goto(c, "read", "done")
  /\ \/ /\ At(c) # NoConn /\ inbox[At(c)] = "GARBAGE"
        /\ inbox' = [inbox EXCEPT ![At(c)] = "taken"]
     \/ /\ At(c) # NoConn => inbox[At(c)] \in {"empty", "taken"}
        /\ UNCHANGED inbox
  /\ CloseFd(c)
  /\ UNCHANGED <<up, currentClients, loopVars, threadVars, peer, wire>>

\* The receive timeout is not set.
MutReadFailBlocks(c) ==
  /\ Goto(c, "read", "close")
  /\ At(c) # NoConn /\ inbox[At(c)] = "GARBAGE"
  /\ inbox' = [inbox EXCEPT ![At(c)] = "taken"]
  /\ UNCHANGED <<up, currentClients, loopVars, threadVars, fdTable, peer, wire>>

\* They fail: no such descriptor, nothing received before SO_RCVTIMEO or the
\* end of the stream, or bytes without a method and a path.
ReadFail(c) ==
  /\ Goto(c, "read", "close")
  /\ \/ /\ At(c) # NoConn /\ inbox[At(c)] = "GARBAGE"
        /\ inbox' = [inbox EXCEPT ![At(c)] = "taken"]
     \/ /\ At(c) # NoConn => inbox[At(c)] \in {"empty", "taken"}
        /\ UNCHANGED inbox
  /\ UNCHANGED <<up, currentClients, loopVars, threadVars, fdTable, peer, wire>>

\* is_method_options: a 204 without body, then close, then the caller goes on.
OptionsReply(c) ==
  /\ Goto(c, "options", "optclose")
  /\ Transmit(c, "head")
  /\ UNCHANGED <<currentClients, loopVars, threadVars, fdTable, inbox>>

OptionsClose(c) ==
  /\ Goto(c, "optclose", "head")
  /\ CloseFd(c)
  /\ UNCHANGED <<up, currentClients, loopVars, threadVars, netVars>>

\* find_route, the middlewares and the handler have filled the response;
\* send_response sends the header block, then the body if there is one.
SendHead(c) ==
  /\ \E next \in {"body", "close"} : Goto(c, "head", next)
  /\ Transmit(c, "head")
  /\ UNCHANGED <<currentClients, loopVars, threadVars, fdTable, inbox>>

\* A second response follows the first one (a missing `goto cleanup').
MutSendBody(c) ==
  /\ \E next \in {"head", "close"} : Goto(c, "body", next)
  /\ Transmit(c, "body")
  /\ UNCHANGED <<currentClients, loopVars, threadVars, fdTable, inbox>>

SendBody(c) ==
  /\ Goto(c, "body", "close")
  /\ Transmit(c, "body")
  /\ UNCHANGED <<currentClients, loopVars, threadVars, fdTable, inbox>>

Close(c) ==
  /\ Goto(c, "close", "dec")
  /\ CloseFd(c)
  /\ UNCHANGED <<up, currentClients, loopVars, threadVars, netVars>>

MutDec(c) ==
  /\ AtomicRmw
  /\ Goto(c, "dec", "done")
  /\ UNCHANGED <<up, currentClients, loopVars, threadVars, fdTable, netVars>>

\* serv->current_clients--, in one step or as a load and a store.
Dec(c) ==
  /\ AtomicRmw
  /\ Goto(c, "dec", "done")
  /\ currentClients' = Minus1(currentClients)
  /\ UNCHANGED <<up, loopVars, threadVars, fdTable, netVars>>

DecLoad(c) ==
  /\ ~AtomicRmw
  /\ Goto(c, "dec", "store")
  /\ reg' = [reg EXCEPT ![c] = currentClients]
  /\ UNCHANGED <<up, currentClients, loopVars, fd, method, fdTable, netVars>>

MutDecStore(c) ==
  /\ Goto(c, "store", "done")
  /\ currentClients' = IF reg[c] = 0 THEN Modulus ELSE reg[c] - 1
  /\ UNCHANGED <<up, loopVars, threadVars, fdTable, netVars>>

DecStore(c) ==
  /\ Goto(c, "store", "done")
  /\ currentClients' = Minus1(reg[c])
  /\ UNCHANGED <<up, loopVars, threadVars, fdTable, netVars>>

ThreadStep(c) ==
  \/ ReadRequest(c)
  \/ ReadFail(c)
  \/ OptionsReply(c)
  \/ OptionsClose(c)
  \/ SendHead(c)
  \/ SendBody(c)
  \/ Close(c)
  \/ Dec(c)
  \/ DecLoad(c)
  \/ DecStore(c)

ClientStep ==
  \E c \in Conns :
    \/ Connect(c)
    \/ \E r \in Requests : ClientSend(c, r)
    \/ Hangup(c)

Next ==
  /\ up
  /\ \/ ClientStep
     \/ LoopStep
     \/ LoopFault
     \/ \E c \in Conns : ThreadStep(c)

\* The scheduler runs the accept loop and every thread.  Receiving a header and
\* sending cannot block for ever: set_client_timeout bounds both.  Handlers
\* return.  (A request with a body may block: see RequestBody.)
Fairness ==
  /\ WF_vars(up /\ LoopStep)
  /\ \A c \in Conns : WF_vars(up /\ ThreadStep(c))

Spec == Init /\ [][Next]_vars
FairSpec == Spec /\ Fairness

-----------------------------------------------------------------------------
(***************************************************************************)
(* Properties.                                                             *)
(***************************************************************************)

\* The type of every variable; in particular the counter is always a size_t,
\* also after a -- of zero.
TypeOK ==
  /\ up \in BOOLEAN
  /\ currentClients \in 0 .. (Modulus - 1)
  /\ loop \in {"check", "accept", "inc", "incstore", "alloc", "spawn", "stuck"}
  /\ loopConn \in Conns \cup {NoConn}
  /\ loopReg \in 0 .. (Modulus - 1)
  /\ pc \in [Conns -> Outside \cup Running \cup Ended]
  /\ fd \in [Conns -> Nat]
  /\ method \in [Conns -> {"none", "OPTIONS", "ROUTED"}]
  /\ reg \in [Conns -> 0 .. (Modulus - 1)]
  /\ fdTable \in [Fds -> Conns \cup {NoConn}]
  /\ inbox \in [Conns -> RequestKinds \cup {"empty", "taken"}]
  /\ peer \in [Conns -> {"open", "closed", "reset"}]
  /\ wire \in [Conns -> Seq([by : Conns, part : Parts])]

\* What a client receives was sent by the thread that serves it: chttpx_handle
\* "sends the response back to the client" it was started for.
ResponseIsolation ==
  \A c \in Conns : \A i \in DOMAIN wire[c] : wire[c][i].by = c

PartsOn(c) == [i \in DOMAIN wire[c] |-> wire[c][i].part]

\* A client gets at most one response, header before body; and once its thread
\* is past sending, a request that parsed and a client that stayed have got one
\* (every path of chttpx_handle after parse_req_buffer runs send_response once).
AnsweredOnce ==
  \A c \in Conns :
    /\ PartsOn(c) \in {<<>>, <<"head">>, <<"head", "body">>}
    /\ (pc[c] \in {"close", "dec", "store", "done"} /\ method[c] = "ROUTED" /\ peer[c] = "open")
         => wire[c] # <<>>

\* A connection is taken out of the descriptor table only by its own thread, or
\* by the accept loop that could not start one (chttpx_close(client_fd)).
OnlyOwnerCloses ==
  [][\A f \in Fds, c \in Conns :
       (fdTable[f] = c /\ fdTable'[f] # c) =>
         \/ pc[c] = "close" /\ pc'[c] = "dec"
         \/ pc[c] = "counted" /\ pc'[c] = "lost"]_vars

\* No descriptor is forgotten: one that is open belongs to a connection whose
\* accept or thread still has its close ahead, unless the thread never started.
OpenFdsHaveCloser ==
  \A f \in Fds : fdTable[f] # NoConn =>
    /\ fd[fdTable[f]] = f
    /\ pc[fdTable[f]] \in {"accepted", "counted", "read", "options", "optclose",
                           "head", "body", "close", "lost"}

\* Connections counted by ++ and not yet given back by --.
Holding == {c \in Conns : pc[c] \in {"counted", "lost"} \cup (Running \ {"store"})}

\* With indivisible ++ and --, current_clients is the number of connections
\* that hold a slot, those whose thread could not be started included.
SlotsExact == AtomicRmw => currentClients = Cardinality(Holding)

\* With indivisible ++ and --, no more than max_clients are served at a time,
\* although the test and the increment are separate steps around accept().
WithinLimit == AtomicRmw => Cardinality({c \in Conns : pc[c] \in Running}) <= MaxClients

\* The server keeps accepting: cHTTPX_Listen "blocks indefinitely, accepting
\* new client connections and dispatching them".
EveryClientAccepted ==
  \A c \in Conns : pc[c] = "backlog" ~> pc[c] # "backlog"

\* Every started thread ends, whatever its client sends or does not send.
EveryThreadEnds ==
  \A c \in Conns : pc[c] \in Running ~> pc[c] = "done"

\* The process outlives its clients: "blocks indefinitely" again.
ProcessRuns == up

================================================================================
