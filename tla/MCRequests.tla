------------------------------- MODULE MCRequests -------------------------------
(***************************************************************************)
(* The two halves of serving a request, each fair on its own: taking the   *)
(* body of one request off its socket, and the chain of middlewares with   *)
(* its handler on several threads.  One of them is chosen and runs.        *)
(***************************************************************************)
EXTENDS Pipeline, MCRequestBody

\* A request without a body is one of those that are modelled.
ASSUME RequestsAssumption ==
  "other" \in ContentTypes /\ Cap \in HeaderLens /\ 0 \in BodyLens /\ 0 \in Extras

VARIABLE half

requestsVars == <<half, vars, bodyVars>>

\* No request at the socket: the client went away before it sent any.
NoRequest ==
  /\ kind = "other" /\ hlen = Cap /\ clen = 0 /\ extra = 0
  /\ where = "closed" /\ ended = TRUE /\ arrived = 0 /\ buf = 0 /\ taken = 0 /\ remaining = 0
  /\ body = NoBody /\ file = NoFile
  /\ filename = FALSE /\ waited = FALSE /\ faulty = FALSE

RequestsInit ==
  /\ half \in {"body", "chain"}
  /\ Init
  /\ IF half = "body" THEN BodyInit ELSE NoRequest

RequestsNext ==
  /\ UNCHANGED half
  /\ IF half = "chain" THEN Next ELSE UNCHANGED vars
  /\ IF half = "body" THEN BodyNext ELSE UNCHANGED bodyVars

\* The fairness of BodyFairSpec and of FairSpec, for the half that runs.
RequestsSpec ==
  /\ RequestsInit /\ [][RequestsNext]_requestsVars
  /\ WF_bodyVars(half = "body" /\ Server)
  /\ \A t \in Threads :
       WF_vars(half = "chain" /\ (Serve(t) \/ (SiteOf(t) = "loop" /\ Fault(t))))

\* The type of every variable.
RequestsTypeOK == TypeOK /\ BodyTypeOK

================================================================================
