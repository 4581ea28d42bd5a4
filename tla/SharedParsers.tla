----------------------------- MODULE SharedParsers -----------------------------
(***************************************************************************)
(* What parse_req_buffer does between the request line and the body, with  *)
(* the state it shares with every other client thread: the static buffer   *)
(* of cHTTPX_ClientInetIP and the string position that strtok() keeps.     *)
(*                                                                         *)
(* A thread serves one request.  Its Cookie header and its query string    *)
(* are strings of numbered name=value pairs; what a thread stores for a    *)
(* pair is which string it was cut from, and which pairs of it.  strtok()  *)
(* is called as one step; its races with itself would only add outcomes.   *)
(***************************************************************************)
EXTENDS Naturals, Sequences, FiniteSets

CONSTANTS
  Threads,
  Lengths,     \* numbers of pairs a Cookie header or a query may have
  MaxCookies,  \* MAX_COOKIES
  MaxActive,   \* requests served at a time: serv->max_clients
  Unknown,     \* the address "-"
  Torn         \* part of one address and part of another

ASSUME SharedParsersAssumption ==
  /\ Lengths \subseteq Nat
  /\ MaxCookies \in Nat \ {0} /\ MaxActive \in Nat
  /\ {Unknown, Torn} \cap Threads = {}

VARIABLES
  pc,        \* where each thread is
  pairs,     \* pairs[t][s]: how many pairs string s of its request has
  ipBuf,     \* static char ip[]; an address is named by the thread it belongs to
  returned,  \* what cHTTPX_ClientInetIP returned: "buffer", or the literal "-"
  clientIp,  \* req->client_ip
  saved,     \* the position strtok() keeps
  cookies,   \* req->cookies
  query      \* req->query

vars == <<pc, pairs, ipBuf, returned, clientIp, saved, cookies, query>>

Strings == {"cookie", "query"}
Active == {"ip", "ipwrite", "ipcopy", "cookie", "cookies", "query", "queries", "handler"}

Init ==
  /\ pc = [t \in Threads |-> "new"]
  /\ pairs \in [Threads -> [Strings -> Lengths]]
  /\ ipBuf = Unknown
  /\ returned = [t \in Threads |-> "none"]
  /\ clientIp = [t \in Threads |-> Unknown]
  /\ saved = [of |-> Unknown, string |-> "cookie", next |-> 1]
  /\ cookies = [t \in Threads |-> <<>>]
  /\ query = [t \in Threads |-> <<>>]

Goto(t, from, to) ==
  /\ pc[t] = from
  /\ pc' = [pc EXCEPT ![t] = to]

Start(t) ==
  /\ Cardinality({u \in Threads : pc[u] \in Active}) < MaxActive
  /\ Goto(t, "new", "ip")
  /\ UNCHANGED <<pairs, ipBuf, returned, clientIp, saved, cookies, query>>

-----------------------------------------------------------------------------
(***************************************************************************)
(* cHTTPX_ClientInetIP and the copy of its result                          *)
(***************************************************************************)

\* getpeername() fails, the client has reset: the buffer is left alone.
PeerUnknown(t) ==
  /\ Goto(t, "ip", "ipcopy")
  /\ returned' = [returned EXCEPT ![t] = "dash"]
  /\ UNCHANGED <<pairs, ipBuf, clientIp, saved, cookies, query>>

\* inet_ntop() has begun, and has ended, to write the address.
WriteIp(t) ==
  /\ Goto(t, "ip", "ipwrite")
  /\ ipBuf' = Torn
  /\ UNCHANGED <<pairs, returned, clientIp, saved, cookies, query>>

WroteIp(t) ==
  /\ Goto(t, "ipwrite", "ipcopy")
  /\ ipBuf' = t
  /\ returned' = [returned EXCEPT ![t] = "buffer"]
  /\ UNCHANGED <<pairs, clientIp, saved, cookies, query>>

\* The failure is not told from the address of an earlier client.
MutCopyIp(t) ==
  /\ Goto(t, "ipcopy", "cookie")
  /\ clientIp' = [clientIp EXCEPT ![t] = ipBuf]
  /\ UNCHANGED <<pairs, ipBuf, returned, saved, cookies, query>>

CopyIp(t) ==
  /\ Goto(t, "ipcopy", "cookie")
  /\ clientIp' = [clientIp EXCEPT ![t] = IF returned[t] = "buffer" THEN ipBuf ELSE Unknown]
  /\ UNCHANGED <<pairs, ipBuf, returned, saved, cookies, query>>

-----------------------------------------------------------------------------
(***************************************************************************)
(* strtok()                                                                *)
(***************************************************************************)

\* The string the position is in still exists: a Cookie header is copied to
\* the stack of _parse_req_cookies, a query is part of req->path.
Alive(p) ==
  p.of \in Threads /\
  pc[p.of] \in IF p.string = "cookie" THEN {"cookies"} ELSE {"query", "queries", "handler"}

AtEnd(p) == p.next > pairs[p.of][p.string]

\* The next token and the position after it.  The other string has another
\* delimiter, so a search for the delimiter of s in it runs to its end.
Cut(p, s) ==
  LET token(to) == [of |-> p.of, string |-> p.string, from |-> p.next, to |-> to]
  IN [token |-> token(IF p.string = s THEN p.next ELSE pairs[p.of][p.string]),
      rest  |-> [p EXCEPT !.next = IF p.string = s THEN @ + 1
                                   ELSE pairs[p.of][p.string] + 1]]

\* A string that is gone may read as anything: here as empty or as it was.
TokenThere(p) == ~AtEnd(p)
TokenMissing(p) == Alive(p) => AtEnd(p)

StartOf(t, s) == [of |-> t, string |-> s, next |-> 1]

-----------------------------------------------------------------------------
(***************************************************************************)
(* _parse_req_cookies                                                      *)
(***************************************************************************)

NoCookieHeader(t) ==
  /\ pairs[t]["cookie"] = 0
  /\ Goto(t, "cookie", "query")
  /\ UNCHANGED <<pairs, ipBuf, returned, clientIp, saved, cookies, query>>

\* strtok(buffer, ";"), then strtok(NULL, ";") after each pair.
FirstCookie(t) ==
  /\ pairs[t]["cookie"] > 0
  /\ Goto(t, "cookie", "cookies")
  /\ LET p == StartOf(t, "cookie") IN
       /\ cookies' = [cookies EXCEPT ![t] = Append(@, Cut(p, "cookie").token)]
       /\ saved' = Cut(p, "cookie").rest
  /\ UNCHANGED <<pairs, ipBuf, returned, clientIp, query>>

NextCookie(t) ==
  /\ pc[t] = "cookies"
  /\ Len(cookies[t]) < MaxCookies
  /\ TokenThere(saved)
  /\ cookies' = [cookies EXCEPT ![t] = Append(@, Cut(saved, "cookie").token)]
  /\ saved' = Cut(saved, "cookie").rest
  /\ UNCHANGED <<pc, pairs, ipBuf, returned, clientIp, query>>

\* The table counts as full when one place is left.
MutCookiesDone(t) ==
  /\ Goto(t, "cookies", "query")
  /\ Len(cookies[t]) >= MaxCookies - 1 \/ TokenMissing(saved)
  /\ UNCHANGED <<pairs, ipBuf, returned, clientIp, saved, cookies, query>>

\* The table is full (one more token was cut and is dropped), or there is none.
CookiesDone(t) ==
  /\ Goto(t, "cookies", "query")
  /\ \/ /\ Len(cookies[t]) >= MaxCookies /\ TokenThere(saved)
        /\ saved' = Cut(saved, "cookie").rest
     \/ /\ TokenMissing(saved)
        /\ UNCHANGED saved
  /\ UNCHANGED <<pairs, ipBuf, returned, clientIp, cookies, query>>

-----------------------------------------------------------------------------
(***************************************************************************)
(* _parse_req_query                                                        *)
(***************************************************************************)

NoQuery(t) ==
  /\ pairs[t]["query"] = 0
  /\ Goto(t, "query", "handler")
  /\ UNCHANGED <<pairs, ipBuf, returned, clientIp, saved, cookies, query>>

FirstQuery(t) ==
  /\ pairs[t]["query"] > 0
  /\ Goto(t, "query", "queries")
  /\ LET p == StartOf(t, "query") IN
       /\ query' = [query EXCEPT ![t] = Append(@, Cut(p, "query").token)]
       /\ saved' = Cut(p, "query").rest
  /\ UNCHANGED <<pairs, ipBuf, returned, clientIp, cookies>>

NextQuery(t) ==
  /\ pc[t] = "queries"
  /\ TokenThere(saved)
  /\ query' = [query EXCEPT ![t] = Append(@, Cut(saved, "query").token)]
  /\ saved' = Cut(saved, "query").rest
  /\ UNCHANGED <<pc, pairs, ipBuf, returned, clientIp, cookies>>

\* The last pair of the query is missed.
MutQueriesDone(t) ==
  /\ Goto(t, "queries", "handler")
  /\ saved.next >= pairs[saved.of][saved.string]
  /\ UNCHANGED <<pairs, ipBuf, returned, clientIp, saved, cookies, query>>

QueriesDone(t) ==
  /\ Goto(t, "queries", "handler")
  /\ TokenMissing(saved)
  /\ UNCHANGED <<pairs, ipBuf, returned, clientIp, saved, cookies, query>>

Finish(t) ==
  /\ Goto(t, "handler", "done")
  /\ UNCHANGED <<pairs, ipBuf, returned, clientIp, saved, cookies, query>>

Step(t) ==
  \/ Start(t)
  \/ PeerUnknown(t) \/ WriteIp(t) \/ WroteIp(t) \/ CopyIp(t)
  \/ NoCookieHeader(t) \/ FirstCookie(t) \/ NextCookie(t) \/ CookiesDone(t)
  \/ NoQuery(t) \/ FirstQuery(t) \/ NextQuery(t) \/ QueriesDone(t)
  \/ Finish(t)

Next == \E t \in Threads : Step(t)

Spec == Init /\ [][Next]_vars

-----------------------------------------------------------------------------
(***************************************************************************)
(* Properties.                                                             *)
(***************************************************************************)

Tokens == [of : Threads, string : Strings, from : Nat, to : Nat]

\* The type of every variable; req->cookies never overflows its array.
TypeOK ==
  /\ pc \in [Threads -> Active \cup {"new", "done"}]
  /\ pairs \in [Threads -> [Strings -> Lengths]]
  /\ ipBuf \in Threads \cup {Unknown, Torn}
  /\ returned \in [Threads -> {"none", "dash", "buffer"}]
  /\ clientIp \in [Threads -> Threads \cup {Unknown, Torn}]
  /\ saved \in [of : Threads \cup {Unknown}, string : Strings, next : Nat]
  /\ \A t \in Threads : cookies[t] \in Seq(Tokens) /\ Len(cookies[t]) <= MaxCookies
  /\ \A t \in Threads : query[t] \in Seq(Tokens)

\* req->client_ip is the address of the client of this request, or "-".
ClientIpIsOwn == \A t \in Threads : clientIp[t] \in {t, Unknown}

\* The first n pairs of a string, one by one.
Cuts(t, s, n) == [i \in 1 .. n |-> [of |-> t, string |-> s, from |-> i, to |-> i]]

Fewer(m, n) == IF m < n THEN m ELSE n

\* The handler finds the cookies of its own request: all of them, in order, up
\* to MAX_COOKIES.
CookiesAreOwn ==
  \A t \in Threads : pc[t] = "handler" =>
    cookies[t] = Cuts(t, "cookie", Fewer(MaxCookies, pairs[t]["cookie"]))

\* The handler finds the parameters of its own query, all of them, in order,
\* although the cookie parser may have left strtok() in the middle of a string.
QueryIsOwn ==
  \A t \in Threads : pc[t] = "handler" =>
    query[t] = Cuts(t, "query", pairs[t]["query"])

\* A handler finds the address, the cookies and the parameters of its own
\* request.
StringsAreOwn == ClientIpIsOwn /\ CookiesAreOwn /\ QueryIsOwn

================================================================================
