-------------------------------- MODULE Routing --------------------------------
(***************************************************************************)
(* The route table: cHTTPX_RegisterRoute and route() fill it before the    *)
(* server listens, find_route and match_route search it for each request.  *)
(*                                                                         *)
(* A path is a sequence of characters; a template also has parameters,     *)
(* "{name}", as single elements.  Templates close their braces and keep    *)
(* names shorter than MAX_PARAM_NAME.                                      *)
(***************************************************************************)
EXTENDS Naturals, Sequences, FiniteSets

CONSTANTS
  Methods,
  RoutePrefixes,  \* prefixes given to cHTTPX_RoutePathPrefix
  Templates,      \* paths given to cHTTPX_RegisterRoute
  RequestPaths,   \* paths of requests, the query cut off
  ParamNames,     \* the elements of templates that are parameters
  MaxPath,        \* MAX_PATH
  MaxParams,      \* MAX_PARAMS
  MaxValue,       \* MAX_PARAM_VALUE
  FirstCapacity,  \* the capacity the table starts with
  MaxCalls,       \* bound: calls of cHTTPX_RegisterRoute
  NeverWritten    \* a value that was never written

ASSUME RoutingAssumption ==
  /\ MaxPath \in Nat \ {0} /\ MaxParams \in Nat \ {0} /\ MaxValue \in Nat \ {0}
  /\ FirstCapacity \in Nat \ {0} /\ MaxCalls \in Nat
  /\ "/" \notin ParamNames
  /\ \A s \in RoutePrefixes \cup Templates \cup RequestPaths : s \in Seq({s[i] : i \in DOMAIN s})

VARIABLES
  registered,  \* history: what cHTTPX_RegisterRoute was called with
  routes,      \* serv->routes
  capacity,    \* serv->routes_capacity
  finding,     \* "setup", then find_route: "search", "found" or "none"
  method, path,  \* of the request
  next,        \* the index find_route looks at
  params,      \* req->params
  count        \* req->params_count

routingVars == <<registered, routes, capacity, finding, method, path, next, params, count>>

RoutingInit ==
  /\ registered = <<>>
  /\ routes = <<>>
  /\ capacity = 0
  /\ finding = "setup"
  /\ method = NeverWritten
  /\ path = <<>>
  /\ next = 1
  /\ params = [k \in 1 .. MaxParams |-> NeverWritten]
  /\ count = 0

-----------------------------------------------------------------------------
(***************************************************************************)
(* Registration                                                            *)
(***************************************************************************)

\* The table is enlarged one element late.
MutGrown ==
  IF Len(routes) <= capacity THEN capacity
  ELSE IF capacity = 0 THEN FirstCapacity ELSE capacity * 2

Grown ==
  IF Len(routes) # capacity THEN capacity
  ELSE IF capacity = 0 THEN FirstCapacity ELSE capacity * 2

\* The '\0' behind the path is not counted.
MutFits(fpath) == Len(fpath) <= MaxPath

Fits(fpath) == Len(fpath) < MaxPath

\* A path that does not fit with its prefix is dropped without a word.
RegisterRoute(prefix, m, template) ==
  /\ finding = "setup"
  /\ Len(registered) < MaxCalls
  /\ registered' = Append(registered, [method |-> m, path |-> prefix \o template])
  /\ IF Fits(prefix \o template)
     THEN /\ capacity' = Grown
          /\ routes' = Append(routes, [method |-> m, path |-> prefix \o template])
     ELSE UNCHANGED <<capacity, routes>>
  /\ UNCHANGED <<finding, method, path, next, params, count>>

\* cHTTPX_Listen, and the first request.
Request(m, p) ==
  /\ finding = "setup"
  /\ finding' = "search"
  /\ method' = m
  /\ path' = p
  /\ UNCHANGED <<registered, routes, capacity, next, params, count>>

-----------------------------------------------------------------------------
(***************************************************************************)
(* match_route                                                             *)
(***************************************************************************)

\* How much of p, from j on, a parameter takes: up to the next slash, but no
\* more than fits the buffer.
ValueLen(p, j) ==
  LET slashes == {k \in j .. Len(p) : p[k] = "/"}
      end == IF slashes = {} THEN Len(p) + 1
             ELSE CHOOSE k \in slashes : \A l \in slashes : k <= l
  IN IF end - j >= MaxValue THEN MaxValue - 1 ELSE end - j

ParamsBefore(t, i) == Cardinality({k \in 1 .. (i - 1) : t[k] \in ParamNames})

\* A template that has run out matches whatever is left of the path.
MutRouteEnds(t, i, p, j) == i > Len(t)

RouteEnds(t, i, p, j) == i > Len(t) /\ j > Len(p)

\* Whether t matches p, and what was written to params until that was known.
MatchRoute(t, p) ==
  LET match[i \in 1 .. Len(t) + 1] ==
        [j \in 1 .. Len(p) + 1 |->
          IF i > Len(t) \/ j > Len(p)
          THEN [ok |-> RouteEnds(t, i, p, j), params |-> <<>>]
          ELSE IF t[i] \in ParamNames
          THEN IF ParamsBefore(t, i) >= MaxParams
               THEN [ok |-> FALSE, params |-> <<>>]
               ELSE LET rest == match[i + 1][j + ValueLen(p, j)]
                        value == SubSeq(p, j, j + ValueLen(p, j) - 1)
                    IN [ok |-> rest.ok,
                        params |-> <<[name |-> t[i], value |-> value]>> \o rest.params]
          ELSE IF t[i] = p[j] THEN match[i + 1][j + 1]
          ELSE [ok |-> FALSE, params |-> <<>>]]
  IN match[1][1]

-----------------------------------------------------------------------------
(***************************************************************************)
(* find_route                                                              *)
(***************************************************************************)

SkipRoute ==
  /\ finding = "search"
  /\ next <= Len(routes)
  /\ routes[next].method # method
  /\ next' = next + 1
  /\ UNCHANGED <<registered, routes, capacity, finding, method, path, params, count>>

\* The captured parameters go behind those of templates tried before.
MutWritten(got) ==
  [k \in 1 .. MaxParams |->
    IF params[k] # NeverWritten THEN params[k]
    ELSE IF k <= Len(got) THEN got[k] ELSE params[k]]

\* req->params afterwards: written from the start, the rest is left.
Written(got) ==
  [k \in 1 .. MaxParams |-> IF k <= Len(got) THEN got[k] ELSE params[k]]

TryRoute ==
  /\ finding = "search"
  /\ next <= Len(routes)
  /\ routes[next].method = method
  /\ LET m == MatchRoute(routes[next].path, path) IN
       /\ params' = Written(m.params)
       /\ IF m.ok
          THEN finding' = "found" /\ count' = Len(m.params) /\ next' = next
          ELSE finding' = "search" /\ count' = count /\ next' = next + 1
  /\ UNCHANGED <<registered, routes, capacity, method, path>>

NoRoute ==
  /\ finding = "search"
  /\ next > Len(routes)
  /\ finding' = "none"
  /\ UNCHANGED <<registered, routes, capacity, method, path, next, params, count>>

RoutingNext ==
  \/ \E pre \in RoutePrefixes, m \in Methods, t \in Templates : RegisterRoute(pre, m, t)
  \/ \E m \in Methods, p \in RequestPaths : Request(m, p)
  \/ SkipRoute
  \/ TryRoute
  \/ NoRoute

RoutingSpec == RoutingInit /\ [][RoutingNext]_routingVars

-----------------------------------------------------------------------------
(***************************************************************************)
(* What a match is, segment by segment.  Segment k is what stands between  *)
(* the k-th slash and the next one.                                        *)
(***************************************************************************)

SlashesUpTo(s, i) == Cardinality({k \in 1 .. i : s[k] = "/"})

Segment(s, k) ==
  LET inside == {i \in 1 .. Len(s) : s[i] # "/" /\ SlashesUpTo(s, i) = k}
      first  == CHOOSE i \in inside : \A j \in inside : i <= j
  IN IF inside = {} THEN <<>> ELSE SubSeq(s, first, first + Cardinality(inside) - 1)

LastSegment(s) == SlashesUpTo(s, Len(s))

HasParam(seg) == seg # <<>> /\ seg[Len(seg)] \in ParamNames

\* In a well formed template a parameter is the last element of its segment.
WellFormed(t) ==
  \A i \in 1 .. Len(t) : t[i] \in ParamNames => i = Len(t) \/ t[i + 1] = "/"

TemplatesWellFormed ==
  \A prefix \in RoutePrefixes, template \in Templates : WellFormed(prefix \o template)

ValueOf(tseg, pseg) == SubSeq(pseg, Len(tseg), Len(pseg))

\* A parameter stands for any value that fits its buffer; at the very end of
\* the path it does not stand for an empty one.
SegmentMatches(tseg, pseg, isLast) ==
  IF HasParam(tseg)
  THEN /\ Len(pseg) >= Len(tseg) - 1
       /\ SubSeq(tseg, 1, Len(tseg) - 1) = SubSeq(pseg, 1, Len(tseg) - 1)
       /\ Len(ValueOf(tseg, pseg)) < MaxValue
       /\ isLast => ValueOf(tseg, pseg) # <<>>
  ELSE tseg = pseg

Matches(t, p) ==
  /\ LastSegment(t) = LastSegment(p)
  /\ \A k \in 0 .. LastSegment(t) :
       SegmentMatches(Segment(t, k), Segment(p, k), k = LastSegment(t))
  /\ Cardinality({i \in 1 .. Len(t) : t[i] \in ParamNames}) <= MaxParams

-----------------------------------------------------------------------------
(***************************************************************************)
(* Properties.                                                             *)
(***************************************************************************)

\* The shape of the table and of the search: the table is never longer than
\* what was allocated for it, nor the parameters longer than their array.
RoutingTypeOK ==
  /\ Len(routes) <= capacity
  /\ Len(routes) <= Len(registered) /\ Len(registered) <= MaxCalls
  /\ finding \in {"setup", "search", "found", "none"}
  /\ method \in Methods \cup {NeverWritten}
  /\ path \in RequestPaths \cup {<<>>}
  /\ next \in 1 .. (Len(routes) + 1)
  /\ DOMAIN params = 1 .. MaxParams
  /\ count \in 0 .. MaxParams

\* The routes of the request's method that match its path.
Candidates ==
  {i \in 1 .. Len(routes) :
     routes[i].method = method /\ Matches(routes[i].path, path)}

\* "Find a registered route by HTTP method and path": the one that was
\* registered first of those that match segment by segment, and "not found"
\* only if none does.
FirstMatch ==
  /\ finding = "found" => next \in Candidates /\ \A i \in Candidates : next <= i
  /\ finding = "none" => Candidates = {}

ParamSegments(t) == {k \in 0 .. LastSegment(t) : HasParam(Segment(t, k))}

\* The parameters of a found route are those of its own template, in order and
\* with their whole segments, whatever templates were tried before it.
ParamsAreOwn ==
  finding = "found" =>
    LET t == routes[next].path IN
      /\ count = Cardinality(ParamSegments(t))
      /\ \A k \in ParamSegments(t) :
           params[Cardinality({l \in ParamSegments(t) : l <= k})] =
             [name  |-> Segment(t, k)[Len(Segment(t, k))],
              value |-> ValueOf(Segment(t, k), Segment(path, k))]

\* Every route whose full path fits is in the table, in the order of the calls:
\* enlarging the table loses none.
EveryRouteKept ==
  LET fits == {i \in DOMAIN registered : Len(registered[i].path) < MaxPath}
  IN /\ Len(routes) = Cardinality(fits)
     /\ \A i \in fits : routes[Cardinality({j \in fits : j <= i})] = registered[i]

================================================================================
