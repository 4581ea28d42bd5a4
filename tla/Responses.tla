-------------------------------- MODULE Responses --------------------------------
(***************************************************************************)
(* A response from the handler to the socket: cHTTPX_ResJson, ...Html,     *)
(* ...Binary and ...File make one, cHTTPX_HeaderAdd and cHTTPX_CookieSet   *)
(* add to it, send_response writes it.  The file that ResFile sends may    *)
(* change between its steps.  A byte is a symbol, a header line a tuple.   *)
(***************************************************************************)
EXTENDS Integers, SequencesExt

CONSTANTS
  TextLengths,  \* lengths of formatted texts
  Contents,     \* byte sequences given to cHTTPX_ResBinary
  Files,        \* what the file may contain
  NoFileThere,
  HeaderFields, \* <<name, value>> given to cHTTPX_HeaderAdd
  Cookies,      \* cookies given to cHTTPX_CookieSet
  NoString,     \* NULL
  Origins,      \* origins given to cHTTPX_Cors
  AskedOrigins, \* Origin headers of requests, or NoString
  Garbage,      \* a byte that malloc() left as it was
  TextMax,      \* BUFFER_SIZE - 1
  HeadMax,      \* bound: header lines that fit BUFFER_SIZE
  MaxAdded,     \* MAX_HEADERS
  MaxSteps,     \* bound: calls of the handler
  MaxChanges,   \* bound: changes of the file
  OutOfMemory   \* whether malloc() may fail

ASSUME ResponsesAssumption ==
  /\ {TextMax, HeadMax, MaxAdded, MaxSteps, MaxChanges} \subseteq Nat /\ TextLengths \subseteq Nat
  /\ HeadMax > 0 /\ OutOfMemory \in BOOLEAN /\ Garbage \notin UNION {ToSet(f) : f \in Contents}
  /\ \A f \in Contents \cup Files : f \in Seq(ToSet(f))
  /\ \A line \in HeaderFields : Len(line) = 2
  /\ NoFileThere \notin Files /\ NoString \notin Origins

VARIABLES
  res,      \* the handler's chttpx_response_t
  file,     \* the file on the disk
  size,     \* what ftell() said
  progress, \* "handler", in ResFile "opened", then "sent", "overrun" or "crashed"
  head,     \* the header lines sent
  cors,     \* serv->cors: its origins, or NoString
  origin,   \* the Origin header of the request
  steps,    \* calls of the handler so far
  changes,  \* changes of the file so far
  added,    \* history: the headers added since the response was made
  content,  \* history: what the body should hold
  shrunk    \* history: the file became shorter than ftell() said

responseVars ==
  <<res, file, size, progress, head, cors, origin, steps, changes, added, content, shrunk>>

Response(status, body) == [status |-> status, body |-> body, headers |-> <<>>]

Filled(n, byte) == [i \in 1 .. n |-> byte]

\* Before it listens the program calls cHTTPX_Cors or not.
ResponseInit ==
  /\ res = Response(0, <<>>)
  /\ file \in Files \cup {NoFileThere}
  /\ cors \in (SUBSET Origins) \cup {NoString}
  /\ origin \in AskedOrigins
  /\ size = 0 /\ progress = "handler" /\ head = <<>>
  /\ steps = 0 /\ changes = 0
  /\ added = <<>> /\ content = <<>> /\ shrunk = FALSE

SameRequest == UNCHANGED <<cors, origin>>

Calls == progress = "handler" /\ steps < MaxSteps /\ steps' = steps + 1

\* The handler assigns the whole response: headers it had are gone.
Becomes(status, body, wanted) ==
  /\ res' = Response(status, body)
  /\ content' = wanted
  /\ added' = <<>>
  /\ progress' = "handler"

Error500 == Filled(1, "e")

\* vsnprintf() into a buffer, and a copy of that.
CutText(n) == Filled(IF n > TextMax THEN TextMax ELSE n, "t")

\* cHTTPX_ResJson and cHTTPX_ResHtml
ResText(n) ==
  /\ Calls
  /\ \/ Becomes(200, CutText(n), Filled(n, "t"))
     \/ OutOfMemory /\ Becomes(500, Error500, Error500)
  /\ SameRequest /\ UNCHANGED <<file, size, head, changes, shrunk>>

ResBinary(bytes) ==
  /\ Calls
  /\ \/ Becomes(200, bytes, bytes)
     \/ OutOfMemory /\ Becomes(500, Error500, Error500)
  /\ SameRequest /\ UNCHANGED <<file, size, head, changes, shrunk>>

\* cHTTPX_ResFile up to malloc(); fopen() may fail.
OpenFile ==
  /\ Calls
  /\ \/ /\ file = NoFileThere
        /\ Becomes(404, Error500, Error500) /\ UNCHANGED <<size, shrunk>>
     \/ /\ file # NoFileThere /\ OutOfMemory
        /\ Becomes(500, Error500, Error500) /\ UNCHANGED <<size, shrunk>>
     \/ /\ file # NoFileThere
        /\ size' = Len(file) /\ shrunk' = FALSE /\ progress' = "opened"
        /\ UNCHANGED <<res, content, added>>
  /\ SameRequest /\ UNCHANGED <<file, head, changes>>

\* The file is read from its end.
MutBytesRead == Filled(size, Garbage)

\* fread() of size bytes into memory that has not been set.
BytesRead == [i \in 1 .. size |-> IF i <= Len(file) THEN file[i] ELSE Garbage]

ReadFile ==
  /\ progress = "opened"
  /\ Becomes(200, BytesRead, file)
  /\ SameRequest /\ UNCHANGED <<file, size, head, steps, changes, shrunk>>

\* Somebody else writes the file, in place.
FileChanges ==
  /\ changes < MaxChanges /\ file # NoFileThere
  /\ file' \in Files \ {file}
  /\ changes' = changes + 1
  /\ shrunk' = (shrunk \/ (progress = "opened" /\ Len(file') < size))
  /\ SameRequest /\ UNCHANGED <<res, size, progress, head, steps, added, content>>

\* The new header takes the place of one with its name.
MutAdded(line) ==
  IF \E i \in DOMAIN res.headers : res.headers[i][1] = line[1]
  THEN [i \in DOMAIN res.headers |-> IF res.headers[i][1] = line[1] THEN line ELSE res.headers[i]]
  ELSE Append(res.headers, line)

Added(line) == Append(res.headers, line)

\* Once its arguments are checked; -1 changes nothing.
HeaderAdd(line) ==
  /\ Calls /\ UNCHANGED progress
  /\ Len(res.headers) < MaxAdded
  /\ res' = [res EXCEPT !.headers = Added(line)]
  /\ added' = Append(added, line)
  /\ SameRequest /\ UNCHANGED <<file, size, head, changes, content, shrunk>>

\* The attributes in the order cHTTPX_CookieSet prints them.
SetCookie(c) ==
  LET attribute(name, there) == IF there THEN <<name>> ELSE <<>>
  IN <<"Set-Cookie", c.name>>
     \o attribute("Path", c.path) \o attribute("Domain", c.domain = TRUE)
     \o attribute("Expires", c.expires)
     \o (CASE c.sameSite = 1 -> <<"Lax">> [] c.sameSite = 2 -> <<"Strict">>
           [] c.sameSite = 3 -> <<"None">> [] OTHER -> <<>>)
     \o attribute("Secure", c.secure) \o attribute("HttpOnly", c.httpOnly)

\* A cookie of the request has no domain, not even an empty one: to set that
\* again reads through NULL.
CookieSet(c) ==
  \/ c.domain # NoString /\ HeaderAdd(SetCookie(c))
  \/ /\ c.domain = NoString
     /\ Calls /\ progress' = "crashed"
     /\ SameRequest /\ UNCHANGED <<res, file, size, head, changes, added, content, shrunk>>

\* allowed_origin_cors
AllowedOrigin == IF cors # NoString /\ origin \in cors THEN origin ELSE NoString

\* generate_etag fails when there is no memory.
HeadText(etag) ==
  <<<<"HTTP/1.1", res.status>>, <<"Content-Length", Len(res.body)>>>>
  \o (IF etag THEN <<<<"Etag", res.body>>>> ELSE <<>>)
  \o (IF AllowedOrigin # NoString THEN <<<<"Access-Control-Allow-Origin", AllowedOrigin>>>> ELSE <<>>)
  \o res.headers \o <<<<"">>>>

\* send_response: n passes the size of the buffer with the line that does not
\* fit, and the next one is written behind it.
Send ==
  /\ progress = "handler" /\ steps > 0
  /\ \E etag \in {TRUE, ~OutOfMemory} :
       LET whole == HeadText(etag) IN
         IF Len(whole) > HeadMax + 1
         THEN progress' = "overrun" /\ UNCHANGED head
         ELSE progress' = "sent" /\ head' = SubSeq(whole, 1, IF Len(whole) < HeadMax THEN Len(whole) ELSE HeadMax)
  /\ SameRequest
  /\ UNCHANGED <<res, file, size, steps, changes, added, content, shrunk>>

ResponseNext ==
  \/ \E n \in TextLengths : ResText(n)
  \/ \E bytes \in Contents : ResBinary(bytes)
  \/ OpenFile \/ ReadFile \/ FileChanges
  \/ \E line \in HeaderFields : HeaderAdd(line)
  \/ \E c \in Cookies : CookieSet(c)
  \/ Send

ResponseSpec == ResponseInit /\ [][ResponseNext]_responseVars

-----------------------------------------------------------------------------
(***************************************************************************)
(* Properties.                                                             *)
(***************************************************************************)

\* The program leaves the lines about origins to the library.
NoOwnOrigin == \A line \in HeaderFields : line[1] # "Access-Control-Allow-Origin"

ResponseTypeOK ==
  /\ progress \in {"handler", "opened", "sent", "overrun", "crashed"}
  /\ Len(res.headers) <= MaxAdded /\ size \in Nat /\ Len(head) <= HeadMax

\* "It does NOT replace existing headers with the same name": the head of a
\* response that fits the buffer ends with the headers added since the response
\* was made, each of them, in order, and speaks of its origin exactly to a
\* client whose origin was allowed.
HeadersAreSent ==
  progress = "sent" /\ head[Len(head)] = <<"">> =>
    /\ IsSuffix(added \o <<<<"">>>>, head)
    /\ (\E i \in DOMAIN head : head[i][1] = "Access-Control-Allow-Origin")
         <=> (cors # NoString /\ origin \in cors)

\* The bytes that are sent are the beginning of what the handler meant, all of
\* it if it fits; a file is sent as it was when it was read, unless it had
\* become shorter, and nothing that malloc() left there.
BodyIsContent ==
  progress = "sent" /\ ~shrunk =>
    /\ IsPrefix(res.body, content)
    /\ Len(res.body) < Len(content) => Len(res.body) = TextMax \/ changes > 0

================================================================================
