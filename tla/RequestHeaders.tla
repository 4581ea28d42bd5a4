----------------------------- MODULE RequestHeaders -----------------------------
(***************************************************************************)
(* The headers of a request: _parse_req_headers reads the lines that came  *)
(* with the first recv(), and middlewares and handlers look headers up and *)
(* set them.  A line has a name and a value, or NoColon for its name; the  *)
(* empty line is one of those.  The last line may have been cut off.       *)
(***************************************************************************)
EXTENDS Naturals, SequencesExt

CONSTANTS
  Buffers,     \* what recv() returned, behind the first line: lines [name, value, ended]
  NoColon, Blank,
  NamesAsked,  \* names given to cHTTPX_HeaderGet and cHTTPX_HeaderSet
  ValuesSet,
  FoldName,    \* tolower() of each name
  CutName,     \* the first MAX_HEADER_NAME - 1 characters of each name
  NoHeader,    \* NULL
  MaxHeaders,  \* MAX_HEADERS
  MaxSets      \* bound: calls of cHTTPX_HeaderSet

\* Only the last line may have been cut off; tolower() keeps the length of a name.
ASSUME RequestHeadersAssumption ==
  /\ MaxHeaders \in Nat /\ MaxSets \in Nat
  /\ \A b \in Buffers : b \in Seq(ToSet(b)) /\ \A i \in 1 .. Len(b) - 1 : b[i].ended
  /\ \A b \in Buffers : \A line \in ToSet(b) : line.name \in DOMAIN CutName \cup {NoColon, Blank}
  /\ NamesAsked \subseteq DOMAIN CutName
  /\ \A a, b \in DOMAIN CutName : FoldName[a] = FoldName[b] => (CutName[a] = a <=> CutName[b] = b)

VARIABLES
  lines,    \* from line_start on
  headers,  \* req->headers
  parsed,   \* _parse_req_headers has returned
  received, \* history: the buffer
  sets      \* history: the calls of cHTTPX_HeaderSet that returned 0

headerVars == <<lines, headers, parsed, received, sets>>

HeadersInit ==
  /\ received \in Buffers /\ lines = received
  /\ headers = <<>> /\ parsed = FALSE /\ sets = <<>>

\* _parse_req_headers does not stop at the empty line.
ParseLine ==
  /\ ~parsed /\ lines # <<>> /\ Head(lines).ended
  /\ lines' = Tail(lines)
  /\ headers' = IF Head(lines).name \in {NoColon, Blank} \/ Len(headers) >= MaxHeaders THEN headers
                ELSE Append(headers, [name |-> CutName[Head(lines).name], value |-> Head(lines).value])
  /\ UNCHANGED <<parsed, received, sets>>

LinesEnd ==
  /\ ~parsed /\ (lines # <<>> => ~Head(lines).ended)
  /\ parsed' = TRUE
  /\ UNCHANGED <<lines, headers, received, sets>>

\* Names are compared as they are written.
MutAtName(name) ==
  LET at == {i \in DOMAIN headers : headers[i].name = name}
  IN IF at = {} THEN 0 ELSE CHOOSE i \in at : \A j \in at : i <= j

\* The first header of a name, by strcasecmp(); 0 if there is none.
AtName(name) ==
  LET at == {i \in DOMAIN headers : FoldName[headers[i].name] = FoldName[name]}
  IN IF at = {} THEN 0 ELSE CHOOSE i \in at : \A j \in at : i <= j

HeaderGet(name) == IF AtName(name) = 0 THEN NoHeader ELSE headers[AtName(name)].value

HeaderSet(name, value) ==
  /\ parsed /\ Len(sets) < MaxSets
  /\ \/ /\ AtName(name) # 0
        /\ headers' = [headers EXCEPT ![AtName(name)].value = value]
     \/ /\ AtName(name) = 0 /\ Len(headers) < MaxHeaders
        /\ headers' = Append(headers, [name |-> CutName[name], value |-> value])
  /\ sets' = Append(sets, [name |-> name, value |-> value])
  /\ UNCHANGED <<lines, parsed, received>>

HeadersNext ==
  \/ ParseLine \/ LinesEnd
  \/ \E name \in NamesAsked, value \in ValuesSet : HeaderSet(name, value)

HeadersSpec == HeadersInit /\ [][HeadersNext]_headerVars

-----------------------------------------------------------------------------
(***************************************************************************)
(* Properties.                                                             *)
(***************************************************************************)

HeadersTypeOK == Len(headers) <= MaxHeaders /\ parsed \in BOOLEAN /\ IsSuffix(lines, received)

\* The header lines of the request: up to the empty one, as far as there is room.
IsHeader(line) == line.ended /\ line.name \notin {NoColon, Blank}

HeaderLines ==
  {i \in DOMAIN received : IsHeader(received[i]) /\ \A j \in 1 .. i : received[j].name # Blank}

HeadLines == {i \in HeaderLines : Cardinality({j \in HeaderLines : j <= i}) <= MaxHeaders}

\* Nothing behind the empty line looks like a header.
BodyHasNoHeader ==
  \A i, j \in DOMAIN received :
    i < j /\ received[i].name = Blank => ~IsHeader(received[j])

\* The names asked for that fit MAX_HEADER_NAME.
Asked == {n \in NamesAsked : CutName[n] = n}

\* No name that is too long is, once cut, one that is asked for.
NoCutNameIsAsked ==
  \A n \in DOMAIN CutName : CutName[n] # n => \A m \in Asked : FoldName[CutName[n]] # FoldName[m]

\* "Pointer to header value if found, otherwise NULL", "If header exists
\* (case-insensitive), its value will be replaced": the value of a name that
\* fits is the last one set, or else the first of the request, and setting one
\* name disturbs no other.
GetIsExpected ==
  parsed /\ BodyHasNoHeader =>
    \A name \in Asked :
      LET same(line) == FoldName[line.name] = FoldName[name]
          set == {i \in DOMAIN sets : same(sets[i])}
          sent == {i \in HeadLines : same(received[i])}
      IN HeaderGet(name) =
           IF set # {} THEN sets[CHOOSE i \in set : \A j \in set : i >= j].value
           ELSE IF sent # {} THEN received[CHOOSE i \in sent : \A j \in sent : i <= j].value
           ELSE NoHeader

================================================================================
