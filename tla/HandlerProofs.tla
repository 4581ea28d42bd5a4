----------------------------- MODULE HandlerProofs -----------------------------
(***************************************************************************)
(* What a handler calls while it answers one request: the response         *)
(* builders, the checks of form fields, the translations and the request's *)
(* headers; the parsers of cookies and query; and the JSON parser.  Each   *)
(* part proves an inductive invariant of its component and then the        *)
(* component's properties from it.                                         *)
(***************************************************************************)
EXTENDS SharedParsers, Responses, FieldValidation, Locales, RequestHeaders, JsonParser, SequenceFacts

-----------------------------------------------------------------------------
(***************************************************************************)
(* Responses                                                               *)
(***************************************************************************)

\* A line that neither ends the head nor speaks of an origin.
PlainLine(line) == line # <<"">> /\ line[1] # "Access-Control-Allow-Origin"

\* All lines of s are plain.
Plain(s) == AnySeq(s) /\ \A i \in DOMAIN s : PlainLine(s[i])

LEMMA PlainConcat ==
  ASSUME NEW s, Plain(s), NEW t, Plain(t)
  PROVE  Plain(s \o t)
<1>1. /\ AnySeq(s \o t) /\ Len(s) \in Nat /\ Len(t) \in Nat /\ Len(s \o t) = Len(s) + Len(t)
      /\ DOMAIN s = 1 .. Len(s) /\ DOMAIN (s \o t) = 1 .. Len(s \o t) /\ DOMAIN t = 1 .. Len(t)
      /\ \A i \in 1 .. Len(s) : (s \o t)[i] = s[i]
      /\ \A i \in 1 .. Len(t) : (s \o t)[Len(s) + i] = t[i]
  BY AnyConcat DEF Plain
<1>2. ASSUME NEW i \in DOMAIN (s \o t) PROVE PlainLine((s \o t)[i])
  <2>1. CASE i \in 1 .. Len(s)
    BY <1>1, <2>1 DEF Plain
  <2>2. CASE ~(i \in 1 .. Len(s))
    <3>1. i - Len(s) \in 1 .. Len(t) /\ i = Len(s) + (i - Len(s))
      BY <1>1, <2>2
    <3>2. QED
      BY <1>1, <3>1 DEF Plain
  <2>3. QED
    BY <2>1, <2>2
<1>3. QED
  BY <1>1, <1>2 DEF Plain

LEMMA PlainLiteral ==
  ASSUME NEW line, PlainLine(line)
  PROVE  Plain(<<>>) /\ Plain(<<line>>)
<1>1. DOMAIN <<line>> = {1} /\ <<line>>[1] = line /\ DOMAIN <<>> = {}
  OBVIOUS
<1>2. QED
  BY <1>1, AnyLiteral DEF Plain

\* The line that a cookie becomes.
LEMMA CookieLine == \A c : PlainLine(SetCookie(c))
<1> SUFFICES ASSUME NEW c PROVE PlainLine(SetCookie(c))
  OBVIOUS
<1> DEFINE a(name, there) == IF there THEN <<name>> ELSE <<>>
           site == CASE c.sameSite = 1 -> <<"Lax">> [] c.sameSite = 2 -> <<"Strict">>
                     [] c.sameSite = 3 -> <<"None">> [] OTHER -> <<>>
           rest1 == <<"Set-Cookie", c.name>> \o a("Path", c.path)
           rest2 == rest1 \o a("Domain", c.domain = TRUE)
           rest3 == rest2 \o a("Expires", c.expires)
           rest4 == rest3 \o site
           rest5 == rest4 \o a("Secure", c.secure)
           rest6 == rest5 \o a("HttpOnly", c.httpOnly)
<1>1. \A name, there : AnySeq(a(name, there))
  BY AnyLiteral
<1>2. AnySeq(site)
  BY AnyLiteral
<1>3. SetCookie(c) = rest6
  BY Zenon DEF SetCookie
<1> DEFINE Starts(s) == AnySeq(s) /\ Len(s) \in Nat /\ Len(s) >= 2 /\ s[1] = "Set-Cookie"
<1>4. ASSUME NEW s, NEW t, Starts(s), AnySeq(t) PROVE Starts(s \o t)
  <2>1. AnySeq(s) /\ 1 \in 1 .. Len(s) /\ s[1] = "Set-Cookie" /\ Len(s) \in Nat /\ Len(s) >= 2
    BY <1>4
  <2>2. /\ AnySeq(s \o t) /\ Len(t) \in Nat /\ Len(s \o t) = Len(s) + Len(t)
        /\ \A i \in 1 .. Len(s) : (s \o t)[i] = s[i]
    BY <1>4, <2>1, AnyConcat
  <2>3. QED
    BY <2>1, <2>2
<1>5. Starts(<<"Set-Cookie", c.name>>)
  <2>1. AnySeq(<<"Set-Cookie", c.name>>) /\ Len(<<"Set-Cookie", c.name>>) = 2
    BY AnyLiteral
  <2>2. <<"Set-Cookie", c.name>>[1] = "Set-Cookie"
    OBVIOUS
  <2>3. QED
    BY <2>1, <2>2
<1> HIDE DEF Starts, site, a
<1>6. Starts(rest1)
  BY <1>1, <1>4, <1>5
<1>7. Starts(rest2)
  BY <1>1, <1>4, <1>6
<1>8. Starts(rest3)
  BY <1>1, <1>4, <1>7
<1>9. Starts(rest4)
  BY <1>2, <1>4, <1>8
<1>10. Starts(rest5)
  BY <1>1, <1>4, <1>9
<1>11. Starts(rest6)
  BY <1>1, <1>4, <1>10
<1>12. SetCookie(c)[1] = "Set-Cookie" /\ <<"">>[1] = ""
  BY <1>3, <1>11 DEF Starts
<1>13. QED
  BY <1>12 DEF PlainLine

\* What is known of a response all along: its type; that the headers are those
\* that were added to it; that a file opened and not shortened has what ftell()
\* said; and that the body is the beginning of what was meant.
ResponseInv ==
  /\ ResponseTypeOK
  /\ cors \in (SUBSET Origins) \cup {NoString}
  /\ file \in Files \cup {NoFileThere} /\ changes \in Nat
  /\ Plain(res.headers) /\ added = res.headers
  /\ AnySeq(res.body) /\ AnySeq(content)
  /\ progress = "opened" => /\ file # NoFileThere
                            /\ ~shrunk => size <= Len(file)
                            /\ changes = 0 => size = Len(file)
  /\ ~shrunk /\ progress \in {"handler", "sent"} =>
       /\ IsPrefix(res.body, content)
       /\ Len(res.body) < Len(content) => Len(res.body) = TextMax \/ changes > 0
  /\ HeadersAreSent

\* A file and what was given to cHTTPX_ResBinary are sequences.
LEMMA ContentSeq == \A f \in Contents \cup Files : AnySeq(f) /\ Len(f) \in Nat
<1>1. \A f \in Contents \cup Files : f \in Seq(ToSet(f))
  BY ResponsesAssumption
<1>2. QED
  BY <1>1 DEF AnySeq

LEMMA FilledSeq ==
  ASSUME NEW n \in Nat, NEW b
  PROVE  AnySeq(Filled(n, b)) /\ Len(Filled(n, b)) = n /\ \A i \in 1 .. n : Filled(n, b)[i] = b
<1>1. Filled(n, b) \in Seq({b})
  BY DEF Filled
<1>2. Len(Filled(n, b)) = n /\ \A i \in 1 .. n : Filled(n, b)[i] = b
  BY DEF Filled
<1>3. QED
  BY <1>1, <1>2 DEF AnySeq

\* A response that was made of what is wanted, or of its beginning.
LEMMA Becoming ==
  ASSUME NEW status, NEW b, AnySeq(b), NEW wanted, AnySeq(wanted), Becomes(status, b, wanted),
         cors' = cors, file' = file, changes' = changes, size' = size, head' = head, ResponseInv,
         ~shrunk' => IsPrefix(b, wanted) /\ (Len(b) < Len(wanted) => Len(b) = TextMax \/ changes > 0)
  PROVE  ResponseInv'
<1>1. /\ res' = Response(status, b) /\ content' = wanted /\ added' = <<>> /\ progress' = "handler"
      /\ res'.body = b /\ res'.headers = <<>>
  BY DEF Becomes, Response
<1>2. Plain(<<>>) /\ Len(<<>>) = 0 /\ 0 <= MaxAdded
  <2>1. MaxAdded \in Nat
    BY ResponsesAssumption
  <2>2. AnySeq(<<>>) /\ Len(<<>>) = 0
    BY AnyLiteral
  <2>3. DOMAIN <<>> = {}
    OBVIOUS
  <2>4. QED
    BY <2>1, <2>2, <2>3 DEF Plain
<1>3. ResponseTypeOK'
  BY <1>1, <1>2 DEF ResponseTypeOK, ResponseInv
<1>4. HeadersAreSent'
  BY <1>1 DEF HeadersAreSent
<1>5. QED
  BY <1>1, <1>2, <1>3, <1>4 DEF ResponseInv

\* cHTTPX_ResJson, ...Html, ...Binary, and what ResFile answers without a file.
LEMMA MadeStep ==
  ASSUME ResponseInv,
         \/ \E n \in TextLengths : ResText(n)
         \/ \E bytes \in Contents : ResBinary(bytes)
  PROVE  ResponseInv'
<1>1. TextMax \in Nat /\ TextLengths \subseteq Nat
  BY ResponsesAssumption
<1>2. AnySeq(Error500) /\ IsPrefix(Error500, Error500) /\ ~(Len(Error500) < Len(Error500))
  BY FilledSeq, PrefixByElements DEF Error500
<1>3. ASSUME NEW n \in TextLengths, ResText(n) PROVE ResponseInv'
  <2> DEFINE m == IF n > TextMax THEN TextMax ELSE n
  <2>1. n \in Nat /\ m \in Nat /\ m <= n /\ (m < n => m = TextMax)
    BY <1>1
  <2>2. CutText(n) = Filled(m, "t")
    BY DEF CutText
  <2> HIDE DEF m
  <2>3. /\ AnySeq(CutText(n)) /\ AnySeq(Filled(n, "t"))
        /\ Len(CutText(n)) = m /\ Len(Filled(n, "t")) = n
        /\ \A i \in 1 .. m : CutText(n)[i] = Filled(n, "t")[i]
    BY <2>1, <2>2, FilledSeq
  <2>4. IsPrefix(CutText(n), Filled(n, "t"))
    BY <2>1, <2>3, PrefixByElements
  <2>5. CASE Becomes(200, CutText(n), Filled(n, "t"))
    BY <1>3, <2>1, <2>3, <2>4, <2>5, Becoming DEF ResText, SameRequest
  <2>6. CASE Becomes(500, Error500, Error500)
    BY <1>2, <1>3, <2>6, Becoming DEF ResText, SameRequest
  <2>7. QED
    BY <1>3, <2>5, <2>6 DEF ResText
<1>4. ASSUME NEW bytes \in Contents, ResBinary(bytes) PROVE ResponseInv'
  <2>1. AnySeq(bytes) /\ IsPrefix(bytes, bytes) /\ ~(Len(bytes) < Len(bytes))
    BY ContentSeq, PrefixByElements
  <2>2. CASE Becomes(200, bytes, bytes)
    BY <1>4, <2>1, <2>2, Becoming DEF ResBinary, SameRequest
  <2>3. CASE Becomes(500, Error500, Error500)
    BY <1>2, <1>4, <2>3, Becoming DEF ResBinary, SameRequest
  <2>4. QED
    BY <1>4, <2>2, <2>3 DEF ResBinary
<1>5. QED
  BY <1>3, <1>4

\* cHTTPX_ResFile, and somebody who writes the file meanwhile.
LEMMA FileStep ==
  ASSUME ResponseInv, OpenFile \/ ReadFile \/ FileChanges
  PROVE  ResponseInv'
<1>1. AnySeq(Error500) /\ IsPrefix(Error500, Error500) /\ ~(Len(Error500) < Len(Error500))
  BY FilledSeq, PrefixByElements DEF Error500
<1>2. file # NoFileThere => AnySeq(file) /\ Len(file) \in Nat
  BY ContentSeq DEF ResponseInv
<1>3. CASE OpenFile
  <2> DEFINE Fails(status) == Becomes(status, Error500, Error500) /\ UNCHANGED <<size, shrunk>>
             Opens == /\ file # NoFileThere /\ size' = Len(file) /\ shrunk' = FALSE /\ progress' = "opened"
                      /\ UNCHANGED <<res, content, added>>
  <2>0. UNCHANGED <<cors, origin, file, head, changes>>
    BY <1>3 DEF OpenFile, SameRequest
  <2>1. ASSUME NEW status, Fails(status) PROVE ResponseInv'
    BY <1>1, <2>0, <2>1, Becoming
  <2>2. CASE Opens
    <3>1. ResponseTypeOK' /\ HeadersAreSent'
      BY <1>2, <2>0, <2>2 DEF ResponseInv, ResponseTypeOK, HeadersAreSent
    <3>2. QED
      BY <1>2, <2>0, <2>2, <3>1 DEF ResponseInv
  <2>3. CASE Fails(404) \/ Fails(500)
    BY <2>1, <2>3
  <2>4. Fails(404) \/ Fails(500) \/ Opens
    BY <1>3 DEF OpenFile
  <2> HIDE DEF Fails, Opens
  <2>5. QED
    BY <2>2, <2>3, <2>4
<1>4. CASE ReadFile
  <2>1. /\ progress = "opened" /\ Becomes(200, BytesRead, file)
        /\ UNCHANGED <<cors, origin, file, size, head, steps, changes, shrunk>>
    BY <1>4 DEF ReadFile, SameRequest
  <2>2. size \in Nat /\ file # NoFileThere /\ (~shrunk => size <= Len(file))
        /\ (changes = 0 => size = Len(file)) /\ changes \in Nat
    BY <2>1 DEF ResponseInv, ResponseTypeOK
  <2>3. AnySeq(BytesRead) /\ Len(BytesRead) = size
    <3>1. BytesRead \in Seq({file[i] : i \in 1 .. Len(file)} \cup {Garbage})
      BY <1>2, <2>2 DEF BytesRead
    <3>2. AnySeq(BytesRead)
      BY <3>1 DEF AnySeq
    <3>3. Len(BytesRead) = size
      BY <2>2 DEF BytesRead
    <3>4. QED
      BY <3>2, <3>3
  <2>4. ASSUME ~shrunk PROVE IsPrefix(BytesRead, file)
    <3>1. \A i \in 1 .. size : BytesRead[i] = file[i]
      BY <1>2, <2>2, <2>4 DEF BytesRead
    <3>2. QED
      BY <1>2, <2>2, <2>3, <2>4, <3>1, PrefixByElements
  <2>5. Len(BytesRead) < Len(file) => changes > 0
    BY <1>2, <2>2, <2>3
  <2>6. QED
    BY <1>2, <2>1, <2>2, <2>3, <2>4, <2>5, Becoming
<1>5. CASE FileChanges
  <2>1. /\ file' \in Files /\ changes' = changes + 1 /\ changes' \in Nat /\ changes' > 0
        /\ shrunk' = (shrunk \/ (progress = "opened" /\ Len(file') < size))
        /\ UNCHANGED <<cors, origin, res, size, progress, head, steps, added, content>>
    BY <1>5 DEF FileChanges, SameRequest, ResponseInv
  <2>2. Len(file') \in Nat /\ file' # NoFileThere /\ size \in Nat
    BY <2>1, ContentSeq, ResponsesAssumption DEF ResponseInv, ResponseTypeOK
  <2>3. ResponseTypeOK' /\ HeadersAreSent'
    BY <2>1 DEF ResponseInv, ResponseTypeOK, HeadersAreSent
  <2>0. ~shrunk' => ~shrunk /\ ~(progress = "opened" /\ Len(file') < size)
    BY <2>1, Zenon
  <2>4. progress' = "opened" => /\ file' # NoFileThere
                                /\ ~shrunk' => size' <= Len(file')
                                /\ changes' = 0 => size' = Len(file')
    BY <2>0, <2>1, <2>2
  <2>5. Plain(res.headers)' /\ (added = res.headers)' /\ AnySeq(res.body)' /\ AnySeq(content)'
    BY <2>1 DEF ResponseInv
  <2>6. ~shrunk' /\ progress' \in {"handler", "sent"} =>
          /\ IsPrefix(res.body, content)'
          /\ Len(res'.body) < Len(content') => Len(res'.body) = TextMax \/ changes' > 0
    BY <2>0, <2>1 DEF ResponseInv
  <2>7. QED
    BY <2>1, <2>2, <2>3, <2>4, <2>5, <2>6 DEF ResponseInv
<1>6. QED
  BY <1>3, <1>4, <1>5

\* One more header.
LEMMA AddedStep ==
  ASSUME ResponseInv, NEW line, PlainLine(line), HeaderAdd(line)
  PROVE  ResponseInv'
<1>1. /\ Len(res.headers) < MaxAdded /\ res' = [res EXCEPT !.headers = Append(res.headers, line)]
      /\ added' = Append(added, line)
      /\ UNCHANGED <<progress, cors, origin, file, size, head, changes, content, shrunk>>
      /\ progress = "handler" /\ MaxAdded \in Nat
  BY ResponsesAssumption DEF HeaderAdd, Added, Calls, SameRequest
<1>2. Append(res.headers, line) = res.headers \o <<line>> /\ Plain(res.headers)
  BY AnyAppend DEF ResponseInv, Plain
<1>3. Plain(Append(res.headers, line)) /\ Len(Append(res.headers, line)) = Len(res.headers) + 1
      /\ Len(res.headers) \in Nat
  <2> DEFINE one == <<line>>
  <2>1. AnySeq(res.headers) /\ Plain(one) /\ AnySeq(one)
    BY <1>2, PlainLiteral DEF Plain
  <2>2. Len(one) = 1
    OBVIOUS
  <2>3. Append(res.headers, line) = res.headers \o one
    BY <1>2
  <2> HIDE DEF one
  <2>4. Plain(res.headers \o one)
    BY <1>2, <2>1, PlainConcat
  <2>5. Len(res.headers \o one) = Len(res.headers) + Len(one) /\ Len(res.headers) \in Nat
    BY <2>1, AnyConcat, Zenon
  <2>6. QED
    BY <2>2, <2>3, <2>4, <2>5
<1>4. res'.headers = Append(res.headers, line) /\ res'.body = res.body
  BY <1>1
<1>5. QED
  BY <1>1, <1>3, <1>4 DEF ResponseInv, ResponseTypeOK, HeadersAreSent

\* The whole head: some plain lines, the line about the origin if there is one,
\* the headers and the empty line.
LEMMA WholeHead ==
  ASSUME ResponseInv, NEW etag \in BOOLEAN
  PROVE  LET whole == HeadText(etag) IN
         /\ AnySeq(whole) /\ Len(whole) \in Nat /\ Len(whole) >= 1
         /\ IsSuffix(added \o <<<<"">>>>, whole)
         /\ \A i \in 1 .. Len(whole) - 1 : whole[i] # <<"">>
         /\ (\E i \in DOMAIN whole : whole[i][1] = "Access-Control-Allow-Origin")
              <=> (cors # NoString /\ origin \in cors)
<1> DEFINE first == <<<<"HTTP/1.1", res.status>>, <<"Content-Length", Len(res.body)>>>>
           tag == IF etag THEN <<<<"Etag", res.body>>>> ELSE <<>>
           acao == <<"Access-Control-Allow-Origin", AllowedOrigin>>
           asks == IF AllowedOrigin # NoString THEN <<acao>> ELSE <<>>
           pre == first \o tag
           end == <<<<"">>>>
<1>1. HeadText(etag) = ((pre \o asks) \o res.headers) \o end
  BY DEF HeadText
<1>2. Plain(first)
  <2>1. AnySeq(first) /\ DOMAIN first = 1 .. 2
    <3>1. AnySeq(first) /\ Len(first) = 2
      BY AnyLiteral
    <3> HIDE DEF first
    <3>2. QED
      BY <3>1, AnyLength
  <2>2. PlainLine(first[1]) /\ PlainLine(first[2])
    BY DEF PlainLine
  <2>3. QED
    BY <2>1, <2>2 DEF Plain
<1>3. Plain(tag)
  <2>1. PlainLine(<<"Etag", res.body>>)
    BY DEF PlainLine
  <2>2. QED
    BY <2>1, PlainLiteral
<1>4. Plain(res.headers) /\ added = res.headers
  BY DEF ResponseInv
<1> HIDE DEF first, tag
<1>5. Plain(pre)
  BY <1>2, <1>3, PlainConcat
<1> HIDE DEF pre
<1>6. AnySeq(asks) /\ AnySeq(end) /\ AnySeq(res.headers) /\ AnySeq(pre) /\ Len(end) = 1 /\ end[1] = <<"">>
  BY <1>4, <1>5, AnyLiteral DEF Plain
<1>7. AllowedOrigin # NoString <=> cors # NoString /\ origin \in cors
  <2>1. cors # NoString => cors \subseteq Origins
    BY DEF ResponseInv
  <2>2. NoString \notin Origins
    BY ResponsesAssumption
  <2>3. QED
    BY <2>1, <2>2 DEF AllowedOrigin
<1> DEFINE Speaks(s) == \E i \in DOMAIN s : s[i][1] = "Access-Control-Allow-Origin"
           Ends(s) == \E i \in DOMAIN s : s[i] = <<"">>
<1> HIDE DEF end
<1>8. ASSUME NEW s, AnySeq(s), NEW t, AnySeq(t)
      PROVE  /\ Speaks(s \o t) <=> Speaks(s) \/ Speaks(t)
             /\ Ends(s \o t) <=> Ends(s) \/ Ends(t)
             /\ AnySeq(s \o t)
  <2>1. /\ AnySeq(s \o t)
        /\ Len(s) \in Nat /\ Len(t) \in Nat /\ Len(s \o t) = Len(s) + Len(t)
        /\ DOMAIN s = 1 .. Len(s) /\ DOMAIN t = 1 .. Len(t) /\ DOMAIN (s \o t) = 1 .. Len(s \o t)
        /\ \A i \in 1 .. Len(s) : (s \o t)[i] = s[i]
        /\ \A i \in 1 .. Len(t) : (s \o t)[Len(s) + i] = t[i]
    BY <1>8, AnyConcat, AnyLength
  <2>2. ASSUME NEW i \in DOMAIN (s \o t)
        PROVE (i \in DOMAIN s /\ (s \o t)[i] = s[i]) \/ \E j \in DOMAIN t : (s \o t)[i] = t[j]
    <3>1. CASE i \in 1 .. Len(s)
      BY <2>1, <3>1
    <3>2. CASE ~(i \in 1 .. Len(s))
      <4>1. i - Len(s) \in 1 .. Len(t) /\ i = Len(s) + (i - Len(s))
        BY <2>1, <3>2
      <4>2. QED
        BY <2>1, <4>1
    <3>3. QED
      BY <3>1, <3>2
  <2>3. \A i \in DOMAIN s : i \in DOMAIN (s \o t) /\ (s \o t)[i] = s[i]
    BY <2>1
  <2>4. \A i \in DOMAIN t : Len(s) + i \in DOMAIN (s \o t) /\ (s \o t)[Len(s) + i] = t[i]
    BY <2>1
  <2>5. Speaks(s \o t) <=> Speaks(s) \/ Speaks(t)
    <3>1. ASSUME Speaks(s \o t) PROVE Speaks(s) \/ Speaks(t)
      BY <2>2, <3>1, Zenon
    <3>2. ASSUME Speaks(s) PROVE Speaks(s \o t)
      BY <2>3, <3>2, Zenon
    <3>3. ASSUME Speaks(t) PROVE Speaks(s \o t)
      BY <2>4, <3>3, Zenon
    <3>4. QED
      BY <3>1, <3>2, <3>3
  <2>6. Ends(s \o t) <=> Ends(s) \/ Ends(t)
    BY <2>2, <2>3, <2>4, Zenon
  <2>7. QED
    BY <2>1, <2>5, <2>6
<1>9. \A s : Plain(s) => ~Speaks(s) /\ ~Ends(s)
  BY DEF Plain, PlainLine
<1>10. (Speaks(asks) <=> AllowedOrigin # NoString) /\ ~Ends(asks) /\ ~Speaks(end)
  <2>1. acao # <<"">> /\ acao[1] = "Access-Control-Allow-Origin" /\ <<"">>[1] # "Access-Control-Allow-Origin"
    OBVIOUS
  <2>2. DOMAIN <<acao>> = {1} /\ <<acao>>[1] = acao /\ DOMAIN <<>> = {}
    OBVIOUS
  <2>3. DOMAIN end = 1 .. Len(end)
    BY <1>6, AnyLength, Zenon
  <2>4. ~Speaks(end)
    <3>1. Len(end) = 1 /\ end[1] = <<"">>
      BY <1>6
    <3>2. \A i \in DOMAIN end : i = 1
      <4>1. Len(end) = 1
        BY <3>1
      <4>2. QED
        BY <2>3, <4>1
    <3>3. QED
      BY <2>1, <3>1, <3>2, Zenon
  <2>5. Speaks(asks) <=> AllowedOrigin # NoString
    BY <2>1, <2>2
  <2>6. ~Ends(asks)
    BY <2>1, <2>2
  <2>7. QED
    BY <2>4, <2>5, <2>6
<1> DEFINE before == (pre \o asks) \o res.headers
<1> HIDE DEF asks, Speaks, Ends
<1>11. AnySeq(pre \o asks) /\ (Speaks(pre \o asks) <=> AllowedOrigin # NoString) /\ ~Ends(pre \o asks)
  BY <1>5, <1>6, <1>8, <1>9, <1>10
<1>12. AnySeq(before) /\ (Speaks(before) <=> AllowedOrigin # NoString) /\ ~Ends(before)
  BY <1>4, <1>6, <1>8, <1>9, <1>11
<1>13. Speaks(before \o end) <=> AllowedOrigin # NoString
  <2> HIDE DEF before
  <2>1. Speaks(before \o end) <=> Speaks(before) \/ Speaks(end)
    BY <1>6, <1>8, <1>12, Zenon
  <2>2. QED
    BY <1>10, <1>12, <2>1, Zenon
<1>14. IsSuffix(added \o end, before \o end)
  <2>1. before \o end = (pre \o asks) \o (res.headers \o end)
    <3>1. AnySeq(pre \o asks) /\ AnySeq(res.headers) /\ AnySeq(end)
      BY <1>6, <1>11, Zenon
    <3>2. \A s, t, u : AnySeq(s) /\ AnySeq(t) /\ AnySeq(u) => (s \o t) \o u = s \o (t \o u)
      BY AnyAssoc
    <3> DEFINE p == pre \o asks
               h == res.headers
    <3>3. AnySeq(p) /\ AnySeq(h) /\ AnySeq(end)
      BY <3>1
    <3>4. before \o end = (p \o h) \o end
      OBVIOUS
    <3> HIDE DEF p, h, before
    <3>5. (p \o h) \o end = p \o (h \o end)
      BY <3>2, <3>3
    <3>6. QED
      BY <3>4, <3>5 DEF p, h
  <2>2. AnySeq(res.headers \o end)
    BY <1>6, AnyConcat, Zenon
  <2>3. IsSuffix(res.headers \o end, (pre \o asks) \o (res.headers \o end))
    BY <1>11, <2>2, ConcatSuffix, Zenon
  <2>4. QED
    BY <1>4, <2>1, <2>3, Zenon
<1> DEFINE whole == before \o end
<1>15. whole = HeadText(etag)
  BY <1>1
<1> HIDE DEF before
<1>16. /\ AnySeq(whole) /\ Len(before) \in Nat /\ Len(whole) = Len(before) + Len(end)
       /\ DOMAIN before = 1 .. Len(before)
       /\ \A i \in 1 .. Len(before) : whole[i] = before[i]
  BY <1>6, <1>12, AnyConcat, Zenon
<1> HIDE DEF whole
<1>17. Len(whole) = Len(before) + 1 /\ Len(whole) \in Nat /\ Len(whole) >= 1
  <2>1. Len(end) = 1
    BY <1>6
  <2>2. Len(whole) = Len(before) + Len(end) /\ Len(before) \in Nat
    BY <1>16
  <2>3. QED
    BY <2>1, <2>2
<1>18. ASSUME NEW i \in 1 .. Len(whole) - 1 PROVE whole[i] # <<"">>
  <2>1. i \in DOMAIN before /\ whole[i] = before[i]
    BY <1>16, <1>17
  <2>2. QED
    BY <1>12, <2>1 DEF Ends
<1>19. IsSuffix(added \o <<<<"">>>>, whole)
  BY <1>14 DEF whole, end
<1>20. (\E i \in DOMAIN whole : whole[i][1] = "Access-Control-Allow-Origin")
         <=> (cors # NoString /\ origin \in cors)
  BY <1>7, <1>13 DEF Speaks, whole
<1>21. QED
  BY <1>15, <1>16, <1>17, <1>18, <1>19, <1>20

\* send_response
LEMMA SendStep ==
  ASSUME ResponseInv, Send
  PROVE  ResponseInv'
<1>1. PICK etag \in {TRUE, ~OutOfMemory} :
        LET whole == HeadText(etag) IN
         IF Len(whole) > HeadMax + 1
         THEN progress' = "overrun" /\ UNCHANGED head
         ELSE progress' = "sent" /\ head' = SubSeq(whole, 1, IF Len(whole) < HeadMax THEN Len(whole) ELSE HeadMax)
  BY DEF Send
<1>2. /\ progress = "handler" /\ UNCHANGED <<cors, origin, res, file, size, changes, added, content, shrunk>>
      /\ HeadMax \in Nat /\ HeadMax > 0 /\ etag \in BOOLEAN
  BY ResponsesAssumption DEF Send, SameRequest
<1> DEFINE whole == HeadText(etag)
           cut == IF Len(whole) < HeadMax THEN Len(whole) ELSE HeadMax
<1>3. /\ AnySeq(whole) /\ Len(whole) \in Nat /\ Len(whole) >= 1
      /\ IsSuffix(added \o <<<<"">>>>, whole)
      /\ \A i \in 1 .. Len(whole) - 1 : whole[i] # <<"">>
      /\ (\E i \in DOMAIN whole : whole[i][1] = "Access-Control-Allow-Origin")
           <=> (cors # NoString /\ origin \in cors)
  BY <1>2, WholeHead
<1> HIDE DEF whole
<1>4. CASE Len(whole) > HeadMax + 1
  BY <1>1, <1>2, <1>4 DEF whole, ResponseInv, ResponseTypeOK, HeadersAreSent
<1>5. CASE ~(Len(whole) > HeadMax + 1)
  <2>1. /\ progress' = "sent" /\ head' = SubSeq(whole, 1, cut)
        /\ cut \in Nat /\ cut > 0 /\ cut <= Len(whole) /\ cut <= HeadMax
    <3>1. progress' = "sent" /\ head' = SubSeq(whole, 1, cut)
      BY <1>1, <1>5 DEF whole
    <3>2. QED
      <4>1. cut \in Nat /\ cut > 0 /\ cut <= Len(whole) /\ cut <= HeadMax
        <5>1. HeadMax \in Nat /\ HeadMax > 0 /\ Len(whole) \in Nat /\ Len(whole) >= 1
          BY <1>2, <1>3
        <5>2. QED
          BY <5>1
      <4>2. QED
        BY <3>1, <4>1
  <2> HIDE DEF cut
  <2>2. Len(head') = cut /\ \A i \in 1 .. cut : head'[i] = whole[i]
    BY <2>1
  <2>3. HeadersAreSent'
    <3>1. CASE cut = Len(whole)
      <4>1. head' = whole
        <5>1. PICK S : whole \in Seq(S)
          BY <1>3 DEF AnySeq
        <5>2. SubSeq(whole, 1, Len(whole)) = whole
          BY <5>1
        <5>3. QED
          BY <2>1, <3>1, <5>2
      <4>2. QED
        BY <1>2, <1>3, <4>1 DEF HeadersAreSent
    <3>2. CASE cut < Len(whole)
      <4>1. cut \in 1 .. Len(whole) - 1
        <5>1. Len(whole) \in Nat /\ cut \in Nat /\ cut > 0
          BY <1>3, <2>1
        <5>2. QED
          BY <3>2, <5>1
      <4>2. whole[cut] # <<"">>
        BY <1>3, <4>1, Zenon
      <4>3. head'[Len(head')] # <<"">>
        <5>1. Len(head') = cut /\ cut \in 1 .. cut
          BY <2>1, <2>2
        <5>2. head'[cut] = whole[cut]
          BY <2>2, <5>1
        <5>3. QED
          BY <4>2, <5>1, <5>2, Zenon
      <4>4. QED
        BY <4>3 DEF HeadersAreSent
    <3>3. cut = Len(whole) \/ cut < Len(whole)
      <4>1. Len(whole) \in Nat /\ cut \in Nat /\ cut <= Len(whole)
        BY <1>3, <2>1
      <4>2. QED
        BY <4>1
    <3>4. QED
      BY <3>1, <3>2, <3>3
  <2>4. ResponseTypeOK'
    BY <1>2, <2>1, <2>2 DEF ResponseInv, ResponseTypeOK
  <2>5. QED
    BY <1>2, <2>1, <2>3, <2>4 DEF ResponseInv
<1>6. QED
  BY <1>4, <1>5

LEMMA ResponseStart == ResponseInit => ResponseInv
<1> SUFFICES ASSUME ResponseInit PROVE ResponseInv
  OBVIOUS
<1>1. Plain(<<>>) /\ Len(<<>>) = 0 /\ MaxAdded \in Nat /\ HeadMax \in Nat
  <2>1. AnySeq(<<>>) /\ Len(<<>>) = 0
    BY AnyLiteral
  <2>2. DOMAIN <<>> = {}
    OBVIOUS
  <2>3. QED
    BY <2>1, <2>2, ResponsesAssumption DEF Plain
<1>2. /\ res.headers = <<>> /\ res.body = <<>> /\ content = <<>> /\ added = <<>>
      /\ progress = "handler" /\ size = 0 /\ changes = 0 /\ head = <<>>
  BY DEF ResponseInit, Response
<1>3. IsPrefix(<<>>, <<>>)
  BY <1>1, PrefixByElements DEF Plain
<1>4. ResponseTypeOK /\ HeadersAreSent
  BY <1>1, <1>2 DEF ResponseTypeOK, HeadersAreSent
<1>5. cors \in (SUBSET Origins) \cup {NoString} /\ file \in Files \cup {NoFileThere} /\ changes \in Nat
  BY DEF ResponseInit
<1>6. AnySeq(<<>>)
  BY <1>1 DEF Plain
<1>7. Plain(res.headers) /\ added = res.headers /\ AnySeq(res.body) /\ AnySeq(content)
  BY <1>1, <1>2, <1>6
<1>8. IsPrefix(res.body, content) /\ ~(Len(res.body) < Len(content))
  BY <1>1, <1>2, <1>3
<1>9. QED
  BY <1>2, <1>4, <1>5, <1>7, <1>8 DEF ResponseInv

LEMMA ResponseStep ==
  ASSUME NoOwnOrigin, ResponseInv, [ResponseNext]_responseVars
  PROVE  ResponseInv'
<1>1. CASE (\E n \in TextLengths : ResText(n)) \/ (\E bytes \in Contents : ResBinary(bytes))
  BY <1>1, MadeStep
<1>2. CASE OpenFile \/ ReadFile \/ FileChanges
  BY <1>2, FileStep
<1>3. ASSUME NEW line \in HeaderFields, HeaderAdd(line) PROVE ResponseInv'
  <2>1. PlainLine(line)
    <3>1. Len(line) = 2 /\ Len(<<"">>) = 1 /\ 1 # 2
      BY ResponsesAssumption
    <3>2. line # <<"">>
      BY <3>1, Zenon
    <3>3. QED
      BY <3>2 DEF NoOwnOrigin, PlainLine
  <2>2. QED
    BY <1>3, <2>1, AddedStep
<1>4. ASSUME NEW c \in Cookies, CookieSet(c) PROVE ResponseInv'
  <2>1. CASE HeaderAdd(SetCookie(c))
    BY <2>1, CookieLine, AddedStep
  <2>2. CASE /\ progress' = "crashed" /\ SameRequest
             /\ UNCHANGED <<res, file, size, head, changes, added, content, shrunk>>
    BY <2>2 DEF SameRequest, ResponseInv, ResponseTypeOK, HeadersAreSent
  <2>3. QED
    BY <1>4, <2>1, <2>2 DEF CookieSet
<1>5. CASE Send
  BY <1>5, SendStep
<1>6. CASE UNCHANGED responseVars
  BY <1>6 DEF responseVars, ResponseInv, ResponseTypeOK, HeadersAreSent
<1>7. QED
  BY <1>1, <1>2, <1>3, <1>4, <1>5, <1>6 DEF ResponseNext

LEMMA ResponseInvariant == ASSUME NoOwnOrigin PROVE ResponseSpec => []ResponseInv
<1>1. ResponseInv /\ [ResponseNext]_responseVars => ResponseInv'
  BY ResponseStep
<1>2. QED
  BY <1>1, ResponseStart, PTL DEF ResponseSpec

\* Nothing more than MAX_HEADERS headers is added to a response, and no more of
\* the head is sent than the buffer of send_response holds.
THEOREM ResponseType == ASSUME NoOwnOrigin PROVE ResponseSpec => []ResponseTypeOK
<1>1. ResponseInv => ResponseTypeOK
  BY DEF ResponseInv
<1>2. QED
  BY <1>1, ResponseInvariant, PTL

\* The head that send_response writes ends with the headers that the handler
\* added, each of them, in order, and names the origin of the request exactly
\* when cHTTPX_Cors allowed it; provided the program adds no such line itself.
THEOREM HeadersSent == ASSUME NoOwnOrigin PROVE ResponseSpec => []HeadersAreSent
<1>1. ResponseInv => HeadersAreSent
  BY DEF ResponseInv
<1>2. QED
  BY <1>1, ResponseInvariant, PTL

\* The body that send_response writes is the beginning of what the handler
\* meant, and all of it unless a text was longer than BUFFER_SIZE - 1 or the
\* file was changed while cHTTPX_ResFile had it open.
THEOREM BodySent == ASSUME NoOwnOrigin PROVE ResponseSpec => []BodyIsContent
<1>1. ResponseInv => BodyIsContent
  BY DEF ResponseInv, BodyIsContent
<1>2. QED
  BY <1>1, ResponseInvariant, PTL

-----------------------------------------------------------------------------
(***************************************************************************)
(* Field validation                                                        *)
(***************************************************************************)

\* What cJSON_GetObjectItem returns is the member that the field is about.
LEMMA FoundIsMember ==
  ASSUME body \in Bodies, body # Invalid, NEW name
  PROVE  \/ Found(name) = <<>> /\ Members(name) = {}
         \/ \E i \in DOMAIN body : /\ body # Opaque
                                   /\ Found(name) = <<body[i].value>> /\ Members(name) = {body[i].value}
<1>1. CASE body = Opaque
  BY <1>1 DEF Found, Named, Members
<1>2. CASE body # Opaque
  <2>1. body \in Seq(ToSet(body))
    BY <1>2, FieldValidationAssumption
  <2>2. Len(body) \in Nat /\ DOMAIN body = 1 .. Len(body)
    BY <2>1
  <2>3. Named(name) \in SUBSET Nat /\ Named(name) \subseteq DOMAIN body
    BY <1>2, <2>2 DEF Named
  <2>4. \A i \in DOMAIN body : i \in Named(name) <=> FoldCase[body[i].key] = FoldCase[name]
    BY <1>2 DEF Named
  <2>5. CASE Named(name) = {}
    <3>1. Members(name) = {}
      BY <1>2, <2>4, <2>5 DEF Members, IsMember
    <3>2. QED
      BY <2>5, <3>1 DEF Found
  <2>6. CASE Named(name) # {}
    <3> DEFINE k == CHOOSE i \in Named(name) : \A j \in Named(name) : i <= j
    <3>1. k \in Named(name) /\ \A j \in Named(name) : k <= j
      BY <2>3, <2>6, Least
    <3>2. Found(name) = <<body[k].value>>
      BY <2>6 DEF Found
    <3> HIDE DEF k
    <3>3. ASSUME NEW i \in DOMAIN body
          PROVE  (FoldCase[body[i].key] = FoldCase[name]
                   /\ \A j \in 1 .. i - 1 : FoldCase[body[j].key] # FoldCase[name]) <=> i = k
      <4>1. k \in DOMAIN body /\ k \in Nat /\ i \in Nat
        BY <2>2, <2>3, <3>1
      <4>2. \A j \in 1 .. i - 1 : j \in DOMAIN body
        BY <2>2, <4>1
      <4>3. ASSUME i = k, NEW j \in 1 .. i - 1 PROVE j \notin Named(name)
        BY <3>1, <4>1, <4>3
      <4>4. ASSUME i \in Named(name), \A j \in 1 .. i - 1 : j \notin Named(name) PROVE i = k
        <5>1. k <= i /\ ~(k \in 1 .. i - 1)
          BY <3>1, <4>4
        <5>2. k >= 1
          BY <2>2, <4>1
        <5>3. QED
          BY <4>1, <5>1, <5>2
      <4>5. QED
        BY <2>4, <3>1, <4>2, <4>3, <4>4
    <3>4. ASSUME NEW v PROVE IsMember(v, name) <=> v = body[k].value
      <4>1. k \in DOMAIN body
        BY <2>3, <3>1
      <4>2. IsMember(v, name) <=> \E i \in DOMAIN body : body[i].value = v /\ i = k
        BY <1>2, <3>3 DEF IsMember
      <4>3. QED
        BY <4>1, <4>2
    <3>5. k \in DOMAIN body
      BY <2>3, <3>1
    <3>6. Members(name) = {body[k].value}
      BY <1>2, <3>4, <3>5 DEF Members
    <3>7. QED
      BY <1>2, <3>2, <3>5, <3>6
  <2>7. QED
    BY <2>5, <2>6
<1>3. QED
  BY <1>1, <1>2

\* is_valid_email accepts name@host.domain and nothing else.
LEMMA EmailIsRight ==
  ASSUME NEW s, s \in Seq(ToSet(s))
  PROVE  IsValidEmail(s) <=> Email(s)
<1> DEFINE ats == {i \in DOMAIN s : s[i] = "@"}
           first == CHOOSE i \in ats : \A j \in ats : i <= j
           dots == {i \in DOMAIN s : i >= first /\ s[i] = "."}
           last == CHOOSE i \in dots : \A j \in dots : i >= j
           Chars == \A i \in DOMAIN s : s[i] \in Alnum \cup {"@", ".", "_", "-"}
<1>1. Len(s) \in Nat /\ DOMAIN s = 1 .. Len(s)
  OBVIOUS
<1>2. IsValidEmail(s) <=> ats # {} /\ first # 1 /\ dots # {} /\ last # first + 1 /\ Chars
  BY DEF IsValidEmail
<1>3. ats # {} => first \in ats /\ \A j \in ats : first <= j
  <2>1. ats \in SUBSET Nat
    BY <1>1
  <2> HIDE DEF ats
  <2>2. QED
    BY <2>1, Least
<1>4. dots # {} => last \in dots /\ \A j \in dots : j <= last
  <2>1. dots \in SUBSET (1 .. Len(s))
    BY <1>1
  <2>2. \A n \in dots, m \in dots : n >= m <=> m <= n
    BY <2>1
  <2> HIDE DEF dots
  <2>3. dots # {} => \E n \in dots : \A m \in dots : n >= m
    BY <1>1, <2>1, <2>2, Greatest
  <2>4. QED
    BY <2>2, <2>3
<1> HIDE DEF first, last
<1>5. ASSUME IsValidEmail(s) PROVE Email(s)
  <2>1. /\ first \in DOMAIN s /\ s[first] = "@" /\ first # 1 /\ \A j \in ats : first <= j
        /\ last \in DOMAIN s /\ last >= first /\ s[last] = "." /\ last # first + 1 /\ Chars
    BY <1>2, <1>3, <1>4, <1>5
  <2>2. first # last
    BY <2>1
  <2>3. first \in 2 .. Len(s) /\ last \in first + 2 .. Len(s)
    <3>1. /\ first \in 1 .. Len(s) /\ last \in 1 .. Len(s) /\ Len(s) \in Nat
          /\ first # 1 /\ last >= first /\ last # first + 1
      BY <1>1, <2>1
    <3>2. QED
      BY <2>2, <3>1
  <2>4. ASSUME NEW j \in 1 .. first - 1, s[j] = "@" PROVE FALSE
    <3>1. first \in 1 .. Len(s) /\ Len(s) \in Nat
      BY <1>1, <2>1
    <3>2. j \in 1 .. Len(s) /\ ~(first <= j)
      BY <3>1
    <3>3. j \in ats
      BY <1>1, <2>4, <3>2
    <3>4. QED
      BY <2>1, <3>2, <3>3
  <2>5. QED
    BY <2>1, <2>3, <2>4 DEF Email
<1>6. ASSUME Email(s) PROVE IsValidEmail(s)
  <2>1. PICK i \in 2 .. Len(s) : /\ s[i] = "@" /\ \A j \in 1 .. i - 1 : s[j] # "@"
                                 /\ \E j \in i + 2 .. Len(s) : s[j] = "."
    BY <1>6 DEF Email
  <2>2. PICK j \in i + 2 .. Len(s) : s[j] = "."
    BY <2>1
  <2>3. i \in ats /\ Chars
    <3>1. i \in DOMAIN s
      BY <1>1
    <3>2. QED
      BY <1>6, <2>1, <3>1 DEF Email
  <2>4. first = i
    <3>1. first \in DOMAIN s /\ s[first] = "@" /\ first <= i
      BY <1>3, <2>3
    <3>2. QED
      BY <1>1, <2>1, <3>1
  <2>5. j \in dots
    BY <1>1, <2>2, <2>4
  <2>6. last >= j /\ last # first + 1 /\ first # 1
    <3>1. j <= last /\ last \in 1 .. Len(s)
      BY <1>1, <1>4, <2>5
    <3>2. QED
      BY <1>1, <2>2, <2>4, <3>1
  <2>7. QED
    BY <1>2, <2>3, <2>5, <2>6
<1>7. QED
  BY <1>5, <1>6

\* A field's target holds what cHTTPX_Parse makes of the member, unless memory
\* ran out or the member has another type.
Settled(i) ==
  LET f == form[i] IN
    /\ i \in present <=> Members(f.name) # {}
    /\ \A v \in Members(f.name) : HasType(v, f.type) /\ ~short => targets[i] = Converted(v, f.type)
    /\ f.type = "string" /\ targets[i][1] = "string" => targets[i] \in Members(f.name)

FormInv ==
  /\ FormTypeOK /\ short \in BOOLEAN
  /\ form \in Forms /\ body \in Bodies /\ language \in Languages
  /\ phase \in {"parse", "validate"} => body # Invalid
  /\ phase \in {"body", "parse", "validate"} => message = NoMessage
  /\ phase \in {"body", "parse"} => \A i \in DOMAIN form : i >= at => targets[i] = Untouched /\ i \notin present
  /\ phase = "body" => at = 1
  /\ phase = "parse" => \A i \in 1 .. at - 1 : Settled(i)
  /\ phase \in {"validate", "accepted"} => \A i \in DOMAIN form : Settled(i)
  /\ phase = "validate" => \A i \in 1 .. at - 1 : Faults(form[i]) = {}
  /\ VerdictIsRight

\* A form is a sequence of fields.
LEMMA FormIsSequence ==
  ASSUME FormInv
  PROVE  /\ Len(form) \in Nat /\ DOMAIN form = 1 .. Len(form)
         /\ \A i \in DOMAIN form : form[i].min \in Nat /\ form[i].max \in Nat
<1>1. form \in Seq(ToSet(form)) /\ \A i \in DOMAIN form : {form[i].min, form[i].max} \subseteq Nat
  BY FieldValidationAssumption DEF FormInv
<1>2. QED
  BY <1>1

\* What is wrong with a field, when it has no member and when it has one.
LEMMA FaultsOfField ==
  ASSUME NEW f, NEW v
  PROVE  /\ Members(f.name) = {} => (Faults(f) = {} <=> ~f.required) /\ (f.required => "required" \in Faults(f))
         /\ Members(f.name) = {v} /\ (f.type # "string" \/ v[1] # "string") => Faults(f) = {}
         /\ Members(f.name) = {v} /\ f.type = "string" /\ v[1] = "string" =>
              /\ "min" \in Faults(f) <=> Len(v[2]) < f.min
              /\ "max" \in Faults(f) <=> f.max \in 1 .. Len(v[2]) - 1
              /\ "email" \in Faults(f) <=> f.email /\ ~Email(v[2])
              /\ Faults(f) \subseteq {"min", "max", "email"}
<1>1. ASSUME NEW what
      PROVE  what \in Faults(f) <=>
               \/ what = "required" /\ f.required /\ Members(f.name) = {}
               \/ what = "min" /\ \E u \in Members(f.name) : f.type = u[1] /\ u[1] = "string" /\ Len(u[2]) < f.min
               \/ what = "max" /\ \E u \in Members(f.name) : f.type = u[1] /\ u[1] = "string" /\ f.max \in 1 .. Len(u[2]) - 1
               \/ what = "email" /\ \E u \in Members(f.name) : f.type = u[1] /\ u[1] = "string" /\ f.email /\ ~Email(u[2])
  BY DEF Faults
<1>2. CASE Members(f.name) = {}
  BY <1>1, <1>2
<1>3. CASE Members(f.name) = {v}
  BY <1>1, <1>3
<1>4. QED
  BY <1>2, <1>3

\* What is right of a field depends on the body and the form alone.
LEMMA SameBody ==
  ASSUME body' = body
  PROVE  \A g : Members(g)' = Members(g) /\ Faults(g)' = Faults(g)
<1>1. \A g : Members(g)' = Members(g)
  BY DEF Members, IsMember
<1>2. ASSUME NEW g PROVE Faults(g)' = Faults(g)
  BY DEF Faults, Members, IsMember
<1>3. QED
  BY <1>1, <1>2

\* cHTTPX_Parse, field by field.
LEMMA ParseStep ==
  ASSUME FormInv, ParseField
  PROVE  FormInv'
<1>0. PICK k : k = at
  OBVIOUS
<1> DEFINE f == form[k]
           v == Found(f.name)[1]
<1>1. /\ phase = "parse" /\ k \in 1 .. Len(form) /\ at = k /\ at' = k + 1 /\ Len(form) \in Nat
      /\ DOMAIN form = 1 .. Len(form) /\ body # Invalid /\ message = NoMessage
      /\ UNCHANGED <<form, body, language, message>>
      /\ targets[k] = Untouched /\ k \notin present /\ DOMAIN targets = DOMAIN form
  BY <1>0, FormIsSequence DEF ParseField, Keep, FormInv, FormTypeOK
<1>2. \A name : Members(name)' = Members(name)
  BY <1>1, SameBody
<1> HIDE DEF f
<1>3. \/ Found(f.name) = <<>> /\ Members(f.name) = {}
      \/ Found(f.name) = <<v>> /\ Members(f.name) = {v}
  <2>1. \/ Found(f.name) = <<>> /\ Members(f.name) = {}
        \/ \E u : Found(f.name) = <<u>> /\ Members(f.name) = {u}
    BY <1>1, FoundIsMember DEF FormInv
  <2>2. QED
    BY <2>1
<1>4. Untouched[1] = "unset" /\ Nothing[1] = "null"
  BY DEF Untouched, Nothing
<1>5. ASSUME /\ \A i \in DOMAIN form : i # k => targets'[i] = targets[i] /\ (i \in present' <=> i \in present)
             /\ DOMAIN targets' = DOMAIN targets /\ present' \subseteq present \cup {k}
             /\ short' \in BOOLEAN /\ (short => short')
             /\ phase' = "parse" /\ Settled(k)'
      PROVE  FormInv'
  <2>1. FormTypeOK'
    BY <1>1, <1>5 DEF FormInv, FormTypeOK
  <2>2. \A i \in DOMAIN form : i >= at' => targets'[i] = Untouched /\ i \notin present'
    BY <1>1, <1>5 DEF FormInv
  <2>3. ASSUME NEW i \in 1 .. at' - 1 PROVE Settled(i)'
    <3>1. CASE i = k
      BY <1>5, <3>1
    <3>2. CASE i # k
      <4>1. i \in 1 .. k - 1 /\ i \in DOMAIN form
        BY <1>1, <3>2
      <4>2. Settled(i) /\ targets'[i] = targets[i] /\ (i \in present' <=> i \in present) /\ (~short' => ~short)
        BY <1>1, <1>5, <3>2, <4>1 DEF FormInv
      <4>3. QED
        BY <1>1, <1>2, <4>2 DEF Settled
    <3>3. QED
      BY <3>1, <3>2
  <2>4. VerdictIsRight'
    BY <1>1, <1>5 DEF VerdictIsRight, RefusalIsRight, AcceptedIsRight, CrashNeedsWrongType
  <2>5. QED
    BY <1>1, <1>5, <2>1, <2>2, <2>3, <2>4 DEF FormInv
<1>6. CASE Found(f.name) = <<>>
  <2>1. UNCHANGED <<targets, present, phase, short>> /\ Members(f.name) = {}
    <3>1. Members(f.name) = {}
      BY <1>3, <1>6
    <3>2. QED
      BY <1>0, <1>6, <3>1 DEF ParseField, f
  <2>2. Settled(k)'
    BY <1>0, <1>1, <1>2, <1>4, <2>1 DEF Settled, f
  <2>3. QED
    BY <1>1, <1>5, <2>1, <2>2 DEF FormInv
<1>7. CASE Found(f.name) # <<>>
  <2> HIDE DEF v
  <2> DEFINE Stored(t) == targets' = [targets EXCEPT ![k] = t] /\ phase' = phase
  <2>1. /\ Members(f.name) = {v} /\ present' = present \cup {k}
        /\ \/ /\ ~HasType(v, f.type)
              /\ UNCHANGED <<targets, phase, short>>
           \/ /\ HasType(v, f.type)
              /\ Stored(Converted(v, f.type)) /\ UNCHANGED short
           \/ /\ AllocMayFail /\ HasType(v, f.type)
              /\ \/ f.type = "string" /\ Stored(Nothing)
                 \/ \E t \in Starved(Converted(v, f.type), f.type) : Stored(t)
                 \/ /\ v[1] = "array" /\ v[2] # <<>>
                    /\ phase' = "crashed" /\ UNCHANGED targets
              /\ short' = TRUE
    BY <1>0, <1>3, <1>7 DEF ParseField, f, v
  <2>2. \A i \in DOMAIN form : i # k => (i \in present' <=> i \in present)
    BY <2>1
  <2>3. k \in present' /\ present' \subseteq present \cup {k}
    BY <2>1
  <2>4. ASSUME NEW t, Stored(t), f.type = "string" => t[1] # "string" \/ t = v,
               short' \in BOOLEAN, short => short',
              ~short' => (HasType(v, f.type) => t = Converted(v, f.type))
        PROVE  FormInv'
    <3>1. targets'[k] = t /\ DOMAIN targets' = DOMAIN targets
          /\ \A i \in DOMAIN form : i # k => targets'[i] = targets[i]
      BY <1>1, <2>4
    <3>2. Settled(k)'
      BY <1>1, <1>2, <2>1, <2>3, <2>4, <3>1 DEF Settled, f
    <3>3. QED
      BY <1>1, <1>5, <2>2, <2>3, <2>4, <3>1, <3>2
  <2>5. CASE ~HasType(v, f.type) /\ UNCHANGED <<targets, phase, short>>
    <3>1. Settled(k)'
      BY <1>1, <1>2, <1>4, <2>1, <2>3, <2>5 DEF Settled, f
    <3>2. QED
      BY <1>1, <1>5, <2>2, <2>3, <2>5, <3>1 DEF FormInv
  <2>6. CASE HasType(v, f.type) /\ Stored(Converted(v, f.type)) /\ UNCHANGED short
    <3>1. f.type = "string" => Converted(v, f.type) = v
      BY <2>6 DEF HasType, Converted
    <3> HIDE DEF Stored
    <3>2. QED
      BY <2>4, <2>6, <3>1 DEF FormInv
  <2>7. CASE f.type = "string" /\ Stored(Nothing) /\ short' = TRUE
    <3> HIDE DEF Stored
    <3>1. QED
      BY <1>4, <2>4, <2>7
  <2>8. ASSUME NEW t \in Starved(Converted(v, f.type), f.type), Stored(t), short' = TRUE PROVE FormInv'
    <3>1. f.type # "string"
      BY <2>8 DEF Starved
    <3> HIDE DEF Stored
    <3>2. QED
      BY <2>4, <2>8, <3>1
  <2>9. CASE phase' = "crashed" /\ UNCHANGED targets /\ short' = TRUE
    <3>1. FormTypeOK'
      BY <1>1, <2>1, <2>9 DEF FormInv, FormTypeOK
    <3>2. VerdictIsRight'
      BY <2>9 DEF VerdictIsRight, RefusalIsRight, AcceptedIsRight, CrashNeedsWrongType
    <3>3. QED
      BY <1>1, <2>9, <3>1, <3>2 DEF FormInv
  <2> HIDE DEF Stored
  <2>10. QED
    BY <2>1, <2>5, <2>6, <2>7, <2>8, <2>9
<1>8. QED
  BY <1>6, <1>7

\* cHTTPX_Validate, field by field.
LEMMA ValidateStep ==
  ASSUME FormInv, ValidateField, HasMessages
  PROVE  FormInv'
<1> DEFINE f == form[at]
           t == targets[at]
           len == Len(t[2])
<1>0. /\ Len(form) \in Nat /\ DOMAIN form = 1 .. Len(form)
      /\ \A i \in DOMAIN form : form[i].min \in Nat /\ form[i].max \in Nat
  BY FormIsSequence
<1>1. /\ phase = "validate" /\ at \in 1 .. Len(form) /\ Len(form) \in Nat
      /\ DOMAIN form = 1 .. Len(form) /\ f.min \in Nat /\ f.max \in Nat
      /\ body # Invalid /\ message = NoMessage /\ body \in Bodies
      /\ UNCHANGED <<form, body, language, targets, present, short>>
      /\ Settled(at) /\ \A i \in 1 .. at - 1 : Faults(form[i]) = {}
  <2>1. /\ phase = "validate" /\ at \in 1 .. Len(form)
        /\ UNCHANGED <<form, body, language, targets, present, short>>
    BY <1>0 DEF ValidateField, Keep, FormInv, FormTypeOK
  <2>2. /\ body # Invalid /\ message = NoMessage /\ body \in Bodies
        /\ Settled(at) /\ \A i \in 1 .. at - 1 : Faults(form[i]) = {}
    BY <1>0, <2>1 DEF FormInv
  <2>3. QED
    BY <1>0, <2>1, <2>2
<1>2. \A name : Members(name)' = Members(name)
  BY <1>1, SameBody
<1>3. \A g : Faults(g)' = Faults(g)
  BY <1>1, SameBody
<1>4. \A i \in DOMAIN form : Settled(i)' <=> Settled(i)
  BY <1>1, <1>2 DEF Settled
<1> HIDE DEF f, t
<1>5. ASSUME Faults(f) = {}, NextField PROVE FormInv'
  <2>1. at' = at + 1 /\ UNCHANGED <<phase, message>>
    BY <1>5 DEF NextField
  <2>2. FormTypeOK'
    BY <1>1, <2>1 DEF FormInv, FormTypeOK
  <2>3. \A i \in 1 .. at' - 1 : Faults(form[i])' = {}
    <3>1. ASSUME NEW i \in 1 .. at' - 1 PROVE Faults(form[i]) = {}
      <4>1. i \in 1 .. at - 1 \/ i = at
        BY <1>1, <2>1
      <4>2. QED
        BY <1>1, <1>5, <4>1 DEF f
    <3>2. QED
      BY <1>1, <1>3, <3>1
  <2>4. VerdictIsRight'
    BY <1>1, <2>1 DEF VerdictIsRight, RefusalIsRight, AcceptedIsRight, CrashNeedsWrongType
  <2>5. QED
    BY <1>1, <1>4, <2>1, <2>2, <2>3, <2>4 DEF FormInv
<1>6. MessageLanguage = IF language = "ru" THEN "ru" ELSE "en"
  <2>1. language # "es" /\ language # "fr"
    BY DEF HasMessages, FormInv
  <2>2. LangFromString(language) = IF language = "ru" THEN 2 ELSE 1
    <3> DEFINE known == {i \in DOMAIN LANGUAGE_CODES : LANGUAGE_CODES[i] = language}
    <3>1. /\ DOMAIN LANGUAGE_CODES = 1 .. 4 /\ LANGUAGE_CODES[1] = "en" /\ LANGUAGE_CODES[2] = "ru"
          /\ LANGUAGE_CODES[3] = "es" /\ LANGUAGE_CODES[4] = "fr"
      BY DEF LANGUAGE_CODES
    <3>2. \A i \in known : i \in {1, 2} /\ language = LANGUAGE_CODES[i]
      BY <2>1, <3>1
    <3>3. CASE language = "ru"
      <4>1. known = {2}
        BY <3>1, <3>2, <3>3
      <4>2. QED
        BY <3>3, <4>1 DEF LangFromString
    <3>4. CASE language = "en"
      <4>1. known = {1}
        BY <3>1, <3>2, <3>4
      <4>2. QED
        BY <3>4, <4>1 DEF LangFromString
    <3>5. CASE language # "ru" /\ language # "en"
      <4>1. known = {}
        BY <3>1, <3>2, <3>5
      <4>2. QED
        BY <3>5, <4>1 DEF LangFromString
    <3>6. QED
      BY <3>3, <3>4, <3>5
  <2>3. QED
    BY <2>2 DEF MessageLanguage, LANGUAGE_CODES
<1>7. ASSUME NEW what \in Faults(f), Refuse(what) PROVE FormInv'
  <2>1. phase' = "refused" /\ message' = <<MessageLanguage, what, at>> /\ UNCHANGED at
    BY <1>7 DEF Refuse
  <2>2. RefusalIsRight'
    BY <1>1, <1>3, <1>6, <1>7, <2>1 DEF RefusalIsRight, f
  <2>3. FormTypeOK'
    BY <1>1, <2>1 DEF FormInv, FormTypeOK
  <2>4. QED
    BY <1>1, <2>1, <2>2, <2>3 DEF FormInv, VerdictIsRight, AcceptedIsRight, CrashNeedsWrongType
<1>8. /\ at \in present <=> Members(f.name) # {}
      /\ \A v \in Members(f.name) : HasType(v, f.type) /\ ~short => t = Converted(v, f.type)
      /\ f.type = "string" /\ t[1] = "string" => t \in Members(f.name)
  BY <1>1 DEF Settled, f, t
<1>9. \/ Members(f.name) = {}
      \/ \E v : Members(f.name) = {v} /\ (v[1] = "string" => v[2] \in Seq(ToSet(v[2])))
  <2>1. ASSUME body # Opaque, NEW i \in DOMAIN body
        PROVE  body[i].value[1] = "string" => body[i].value[2] \in Seq(ToSet(body[i].value[2]))
    BY <1>1, <2>1, FieldValidationAssumption
  <2>2. QED
    BY <1>1, <2>1, FoundIsMember
<1>10. CASE Members(f.name) = {}
  <2>1. CASE f.required
    <3>1. Refuse("required")
      BY <1>8, <1>10, <2>1 DEF ValidateField, f
    <3>2. QED
      BY <1>7, <1>10, <2>1, <3>1, FaultsOfField
  <2>2. CASE ~f.required
    <3>1. NextField
      BY <1>8, <1>10, <2>2 DEF ValidateField, f, Skipped
    <3>2. QED
      BY <1>5, <1>10, <2>2, <3>1, FaultsOfField
  <2>3. QED
    BY <2>1, <2>2
<1>11. ASSUME NEW v, Members(f.name) = {v}, v[1] = "string" => v[2] \in Seq(ToSet(v[2])) PROVE FormInv'
  <2>1. at \in present
    BY <1>8, <1>11
  <2>2. CASE f.type # "string"
    <3>1. NextField
      BY <2>1, <2>2 DEF ValidateField, f, Skipped
    <3>2. QED
      BY <1>5, <1>11, <2>2, <3>1, FaultsOfField
  <2>3. CASE f.type = "string" /\ t[1] # "string"
    <3>1. phase' = "crashed" /\ UNCHANGED <<at, message>>
      BY <2>1, <2>3 DEF ValidateField, f, t, Skipped
    <3>2. short \/ v[1] # "string"
      <4>1. ASSUME ~short, v[1] = "string" PROVE FALSE
        <5>1. HasType(v, f.type) /\ Converted(v, f.type) = v
          BY <2>3, <4>1 DEF HasType, Converted
        <5>2. QED
          BY <1>8, <1>11, <2>3, <4>1, <5>1
      <4>2. QED
        BY <4>1
    <3>3. CrashNeedsWrongType'
      BY <1>1, <1>2, <1>11, <2>3, <3>2 DEF CrashNeedsWrongType, f
    <3>4. FormTypeOK'
      BY <1>1, <3>1 DEF FormInv, FormTypeOK
    <3>5. QED
      BY <1>1, <3>1, <3>3, <3>4 DEF FormInv, VerdictIsRight, AcceptedIsRight, RefusalIsRight
  <2>4. CASE f.type = "string" /\ t[1] = "string"
    <3>1. t = v /\ v[2] \in Seq(ToSet(v[2]))
      BY <1>8, <1>11, <2>4
    <3>2. len \in Nat /\ (IsValidEmail(t[2]) <=> Email(t[2]))
      BY <3>1, EmailIsRight
    <3>3. /\ "min" \in Faults(f) <=> len < f.min
          /\ "max" \in Faults(f) <=> f.max \in 1 .. len - 1
          /\ "email" \in Faults(f) <=> f.email /\ ~Email(t[2])
          /\ Faults(f) \subseteq {"min", "max", "email"}
      BY <1>11, <2>4, <3>1, FaultsOfField
    <3> HIDE DEF len
    <3>4. TooShort(f, len) <=> "min" \in Faults(f)
      BY <1>1, <3>2, <3>3 DEF TooShort
    <3>5. TooLong(f, len) <=> "max" \in Faults(f)
      BY <1>1, <3>2, <3>3 DEF TooLong
    <3>6. IF TooShort(f, len) THEN Refuse("min")
          ELSE IF TooLong(f, len) THEN Refuse("max")
          ELSE IF f.email /\ ~IsValidEmail(t[2]) THEN Refuse("email")
          ELSE NextField
      BY <2>1, <2>4 DEF ValidateField, f, t, len, Skipped
    <3>7. CASE "min" \in Faults(f)
      BY <1>7, <3>4, <3>6, <3>7
    <3>8. CASE "min" \notin Faults(f) /\ "max" \in Faults(f)
      BY <1>7, <3>4, <3>5, <3>6, <3>8
    <3>9. CASE "min" \notin Faults(f) /\ "max" \notin Faults(f) /\ "email" \in Faults(f)
      BY <1>7, <3>2, <3>3, <3>4, <3>5, <3>6, <3>9
    <3>10. CASE Faults(f) = {}
      BY <1>5, <3>2, <3>3, <3>4, <3>5, <3>6, <3>10
    <3>11. QED
      BY <3>3, <3>7, <3>8, <3>9, <3>10
  <2>5. QED
    BY <2>2, <2>3, <2>4
<1>12. QED
  BY <1>9, <1>10, <1>11

LEMMA FormInvariant == ASSUME HasMessages PROVE FormSpec => []FormInv
<1>1. FormInit => FormInv
  <2> SUFFICES ASSUME FormInit PROVE FormInv
    OBVIOUS
  <2>1. form \in Seq(ToSet(form))
    BY FieldValidationAssumption DEF FormInit
  <2>2. Len(form) \in Nat
    BY <2>1
  <2>3. FormTypeOK
    BY <2>2 DEF FormInit, FormTypeOK
  <2>4. VerdictIsRight
    BY DEF FormInit, VerdictIsRight, RefusalIsRight, AcceptedIsRight, CrashNeedsWrongType
  <2>5. QED
    BY <2>3, <2>4 DEF FormInit, FormInv
<1>2. FormInv /\ [FormNext]_formVars => FormInv'
  <2> SUFFICES ASSUME FormInv, [FormNext]_formVars PROVE FormInv'
    OBVIOUS
  <2>0. Len(form) \in Nat /\ DOMAIN form = 1 .. Len(form)
    BY FormIsSequence
  <2>1. CASE ParseBody
    <3>1. /\ phase = "body" /\ at = 1 /\ message = NoMessage
          /\ UNCHANGED <<form, body, language, targets, present, at, short>>
      BY <2>1 DEF ParseBody, Keep, FormInv
    <3>2. \/ phase' = "refused" /\ message' \in {NoMessage, <<"Invalid JSON">>}
          \/ phase' = "parse" /\ UNCHANGED message /\ body # Invalid
      BY <2>1, <3>1 DEF ParseBody
    <3>3. FormTypeOK'
      BY <3>1, <3>2 DEF FormInv, FormTypeOK
    <3>4. VerdictIsRight'
      BY <3>1, <3>2 DEF VerdictIsRight, RefusalIsRight, AcceptedIsRight, CrashNeedsWrongType
    <3>5. \A i \in DOMAIN form : targets[i] = Untouched /\ i \notin present
      BY <2>0, <3>1 DEF FormInv
    <3>6. \A i \in 1 .. at' - 1 : Settled(i)'
      BY <3>1
    <3>7. QED
      BY <3>1, <3>2, <3>3, <3>4, <3>5, <3>6 DEF FormInv
  <2>2. CASE ParseField
    BY <2>2, ParseStep
  <2>3. CASE ParseEnds
    <3>1. /\ phase = "parse" /\ at > Len(form) /\ phase' = "validate" /\ at' = 1
          /\ UNCHANGED <<form, body, language, targets, present, message, short>>
          /\ at \in 1 .. Len(form) + 1 /\ \A i \in 1 .. at - 1 : Settled(i)
      BY <2>3 DEF ParseEnds, Keep, FormInv, FormTypeOK
    <3>2. \A name : Members(name)' = Members(name)
      BY <3>1, SameBody
    <3>3. \A i \in DOMAIN form : Settled(i)'
      <4>1. \A i \in DOMAIN form : Settled(i)
        BY <2>0, <3>1
      <4>2. QED
        BY <3>1, <3>2, <4>1 DEF Settled
    <3>4. FormTypeOK' /\ VerdictIsRight'
      BY <3>1 DEF FormInv, FormTypeOK, VerdictIsRight, RefusalIsRight, AcceptedIsRight, CrashNeedsWrongType
    <3>5. QED
      BY <3>1, <3>3, <3>4 DEF FormInv
  <2>4. CASE ValidateField
    BY <2>4, ValidateStep
  <2>5. CASE ValidateEnds
    <3>1. /\ phase = "validate" /\ at > Len(form) /\ phase' = "accepted"
          /\ UNCHANGED <<form, body, language, targets, present, at, message, short>>
          /\ at \in 1 .. Len(form) + 1 /\ \A i \in 1 .. at - 1 : Faults(form[i]) = {}
          /\ \A i \in DOMAIN form : Settled(i)
      BY <2>5 DEF ValidateEnds, Keep, FormInv, FormTypeOK
    <3>2. \A name : Members(name)' = Members(name)
      BY <3>1, SameBody
    <3>3. \A i \in DOMAIN form : Settled(i)' /\ Faults(form[i])' = {}
      <4>1. \A i \in DOMAIN form : Settled(i) /\ Faults(form[i]) = {}
        BY <2>0, <3>1
      <4>2. \A i \in DOMAIN form : Settled(i)'
        BY <3>1, <3>2, <4>1 DEF Settled
      <4>3. \A i \in DOMAIN form : Faults(form[i])' = {}
        BY <3>1, <4>1, SameBody
      <4>4. QED
        BY <4>2, <4>3
    <3>4. FormTypeOK'
      BY <3>1 DEF FormInv, FormTypeOK
    <3>5. AcceptedIsRight'
      BY <3>1, <3>3 DEF AcceptedIsRight, Settled
    <3>6. VerdictIsRight'
      BY <3>1, <3>5 DEF VerdictIsRight, RefusalIsRight, CrashNeedsWrongType
    <3>7. QED
      BY <3>1, <3>3, <3>4, <3>6 DEF FormInv
  <2>6. CASE UNCHANGED formVars
    <3>1. UNCHANGED <<form, body, language, targets, present, at, phase, message, short>>
      BY <2>6 DEF formVars
    <3>2. \A name : Members(name)' = Members(name)
      BY <3>1, SameBody
    <3>3. \A i : Settled(i)' <=> Settled(i)
      BY <3>1, <3>2 DEF Settled
    <3>4. \A g : Faults(g)' = Faults(g)
      BY <3>1, SameBody
    <3>5. VerdictIsRight' <=> VerdictIsRight
      <4>1. RefusalIsRight' <=> RefusalIsRight
        BY <3>1, <3>4 DEF RefusalIsRight
      <4>2. AcceptedIsRight' <=> AcceptedIsRight
        BY <3>1, <3>2, <3>4 DEF AcceptedIsRight
      <4>3. CrashNeedsWrongType' <=> CrashNeedsWrongType
        BY <3>1, <3>2 DEF CrashNeedsWrongType
      <4>4. QED
        BY <4>1, <4>2, <4>3 DEF VerdictIsRight
    <3>6. QED
      BY <3>1, <3>3, <3>4, <3>5 DEF FormInv, FormTypeOK
  <2>7. QED
    BY <2>1, <2>2, <2>3, <2>4, <2>5, <2>6 DEF FormNext
<1>3. QED
  BY <1>1, <1>2, PTL DEF FormSpec

\* cHTTPX_Parse and cHTTPX_Validate never leave the array of fields.
THEOREM FormType == ASSUME HasMessages PROVE FormSpec => []FormTypeOK
<1>1. FormInv => FormTypeOK
  BY DEF FormInv
<1>2. QED
  BY <1>1, FormInvariant, PTL

\* Whatever the body and the fields: a form is refused for the first field that
\* is wrong and for what is wrong with it, accepted with what was sent when no
\* field is, and crashes only over a member that is not a string or for want of
\* memory; in the languages that there are messages for.
THEOREM VerdictRight == ASSUME HasMessages PROVE FormSpec => []VerdictIsRight
<1>1. FormInv => VerdictIsRight
  BY DEF FormInv
<1>2. QED
  BY <1>1, FormInvariant, PTL

-----------------------------------------------------------------------------
(***************************************************************************)
(* Translations                                                            *)
(***************************************************************************)

\* The members of a JSON object that was read, or none.
Members18n(c) == c \in Seq(ToSet(c)) /\ NoEntry \notin ToSet(c) /\ (c = Unreadable => c = <<>>)

\* load_locale_file keeps the strings in their order, and leaves the entries
\* behind them empty.
LEMMA LoadedTexts ==
  ASSUME NEW c, Members18n(c)
  PROVE  /\ Len(c) \in Nat /\ DOMAIN c = 1 .. Len(c) /\ Texts(c) \in SUBSET (1 .. Len(c))
         /\ Len(Loaded(c)) = Len(c)
         /\ \A i \in Texts(c) : /\ Place(Texts(c), i) \in 1 .. Len(c)
                                /\ Loaded(c)[Place(Texts(c), i)] = c[i] /\ c[i] # NoEntry
         /\ \A k \in 1 .. Len(c) : IF k <= Cardinality(Texts(c)) THEN \E i \in Texts(c) : Place(Texts(c), i) = k
                                   ELSE Loaded(c)[k] = NoEntry
<1> DEFINE T == Texts(c)
           atPlace(k) == {i \in T : Place(T, i) = k}
           cell(k) == IF atPlace(k) = {} THEN NoEntry ELSE c[CHOOSE i \in atPlace(k) : TRUE]
<1>1. Len(c) \in Nat /\ DOMAIN c = 1 .. Len(c) /\ \A i \in DOMAIN c : c[i] # NoEntry
  <2>1. c \in Seq(ToSet(c)) /\ NoEntry \notin ToSet(c)
    BY DEF Members18n
  <2>2. \A i \in DOMAIN c : c[i] \in ToSet(c)
    BY DEF ToSet
  <2>3. QED
    BY <2>1, <2>2
<1>2. T \in SUBSET (1 .. Len(c))
  BY <1>1 DEF Texts
<1>3. Len(Loaded(c)) = Len(c) /\ \A k \in 1 .. Len(c) : Loaded(c)[k] = cell(k)
  <2>1. CASE c = Unreadable
    <3>1. c = <<>> /\ Loaded(c) = <<>>
      BY <2>1 DEF Members18n, Loaded
    <3>2. QED
      BY <3>1
  <2>2. CASE c # Unreadable
    <3>1. Loaded(c) = [k \in 1 .. Len(c) |-> cell(k)]
      BY <1>1, <2>2 DEF Loaded, Place
    <3> HIDE DEF cell
    <3>2. QED
      BY <1>1, <3>1
  <2>3. QED
    BY <2>1, <2>2
<1> HIDE DEF T
<1>4. ASSUME NEW i \in T PROVE Place(T, i) \in 1 .. Len(c) /\ Loaded(c)[Place(T, i)] = c[i] /\ c[i] # NoEntry
  <2>1. i \in 1 .. Len(c) /\ i \in Nat
    BY <1>2
  <2>2. Place(T, i) \in Nat /\ Place(T, i) >= 1 /\ Place(T, i) <= i
    BY <1>1, <1>2, <2>1, Places
  <2>3. Place(T, i) \in 1 .. Len(c)
    BY <1>1, <2>1, <2>2
  <2>4. ASSUME NEW j \in T, Place(T, j) = Place(T, i) PROVE j = i
    <3>1. (i <= j <=> Place(T, i) <= Place(T, j)) /\ (j <= i <=> Place(T, j) <= Place(T, i))
      BY <1>1, <1>2, PlacesInOrder
    <3>2. j \in Nat /\ i <= j /\ j <= i
      BY <1>2, <2>2, <2>4, <3>1
    <3>3. QED
      BY <2>1, <3>2
  <2>5. atPlace(Place(T, i)) = {i}
    BY <2>4
  <2>6. cell(Place(T, i)) = c[i]
    <3> HIDE DEF atPlace
    <3>1. (CHOOSE j \in {i} : TRUE) = i
      OBVIOUS
    <3>2. QED
      BY <2>5, <3>1
  <2> HIDE DEF cell
  <2>7. QED
    BY <1>1, <1>3, <2>1, <2>3, <2>6
<1>5. ASSUME NEW k \in 1 .. Len(c), ~(k <= Cardinality(T)) PROVE Loaded(c)[k] = NoEntry
  <2>1. \A i \in T : Place(T, i) # k
    <3>1. Cardinality(T) \in Nat /\ \A i \in T : i \in Nat /\ Place(T, i) \in Nat /\ Place(T, i) <= Cardinality(T)
      BY <1>1, <1>2, Places
    <3>2. QED
      BY <1>5, <3>1
  <2>2. atPlace(k) = {}
    BY <2>1
  <2> HIDE DEF atPlace
  <2>3. QED
    BY <1>3, <2>2
<1>6. ASSUME NEW k \in 1 .. Len(c), k <= Cardinality(T) PROVE \E i \in T : Place(T, i) = k
  <2>1. k \in 1 .. Cardinality(T)
    <3>1. Cardinality(T) \in Nat
      BY <1>1, <1>2, Places
    <3>2. QED
      BY <1>1, <1>6, <3>1
  <2>2. QED
    BY <1>1, <1>2, <2>1, PlaceTaken
<1>7. QED
  BY <1>1, <1>2, <1>3, <1>4, <1>5, <1>6 DEF T

\* The locale of a file.
LocaleOf(i) == [locale |-> files[i].language, entries |-> Loaded(files[i].content)]

\* The locales loaded are those of the files at the places up to theirs.
Shelved(n) == \A i \in JsonFiles : i <= n /\ Place(JsonFiles, i) <= Len(manager) =>
                manager[Place(JsonFiles, i)] = LocaleOf(i)

\* How far the directory has been read.
Reading(n) ==
  /\ Len(directory) = Len(files) - n /\ \A i \in 1 .. Len(directory) : directory[i] = files[n + i]
  /\ directory \in Seq(ToSet(files))
  /\ Len(manager) = Place(JsonFiles, n) /\ Shelved(n)

LocaleInv ==
  /\ LocaleTypeOK
  /\ AnySeq(manager)
  /\ files \in Directories \cup {NoDirectory}
  /\ loading = "call" => directory = files /\ manager = <<>> /\ ~exists
  /\ loading # "done" => reader = "call" /\ ~exited
  /\ reader = "call" => index = 1 /\ entries = <<>>
  /\ exited => ~exists
  /\ exists => files # NoDirectory
  /\ loading = "read" => exists /\ \E n \in 0 .. Len(files) : Reading(n)
  /\ loading = "done" /\ exists =>
       /\ Len(manager) <= Cardinality(JsonFiles) /\ Shelved(Len(files))
       /\ Counted = {i \in JsonFiles : Place(JsonFiles, i) <= Len(manager)}
  /\ reader = "search" => entries = Loaded(Wanted) /\ (exited \/ exists)
  /\ reader = "search" /\ ~exited =>
       \A k \in 1 .. index - 1 : entries[k] # NoEntry /\ entries[k].key # asked[1]
  /\ LookupIsRight

\* What is known of the files of a directory.
LEMMA FilesKnown ==
  ASSUME files \in Directories \cup {NoDirectory}
  PROVE  /\ files # NoDirectory => /\ files \in Seq(ToSet(files)) /\ Len(files) \in Nat
                                   /\ DOMAIN files = 1 .. Len(files)
                                   /\ JsonFiles \in SUBSET (1 .. Len(files))
                                   /\ \A i \in 1 .. Len(files) : i \in JsonFiles <=> files[i].json
                                   /\ Counted = {i \in JsonFiles : Place(JsonFiles, i) <= MaxLocales}
         /\ files = NoDirectory => Counted = {}
         /\ Members18n(Wanted)
<1>1. CASE files = NoDirectory
  <2>1. Counted = {} /\ Wanted = <<>>
    BY <1>1 DEF JsonFiles, Counted, Wanted
  <2>2. Members18n(<<>>)
    BY DEF Members18n, ToSet
  <2>3. QED
    BY <1>1, <2>1, <2>2
<1>2. CASE files # NoDirectory
  <2>1. files \in Seq(ToSet(files)) /\ \A f \in ToSet(files) : f.content # Unreadable =>
            f.content \in Seq(ToSet(f.content)) /\ NoEntry \notin ToSet(f.content)
    BY <1>2, LocalesAssumption
  <2>2. Len(files) \in Nat /\ DOMAIN files = 1 .. Len(files)
    BY <2>1
  <2>3. JsonFiles \in SUBSET (1 .. Len(files)) /\ \A i \in 1 .. Len(files) : i \in JsonFiles <=> files[i].json
    BY <1>2, <2>2 DEF JsonFiles
  <2>4. Counted = {i \in JsonFiles : Place(JsonFiles, i) <= MaxLocales}
    BY DEF Counted, Place
  <2>5. Members18n(Wanted)
    <3> DEFINE own == {i \in Counted : files[i].language = asked[2]}
               best == IF own = {} THEN Counted ELSE own
               w == CHOOSE i \in best : \A j \in best : i <= j
    <3>1. CASE Counted = {} \/ files[w].content = Unreadable
      <4>1. Wanted = <<>>
        BY <3>1 DEF Wanted
      <4>2. QED
        BY <4>1 DEF Members18n, ToSet
    <3>2. CASE Counted # {} /\ files[w].content # Unreadable
      <4>1. Wanted = files[w].content
        BY <3>2 DEF Wanted
      <4>2. best # {} /\ best \subseteq JsonFiles
        BY <2>4, <3>2
      <4>3. w \in best
        <5> HIDE DEF best
        <5>1. best \in SUBSET Nat
          BY <2>2, <2>3, <4>2
        <5>2. QED
          BY <4>2, <5>1, Least
      <4> HIDE DEF w
      <4>4. files[w] \in ToSet(files)
        BY <2>2, <2>3, <4>2, <4>3 DEF ToSet
      <4>5. QED
        BY <2>1, <3>2, <4>1, <4>4 DEF Members18n
    <3>3. QED
      BY <3>1, <3>2
  <2>6. QED
    BY <1>2, <2>1, <2>2, <2>3, <2>4, <2>5
<1>3. QED
  BY <1>1, <1>2

\* cHTTPX_i18n_t searches the file that counts most.
LEMMA BestLocale ==
  ASSUME LocaleInv, exists, loading = "done"
  PROVE  /\ Len(manager) \in Nat /\ (manager = <<>> <=> Counted = {})
         /\ manager # <<>> => manager[LocaleFor(asked[2])].entries = Loaded(Wanted)
<1> DEFINE J == JsonFiles
           C == Counted
           L == Len(files)
           code == asked[2]
           own == {i \in C : files[i].language = code}
           best == IF own = {} THEN C ELSE own
           w == CHOOSE i \in best : \A j \in best : i <= j
           W == WithLocale(code)
<1>1. /\ L \in Nat /\ J \in SUBSET (1 .. L)
  BY FilesKnown DEF LocaleInv
<1>2. /\ Len(manager) \in Nat /\ DOMAIN manager = 1 .. Len(manager) /\ Len(manager) <= Cardinality(J)
      /\ C = {i \in J : Place(J, i) <= Len(manager)} /\ Shelved(L) /\ Cardinality(J) \in Nat
  <2>1. Len(manager) \in Nat /\ DOMAIN manager = 1 .. Len(manager)
    BY AnyLength DEF LocaleInv
  <2>2. Cardinality(J) \in Nat
    BY <1>1, Places
  <2>3. QED
    BY <2>1, <2>2 DEF LocaleInv
<1>3. manager = <<>> <=> Len(manager) = 0
  <2>1. PICK S : manager \in Seq(S)
    BY DEF LocaleInv, AnySeq
  <2>2. QED
    BY <2>1
<1> HIDE DEF J, C, L
<1>4. ASSUME NEW i \in C
      PROVE  /\ i \in J /\ i \in Nat /\ Place(J, i) \in 1 .. Len(manager) /\ manager[Place(J, i)] = LocaleOf(i)
  <2>1. i \in J /\ Place(J, i) <= Len(manager) /\ i \in Nat /\ i <= L
    BY <1>1, <1>2
  <2>2. Place(J, i) \in Nat /\ Place(J, i) >= 1
    BY <1>1, <2>1, Places
  <2>3. manager[Place(J, i)] = LocaleOf(i)
    BY <1>2, <2>1 DEF Shelved, J, L
  <2>4. QED
    BY <1>2, <2>1, <2>2, <2>3
<1>5. ASSUME NEW k \in 1 .. Len(manager) PROVE \E i \in C : Place(J, i) = k
  <2>1. k \in 1 .. Cardinality(J)
    BY <1>2
  <2>2. PICK i \in J : Place(J, i) = k
    BY <1>1, <2>1, PlaceTaken
  <2>3. QED
    BY <1>2, <2>2
<1>6. \A i, j \in C : i <= j => Place(J, i) <= Place(J, j)
  BY <1>1, <1>4, Places
<1>7. manager = <<>> <=> C = {}
  <2>1. CASE Len(manager) = 0
    BY <1>3, <1>4, <2>1
  <2>2. CASE Len(manager) # 0
    <3>1. 1 \in 1 .. Len(manager)
      BY <1>2, <2>2
    <3>2. QED
      BY <1>3, <1>5, <2>2, <3>1
  <2>3. QED
    BY <2>1, <2>2
<1>8. ASSUME manager # <<>> PROVE manager[LocaleFor(code)].entries = Loaded(Wanted)
  <2>1. best # {} /\ best \subseteq C /\ best \in SUBSET Nat
    <3>1. C # {} /\ C \subseteq Nat
      BY <1>4, <1>7, <1>8
    <3>2. QED
      BY <3>1
  <2>2. w \in best /\ \A j \in best : w <= j
    <3> HIDE DEF best
    <3>1. QED
      BY <2>1, Least
  <2> HIDE DEF w
  <2>3. w \in C /\ Place(J, w) \in 1 .. Len(manager) /\ manager[Place(J, w)] = LocaleOf(w)
    BY <1>4, <2>1, <2>2
  <2>4. W = {k \in 1 .. Len(manager) : manager[k].locale = code}
    BY <1>2 DEF WithLocale
  <2>5. \A i : LocaleOf(i).locale = files[i].language /\ LocaleOf(i).entries = Loaded(files[i].content)
    BY DEF LocaleOf
  <2>6. LocaleFor(code) = Place(J, w)
    <3>1. CASE W = {}
      <4>1. own = {}
        BY <1>4, <2>4, <2>5, <3>1
      <4>2. PICK i \in C : Place(J, i) = 1
        <5>1. 1 \in 1 .. Len(manager)
          BY <1>2, <2>3
        <5>2. QED
          BY <1>5, <5>1
      <4>3. Place(J, w) <= 1
        BY <1>6, <2>2, <2>3, <4>1, <4>2
      <4>4. Place(J, w) = 1
        BY <1>2, <2>3, <4>3
      <4>5. QED
        BY <3>1, <4>4 DEF LocaleFor
    <3>2. CASE W # {}
      <4> DEFINE k == CHOOSE i \in W : \A j \in W : i <= j
      <4>1. k \in W /\ \A j \in W : k <= j
        <5>1. W \in SUBSET Nat
          BY <1>2, <2>4
        <5> HIDE DEF W
        <5>2. QED
          BY <3>2, <5>1, Least
      <4>2. LocaleFor(code) = k
        BY <3>2 DEF LocaleFor
      <4> HIDE DEF k
      <4>3. k \in 1 .. Len(manager) /\ manager[k].locale = code
        BY <2>4, <4>1
      <4>4. PICK i \in C : Place(J, i) = k
        BY <1>5, <4>3
      <4>5. i \in own
        BY <1>4, <2>5, <4>3, <4>4
      <4>6. Place(J, w) <= k /\ w \in own
        BY <1>6, <2>2, <2>3, <4>4, <4>5
      <4>7. k <= Place(J, w)
        BY <2>3, <2>4, <2>5, <4>1, <4>6
      <4>8. QED
        BY <1>2, <2>3, <4>2, <4>3, <4>6, <4>7
    <3>3. QED
      BY <3>1, <3>2
  <2>7. manager[LocaleFor(code)].entries = Loaded(files[w].content)
    BY <2>3, <2>5, <2>6
  <2>8. Wanted = IF files[w].content = Unreadable THEN <<>> ELSE files[w].content
    BY <1>7, <1>8 DEF Wanted, w, C
  <2>9. files[w].content = Unreadable => Loaded(files[w].content) = Loaded(<<>>)
    <3>1. \A c : c = Unreadable => Loaded(c) = <<>>
      BY DEF Loaded
    <3>2. Loaded(<<>>) = <<>>
      <4> DEFINE atPlace(k) == {i \in Texts(<<>>) : Cardinality({j \in Texts(<<>>) : j <= i}) = k}
                 cell(k) == IF atPlace(k) = {} THEN NoEntry ELSE <<>>[CHOOSE i \in atPlace(k) : TRUE]
      <4>1. DOMAIN <<>> = {}
        OBVIOUS
      <4>2. <<>> # Unreadable => Loaded(<<>>) = [k \in DOMAIN <<>> |-> cell(k)]
        BY DEF Loaded
      <4> HIDE DEF cell
      <4>3. [k \in {} |-> cell(k)] = <<>>
        OBVIOUS
      <4>4. QED
        BY <3>1, <4>1, <4>2, <4>3
    <3>3. QED
      BY <3>1, <3>2
  <2>10. QED
    BY <2>7, <2>8, <2>9
<1>9. QED
  BY <1>2, <1>7, <1>8 DEF C

\* cHTTPX_i18n, a file at a time.
LEMMA LoadStep ==
  ASSUME LocaleInv, LoadFile \/ CloseDirectory
  PROVE  LocaleInv'
<1> DEFINE J == JsonFiles
           L == Len(files)
<1>1. /\ loading = "read" /\ exists /\ files \in Seq(ToSet(files)) /\ L \in Nat /\ J \in SUBSET (1 .. L)
      /\ DOMAIN files = 1 .. L /\ \A i \in 1 .. L : i \in J <=> files[i].json
      /\ reader = "call" /\ ~exited /\ MaxLocales \in Nat /\ Len(manager) \in Nat /\ Len(manager) <= MaxLocales
      /\ UNCHANGED <<reader, asked, entries, index, result, exists, exited, files>>
  BY FilesKnown, LocalesAssumption, AnyLength
     DEF LoadFile, CloseDirectory, NotReading, LocaleInv, LocaleTypeOK
<1>2. JsonFiles' = JsonFiles /\ \A i : LocaleOf(i)' = LocaleOf(i)
  BY <1>1 DEF JsonFiles, LocaleOf
<1>3. Counted' = Counted
  BY <1>1 DEF Counted, JsonFiles
<1>4. Counted = {i \in J : Place(J, i) <= MaxLocales}
  BY <1>1, FilesKnown DEF LocaleInv
<1>5. PICK n \in 0 .. L : Reading(n)
  BY <1>1 DEF LocaleInv
<1> HIDE DEF L
<1>6. /\ Len(directory) = L - n /\ \A i \in 1 .. Len(directory) : directory[i] = files[n + i]
      /\ directory \in Seq(ToSet(files)) /\ Len(manager) = Place(J, n)
      /\ \A i \in J : i <= n /\ Place(J, i) <= Len(manager) => manager[Place(J, i)] = LocaleOf(i)
  BY <1>5 DEF Reading, Shelved, L
<1> HIDE DEF J
<1>7. /\ \A i \in Nat : Place(J, i) \in Nat /\ Place(J, i) <= Cardinality(J)
      /\ \A i \in J : i \in 1 .. L /\ Place(J, i) = Place(J, i - 1) + 1
      /\ \A i, j \in Nat : i <= j => Place(J, i) <= Place(J, j)
      /\ Place(J, L) = Cardinality(J) /\ Cardinality(J) \in Nat
  BY <1>1, Places
<1>8. LookupIsRight' /\ AnySeq(manager)
  BY <1>1 DEF LocaleInv, LookupIsRight, TranslationIsOfFile, CrashNeedsHole
\* The directory is at an end, or the manager full.
<1>9. ASSUME UNCHANGED manager, loading' = "done", n = L \/ Len(manager) = MaxLocales PROVE LocaleInv'
  <2>1. Len(manager) <= Cardinality(J)
    BY <1>6, <1>7
  <2>2. ASSUME NEW i \in J, Place(J, i) <= Len(manager) PROVE i <= n
    <3>1. CASE n = L
      BY <1>7, <3>1
    <3>2. CASE i > n
      <4>1. i - 1 \in Nat /\ n \in Nat /\ n <= i - 1
        BY <1>1, <1>7, <3>2
      <4>2. Place(J, n) <= Place(J, i - 1) /\ Place(J, i) = Place(J, i - 1) + 1
            /\ Place(J, n) \in Nat /\ Place(J, i - 1) \in Nat
        BY <1>7, <4>1
      <4>3. QED
        BY <1>6, <2>2, <4>2
    <3>3. QED
      BY <1>1, <1>7, <3>2
  <2>3. \A i \in J : Place(J, i) <= Len(manager) => manager[Place(J, i)] = LocaleOf(i)
    BY <1>6, <2>2
  <2>4. Shelved(Len(files))'
    BY <1>2, <1>9, <2>3 DEF Shelved, J
  <2>5. ASSUME NEW i \in J PROVE Place(J, i) <= MaxLocales <=> Place(J, i) <= Len(manager)
    <3>1. CASE Len(manager) = MaxLocales
      BY <3>1
    <3>2. CASE n = L
      <4>1. Place(J, i) \in Nat /\ Place(J, i) <= Cardinality(J)
        BY <1>1, <1>7
      <4>2. QED
        BY <1>1, <1>6, <1>7, <3>2, <4>1
    <3>3. QED
      BY <1>9, <3>1, <3>2
  <2>6. Counted = {i \in J : Place(J, i) <= Len(manager)}
    BY <1>4, <2>5
  <2>7. (Counted = {i \in JsonFiles : Place(JsonFiles, i) <= Len(manager)})'
    BY <1>2, <1>3, <1>9, <2>6 DEF J
  <2>8. Len(manager') <= Cardinality(JsonFiles')
    BY <1>2, <1>9, <2>1 DEF J
  <2>9. LocaleTypeOK'
    BY <1>1, <1>9 DEF LocaleInv, LocaleTypeOK
  <2>10. QED
    BY <1>1, <1>8, <1>9, <2>4, <2>7, <2>8, <2>9 DEF LocaleInv
<1>10. CASE CloseDirectory
  <2>1. Len(directory) = 0 /\ UNCHANGED manager /\ loading' = "done"
    BY <1>10 DEF CloseDirectory
  <2>2. n = L
    BY <1>1, <1>6, <2>1
  <2>3. QED
    BY <1>9, <2>1, <2>2
\* Another file has been looked at.
<1>11. ASSUME LoadFile, UNCHANGED loading, directory' = Tail(directory), NEW m, AnySeq(manager'),
              Len(manager') = m, m = Place(J, n + 1), m <= MaxLocales,
              \A i \in J : i <= n + 1 => manager'[Place(J, i)] = LocaleOf(i)
       PROVE  LocaleInv'
  <2>1. directory # <<>>
    BY <1>11 DEF LoadFile
  <2>2. Len(directory) > 0 /\ directory' \in Seq(ToSet(files)) /\ Len(directory') = Len(directory) - 1
        /\ \A i \in 1 .. Len(directory') : directory'[i] = directory[i + 1]
    BY <1>6, <1>11, <2>1
  <2>3. n + 1 \in 0 .. L /\ Len(directory') = L - (n + 1)
    BY <1>1, <1>6, <2>2
  <2>4. ASSUME NEW i \in 1 .. Len(directory') PROVE directory'[i] = files[n + 1 + i]
    <3>1. i + 1 \in 1 .. Len(directory) /\ n + (i + 1) = n + 1 + i
      BY <1>1, <1>6, <2>2
    <3>2. QED
      BY <1>6, <2>2, <3>1
  <2>5. Reading(n + 1)'
    <3>1. Shelved(n + 1)'
      BY <1>2, <1>11 DEF Shelved, J
    <3>2. Len(manager') = Place(JsonFiles, n + 1)'
      BY <1>2, <1>11 DEF J
    <3>3. QED
      BY <1>1, <2>2, <2>3, <2>4, <3>1, <3>2 DEF Reading, L
  <2>6. LocaleTypeOK'
    BY <1>1, <1>11 DEF LocaleInv, LocaleTypeOK
  <2>7. \E k \in 0 .. Len(files)' : Reading(k)'
    BY <1>1, <2>3, <2>5 DEF L
  <2>8. QED
    BY <1>1, <1>8, <1>11, <2>6, <2>7 DEF LocaleInv
<1>12. CASE LoadFile
  <2>1. directory # <<>>
    BY <1>12 DEF LoadFile
  <2>2. Len(directory) > 0 /\ Head(directory) = directory[1]
    BY <1>6, <2>1
  <2>3. n + 1 \in 1 .. L /\ Head(directory) = files[n + 1] /\ n \in Nat /\ n + 1 \in Nat /\ n + 1 - 1 = n
    <3>1. n + 1 \in 1 .. L /\ n \in Nat /\ n + 1 - 1 = n /\ n + 1 \in Nat
      BY <1>1, <1>6, <2>2
    <3>2. directory[1] = files[n + 1]
      BY <1>6, <2>2
    <3>3. QED
      BY <2>2, <3>1, <3>2
  <2>4. \A i \in J : i <= n => Place(J, i) <= Len(manager)
    <3>1. ASSUME NEW i \in J, i <= n PROVE Place(J, i) <= Place(J, n)
      <4>1. i \in Nat
        BY <1>7
      <4>2. QED
        BY <1>7, <2>3, <3>1, <4>1
    <3>2. QED
      BY <1>6, <3>1
  <2>5. CASE ~files[n + 1].json
    <3>1. directory' = Tail(directory) /\ UNCHANGED <<loading, manager>>
      BY <1>12, <2>3, <2>5 DEF LoadFile
    <3>2. n + 1 \notin J
      BY <1>1, <2>3, <2>5 DEF J
    <3>3. Place(J, n + 1) = Place(J, n)
      <4>1. n + 1 \in Nat \ {0}
        BY <2>3
      <4>2. \A i \in Nat \ {0} : i \notin J => Place(J, i) = Place(J, i - 1)
        BY <1>1, Places
      <4>3. Place(J, n + 1) = Place(J, n + 1 - 1)
        BY <3>2, <4>1, <4>2
      <4>4. QED
        BY <2>3, <4>3
    <3>4. \A i \in J : i <= n + 1 => i <= n
      <4>1. \A i \in J : i \in Nat /\ i # n + 1
        BY <1>7, <3>2
      <4>2. QED
        BY <2>3, <4>1
    <3>5. \A i \in J : i <= n + 1 => manager'[Place(J, i)] = LocaleOf(i)
      BY <1>6, <2>4, <3>1, <3>4
    <3>6. QED
      BY <1>1, <1>6, <1>8, <1>11, <1>12, <3>1, <3>3, <3>5
  <2>6. CASE files[n + 1].json /\ Len(manager) >= MaxLocales
    <3>1. loading' = "done" /\ UNCHANGED manager /\ Len(manager) = MaxLocales
      BY <1>1, <1>12, <2>3, <2>6 DEF LoadFile
    <3>2. QED
      BY <1>9, <3>1
  <2>7. CASE files[n + 1].json /\ ~(Len(manager) >= MaxLocales)
    <3>1. directory' = Tail(directory) /\ UNCHANGED loading /\ manager' = Append(manager, LocaleOf(n + 1))
      BY <1>12, <2>3, <2>7 DEF LoadFile, LocaleOf
    <3>2. /\ AnySeq(manager') /\ Len(manager') = Len(manager) + 1 /\ manager'[Len(manager) + 1] = LocaleOf(n + 1)
          /\ \A i \in 1 .. Len(manager) : manager'[i] = manager[i]
      <4>1. PICK S : manager \in Seq(S)
        BY <1>8 DEF AnySeq
      <4>2. manager \in Seq(S \cup {LocaleOf(n + 1)}) /\ LocaleOf(n + 1) \in S \cup {LocaleOf(n + 1)}
        BY <4>1, SeqMonotonic
      <4>3. manager' \in Seq(S \cup {LocaleOf(n + 1)})
        BY <3>1, <4>2
      <4>4. AnySeq(manager')
        BY <4>3 DEF AnySeq
      <4>5. QED
        BY <3>1, <4>2, <4>4, AppendProperties
    <3>3. n + 1 \in J
      BY <1>1, <2>3, <2>7 DEF J
    <3>4. Place(J, n + 1) = Len(manager) + 1
      BY <1>6, <1>7, <2>3, <3>3
    <3>5. ASSUME NEW i \in J, i <= n + 1 PROVE manager'[Place(J, i)] = LocaleOf(i)
      <4>1. CASE i = n + 1
        BY <3>2, <3>4, <4>1
      <4>2. CASE i # n + 1
        <5>1. i \in Nat /\ i >= 1 /\ i <= n
          BY <1>7, <2>3, <3>5, <4>2
        <5>2. Place(J, i) \in 1 .. Len(manager)
          <6>1. Place(J, i) \in Nat /\ Place(J, i) <= Len(manager) /\ Place(J, i - 1) \in Nat /\ i - 1 \in Nat
                /\ Place(J, i) = Place(J, i - 1) + 1
            BY <1>7, <2>4, <5>1
          <6>2. QED
            BY <1>1, <6>1
        <5>3. manager[Place(J, i)] = LocaleOf(i)
          BY <1>1, <1>6, <5>1, <5>2
        <5>4. QED
          BY <3>2, <5>2, <5>3
      <4>3. QED
        BY <4>1, <4>2
    <3>6. Len(manager') <= MaxLocales
      BY <1>1, <2>7, <3>2
    <3>7. QED
      BY <1>11, <1>12, <3>1, <3>2, <3>4, <3>5, <3>6
  <2>8. QED
    BY <2>5, <2>6, <2>7
<1>13. QED
  BY <1>10, <1>12

\* cHTTPX_i18n_t, an entry at a time.
LEMMA LookupStep ==
  ASSUME LocaleInv, Translate \/ Compare \/ KeyItself
  PROVE  LocaleInv'
<1> DEFINE T == Texts(Wanted)
           texts == {i \in T : Wanted[i].key = asked[1]}
<1>1. /\ UNCHANGED <<directory, loading, manager, exists, files, asked, exited>>
      /\ index \in 1 .. Len(entries) + 1
  BY DEF Translate, Compare, KeyItself, NotLoading, LocaleInv, LocaleTypeOK
<1>2. /\ JsonFiles' = JsonFiles /\ Counted' = Counted /\ Wanted' = Wanted
      /\ \A i : Shelved(i)' <=> Shelved(i)
      /\ \A i : Reading(i)' <=> Reading(i)
  <2>1. JsonFiles' = JsonFiles /\ Counted' = Counted
    BY <1>1 DEF JsonFiles, Counted
  <2>2. Wanted' = Wanted
    BY <1>1 DEF JsonFiles, Counted, Wanted
  <2>3. \A i : Shelved(i)' <=> Shelved(i)
    BY <1>1 DEF JsonFiles, Shelved, LocaleOf
  <2>4. \A i : Reading(i)' <=> Reading(i)
    BY <1>1 DEF JsonFiles, Reading, Shelved, LocaleOf
  <2>5. QED
    BY <2>1, <2>2, <2>3, <2>4
<1>3. /\ Len(Wanted) \in Nat /\ DOMAIN Wanted = 1 .. Len(Wanted) /\ T \in SUBSET (1 .. Len(Wanted))
      /\ Len(Loaded(Wanted)) = Len(Wanted)
      /\ \A i \in T : /\ Place(T, i) \in 1 .. Len(Wanted)
                      /\ Loaded(Wanted)[Place(T, i)] = Wanted[i] /\ Wanted[i] # NoEntry
      /\ \A k \in 1 .. Len(Wanted) : IF k <= Cardinality(T) THEN \E i \in T : Place(T, i) = k
                                     ELSE Loaded(Wanted)[k] = NoEntry
  BY FilesKnown, LoadedTexts DEF LocaleInv
<1>4. \A i \in DOMAIN Wanted : IsText(Wanted[i]) <=> i \in T
  BY DEF Texts
<1>5. Cardinality(T) \in Nat /\ Cardinality(T) <= Len(Wanted) /\ \A i \in T : Place(T, i) <= Cardinality(T)
  <2>1. Place(T, Len(Wanted)) = Cardinality(T) /\ Place(T, Len(Wanted)) <= Len(Wanted) /\ Cardinality(T) \in Nat
    BY <1>3, Places
  <2>2. \A i \in T : i \in Nat
    BY <1>3
  <2>3. QED
    BY <1>3, <2>1, <2>2, Places
<1>6. \A i, j \in T : i <= j <=> Place(T, i) <= Place(T, j)
  BY <1>3, PlacesInOrder
<1>7. TranslationIsOfFile <=> (reader = "done" =>
        \/ result = asked[1] /\ (texts = {} \/ ~exists)
        \/ \E i \in texts : result = Wanted[i].value /\ (exited \/ \A j \in texts : i <= j))
  BY DEF TranslationIsOfFile
<1>8. TranslationIsOfFile' <=> (reader' = "done" =>
        \/ result' = asked[1] /\ (texts = {} \/ ~exists)
        \/ \E i \in texts : result' = Wanted[i].value /\ (exited \/ \A j \in texts : i <= j))
  BY <1>1, <1>2 DEF TranslationIsOfFile
<1> HIDE DEF T
<1>9. CASE Translate
  <2>2. reader = "call" /\ index' = 1 /\ loading = "done"
    BY <1>9 DEF Translate, LocaleInv
  <2>3. CASE ~exists /\ reader' = "done" /\ result' = asked[1] /\ UNCHANGED entries
    <3>1. LocaleTypeOK'
      BY <1>1, <2>2, <2>3 DEF LocaleInv, LocaleTypeOK
    <3>2. LookupIsRight'
      BY <1>8, <2>3 DEF LookupIsRight, CrashNeedsHole
    <3>3. QED
      BY <1>1, <1>2, <2>2, <2>3, <3>1, <3>2 DEF LocaleInv
  <2>4. CASE exists /\ manager = <<>> /\ reader' = "crashed" /\ UNCHANGED <<entries, result>>
    <3>1. LocaleTypeOK'
      BY <1>1, <2>2, <2>4 DEF LocaleInv, LocaleTypeOK
    <3>2. Counted' = {}
      BY <1>2, <2>2, <2>4, BestLocale
    <3>3. LookupIsRight'
      BY <1>8, <2>4, <3>2 DEF LookupIsRight, CrashNeedsHole
    <3>4. QED
      BY <1>1, <1>2, <2>2, <2>4, <3>1, <3>3 DEF LocaleInv
  <2>5. CASE /\ exists /\ manager # <<>> /\ reader' = "search"
             /\ entries' = manager[LocaleFor(asked[2])].entries /\ UNCHANGED result
    <3>1. entries' = Loaded(Wanted)
      BY <2>2, <2>5, BestLocale
    <3>2. LocaleTypeOK'
      BY <1>1, <1>3, <2>2, <2>5, <3>1 DEF LocaleInv, LocaleTypeOK
    <3>3. LookupIsRight'
      BY <1>8, <2>5 DEF LookupIsRight, CrashNeedsHole
    <3>4. \A k \in 1 .. index' - 1 : entries'[k] # NoEntry /\ entries'[k].key # asked'[1]
      BY <2>2
    <3>5. (entries = Loaded(Wanted))'
      BY <1>2, <3>1 DEF Loaded, Texts
    <3>6. QED
      BY <1>1, <1>2, <2>2, <2>5, <3>2, <3>3, <3>4, <3>5 DEF LocaleInv
  <2>6. QED
    BY <1>9, <2>3, <2>4, <2>5 DEF Translate
<1>10. ASSUME reader = "search" PROVE /\ entries = Loaded(Wanted) /\ (exited \/ exists) /\ (exited => ~exists)
                                      /\ Len(entries) = Len(Wanted) /\ loading = "done"
                                      /\ ~exited => \A k \in 1 .. index - 1 : entries[k] # NoEntry /\ entries[k].key # asked[1]
  BY <1>3, <1>10 DEF LocaleInv
\* What the entries compared tell of the texts.
<1>11. ASSUME reader = "search", ~exited, NEW i \in texts PROVE Place(T, i) >= index
  <2>1. i \in T /\ Wanted[i].key = asked[1] /\ Place(T, i) \in 1 .. Len(Wanted) /\ entries[Place(T, i)] = Wanted[i]
    BY <1>3, <1>10, <1>11
  <2>2. Place(T, i) \notin 1 .. index - 1
    BY <1>10, <1>11, <2>1
  <2>3. index \in Nat
    BY <1>1, <1>3, <1>10, <1>11
  <2>4. QED
    BY <1>3, <2>1, <2>2, <2>3
<1>12. CASE Compare
  <2>1. reader = "search" /\ index <= Len(entries) /\ UNCHANGED entries
    BY <1>12 DEF Compare
  <2>2. index \in 1 .. Len(Wanted) /\ (entries = Loaded(Wanted))'
    <3>1. index \in 1 .. Len(Wanted)
      BY <1>1, <1>3, <1>10, <2>1
    <3>2. (entries = Loaded(Wanted))'
      <4>1. entries' = Loaded(Wanted)
        BY <1>10, <2>1
      <4>2. QED
        BY <1>2, <4>1 DEF Loaded, Texts
    <3>3. QED
      BY <3>1, <3>2
  <2>3. CASE /\ entries[index] = NoEntry \/ exited
             /\ reader' = "crashed" /\ UNCHANGED <<index, result>>
    <3>1. CrashNeedsHole'
      <4>1. CASE exited
        BY <1>1, <4>1 DEF CrashNeedsHole
      <4>2. CASE ~exited /\ entries[index] = NoEntry
        <5>1. ~(index <= Cardinality(T))
          <6>1. ASSUME NEW i \in T, Place(T, i) = index PROVE FALSE
            BY <1>3, <1>10, <2>1, <4>2, <6>1
          <6>2. QED
            BY <1>3, <2>2, <6>1
        <5>2. \A i \in DOMAIN Wanted : Wanted[i].key = asked[1] => ~IsText(Wanted[i])
          <6>1. ASSUME NEW i \in texts PROVE FALSE
            <7>1. Place(T, i) >= index /\ Place(T, i) <= Cardinality(T) /\ Place(T, i) \in Nat
              BY <1>3, <1>5, <1>11, <2>1, <4>2
            <7>2. QED
              BY <1>5, <2>2, <5>1, <7>1
          <6>2. QED
            BY <1>4, <6>1
        <5>3. \E i \in DOMAIN Wanted : ~IsText(Wanted[i])
          <6>1. SUFFICES ASSUME \A i \in DOMAIN Wanted : IsText(Wanted[i]) PROVE FALSE
            OBVIOUS
          <6>2. T = 1 .. Len(Wanted)
            BY <1>3, <1>4, <6>1
          <6>3. Cardinality(T) = Len(Wanted)
            <7>1. 1 \in Int /\ Len(Wanted) \in Int
              BY <1>3
            <7>2. Cardinality(1 .. Len(Wanted)) = IF 1 > Len(Wanted) THEN 0 ELSE Len(Wanted) - 1 + 1
              BY <7>1, FS_Interval
            <7>3. QED
              BY <1>3, <6>2, <7>2
          <6>4. QED
            BY <1>3, <2>2, <5>1, <6>3
        <5>4. QED
          BY <1>1, <1>2, <5>2, <5>3 DEF CrashNeedsHole
      <4>3. QED
        BY <2>3, <4>1, <4>2
    <3>2. LookupIsRight'
      BY <1>8, <2>3, <3>1 DEF LookupIsRight
    <3>3. LocaleTypeOK'
      BY <1>1, <2>1, <2>3 DEF LocaleInv, LocaleTypeOK
    <3>4. QED
      BY <1>1, <1>2, <1>10, <2>1, <2>3, <3>2, <3>3 DEF LocaleInv
  <2>4. CASE /\ entries[index] # NoEntry /\ entries[index].key = asked[1]
             /\ reader' = "done" /\ result' = entries[index].value /\ UNCHANGED index
    <3>1. index <= Cardinality(T)
      BY <1>3, <1>10, <2>1, <2>2, <2>4
    <3>2. PICK i \in T : Place(T, i) = index
      BY <1>3, <2>2, <3>1
    <3>3. i \in texts /\ result' = Wanted[i].value
      BY <1>3, <1>10, <2>1, <2>4, <3>2
    <3>4. exited \/ \A j \in texts : i <= j
      <4>1. ASSUME ~exited, NEW j \in texts PROVE i <= j
        <5>1. Place(T, j) >= index /\ j \in T /\ Place(T, j) \in Nat
          BY <1>3, <1>11, <2>1, <4>1
        <5>2. QED
          BY <1>6, <2>2, <3>2, <5>1
      <4>2. QED
        BY <4>1
    <3>5. LookupIsRight'
      BY <1>8, <2>4, <3>3, <3>4 DEF LookupIsRight, CrashNeedsHole
    <3>6. LocaleTypeOK'
      BY <1>1, <2>1, <2>4 DEF LocaleInv, LocaleTypeOK
    <3>7. QED
      BY <1>1, <1>2, <1>10, <2>1, <2>4, <3>5, <3>6 DEF LocaleInv
  <2>5. CASE /\ exited \/ (entries[index] # NoEntry /\ entries[index].key # asked[1])
             /\ index' = index + 1 /\ UNCHANGED <<reader, result>>
    <3>1. LookupIsRight'
      BY <1>8, <2>1, <2>5 DEF LookupIsRight, CrashNeedsHole
    <3>2. LocaleTypeOK'
      BY <1>1, <1>3, <1>10, <2>1, <2>2, <2>5 DEF LocaleInv, LocaleTypeOK
    <3>3. ASSUME ~exited, NEW k \in 1 .. index' - 1 PROVE entries[k] # NoEntry /\ entries[k].key # asked[1]
      <4>1. k \in 1 .. index - 1 \/ k = index
        BY <2>2, <2>5
      <4>2. QED
        BY <1>10, <2>1, <2>5, <3>3, <4>1
    <3>4. QED
      BY <1>1, <1>2, <1>10, <2>1, <2>2, <2>5, <3>1, <3>2, <3>3 DEF LocaleInv
  <2>6. QED
    BY <1>12, <2>3, <2>4, <2>5 DEF Compare
<1>13. CASE KeyItself
  <2>1. reader = "search" /\ index > Len(entries) /\ reader' = "done" /\ result' = asked[1]
        /\ UNCHANGED <<entries, index>>
    BY <1>13 DEF KeyItself
  <2>2. ASSUME ~exited, NEW i \in texts PROVE FALSE
    <3>1. Place(T, i) >= index /\ Place(T, i) \in 1 .. Len(Wanted) /\ Len(Wanted) = Len(entries) /\ index \in Nat
      BY <1>1, <1>3, <1>10, <1>11, <2>1, <2>2
    <3>2. QED
      BY <1>3, <2>1, <3>1
  <2>3. texts = {} \/ ~exists
    <3>1. CASE exited
      BY <1>10, <2>1, <3>1
    <3>2. CASE ~exited
      BY <2>2, <3>2
    <3>3. QED
      BY <3>1, <3>2
  <2>4. LookupIsRight'
    BY <1>8, <2>1, <2>3 DEF LookupIsRight, CrashNeedsHole
  <2>5. LocaleTypeOK'
    BY <1>1, <2>1 DEF LocaleInv, LocaleTypeOK
  <2>6. QED
    BY <1>1, <1>2, <1>10, <2>1, <2>4, <2>5 DEF LocaleInv
<1>14. QED
  BY <1>9, <1>12, <1>13

LEMMA LocaleInvariant == LocaleSpec => []LocaleInv
<1>1. LocaleInit => LocaleInv
  <2> SUFFICES ASSUME LocaleInit PROVE LocaleInv
    OBVIOUS
  <2>1. MaxLocales \in Nat /\ AnySeq(<<>>) /\ Len(<<>>) = 0
    BY AnyLiteral, LocalesAssumption
  <2>2. LocaleTypeOK
    <3>1. manager = <<>> /\ entries = <<>> /\ index = 1
      BY DEF LocaleInit
    <3>2. Len(manager) <= MaxLocales /\ index \in 1 .. Len(entries) + 1
      BY <2>1, <3>1
    <3>3. QED
      BY <3>2 DEF LocaleInit, LocaleTypeOK
  <2>3. LookupIsRight
    BY DEF LocaleInit, LookupIsRight, TranslationIsOfFile, CrashNeedsHole
  <2>4. QED
    BY <2>1, <2>2, <2>3 DEF LocaleInit, LocaleInv
<1>2. LocaleInv /\ [LocaleNext]_localeVars => LocaleInv'
  <2> SUFFICES ASSUME LocaleInv, [LocaleNext]_localeVars PROVE LocaleInv'
    OBVIOUS
  <2>1. CASE Open18n
    <3>1. /\ loading = "call" /\ directory = files /\ manager = <<>> /\ reader = "call" /\ ~exited
          /\ UNCHANGED <<directory, manager, exited, files, reader, asked, entries, index, result>>
      BY <2>1 DEF Open18n, NotReading, LocaleInv
    <3>2. LookupIsRight'
      BY <3>1 DEF LookupIsRight, TranslationIsOfFile, CrashNeedsHole
    <3>3. CASE exists' = FALSE /\ loading' = "done"
      <4>1. LocaleTypeOK'
        BY <3>1, <3>3 DEF LocaleInv, LocaleTypeOK
      <4>2. QED
        BY <3>1, <3>2, <3>3, <4>1 DEF LocaleInv
    <3>4. CASE directory # NoDirectory /\ exists' = TRUE /\ loading' = "read"
      <4>1. LocaleTypeOK'
        BY <3>1, <3>4 DEF LocaleInv, LocaleTypeOK
      <4>2. /\ files \in Seq(ToSet(files)) /\ Len(files) \in Nat
            /\ JsonFiles \in SUBSET (1 .. Len(files)) /\ files # NoDirectory
        BY <3>1, <3>4, FilesKnown DEF LocaleInv
      <4>3. Place(JsonFiles, 0) = 0 /\ \A i \in JsonFiles : ~(i <= 0)
        BY <4>2, Places
      <4>4. Len(manager) = 0
        BY <3>1, AnyLiteral
      <4>5. Reading(0)
        BY <3>1, <4>2, <4>3, <4>4 DEF Reading, Shelved
      <4>6. Reading(0)'
        BY <3>1, <4>5 DEF Reading, Shelved, JsonFiles, LocaleOf
      <4>7. \E n \in 0 .. Len(files)' : Reading(n)'
        BY <3>1, <4>2, <4>6
      <4>8. QED
        BY <3>1, <3>2, <3>4, <4>1, <4>2, <4>7 DEF LocaleInv
    <3>5. QED
      BY <2>1, <3>3, <3>4 DEF Open18n
  <2>2. CASE LoadFile \/ CloseDirectory
    BY <2>2, LoadStep
  <2>3. CASE Translate \/ Compare \/ KeyItself
    BY <2>3, LookupStep
  <2>4. CASE Exit18n
    <3>1. /\ loading = "done" /\ exited' = TRUE /\ manager' = <<>> /\ exists' = FALSE
          /\ UNCHANGED <<reader, asked, entries, index, result, directory, loading, files>>
      BY <2>4 DEF Exit18n, NotReading
    <3>2. Wanted' = Wanted /\ \A c : Loaded(c)' = Loaded(c)
      BY <3>1 DEF Wanted, Counted, JsonFiles, Loaded, Texts
    <3>3. (entries = Loaded(Wanted))' <=> entries = Loaded(Wanted)
      BY <3>1, <3>2 DEF Loaded, Texts
    <3>4. TranslationIsOfFile'
      BY <3>1, <3>2 DEF LocaleInv, LookupIsRight, TranslationIsOfFile, Texts
    <3>5. CrashNeedsHole'
      BY <3>1 DEF CrashNeedsHole
    <3>6. LocaleTypeOK'
      <4>1. MaxLocales \in Nat /\ Len(<<>>) = 0
        BY LocalesAssumption, AnyLiteral
      <4>2. QED
        <5>1. Len(manager') = 0 /\ 0 <= MaxLocales
          BY <3>1, <4>1
        <5>2. QED
          BY <3>1, <5>1 DEF LocaleInv, LocaleTypeOK
    <3>7. AnySeq(manager)'
      BY <3>1, AnyLiteral
    <3>8. QED
      BY <3>1, <3>3, <3>4, <3>5, <3>6, <3>7 DEF LocaleInv, LookupIsRight
  <2>5. CASE UNCHANGED localeVars
    <3>1. UNCHANGED <<directory, loading, manager, exists, reader, asked, entries, index, result, exited, files>>
      BY <2>5 DEF localeVars
    <3>2. Wanted' = Wanted /\ Counted' = Counted /\ JsonFiles' = JsonFiles
      BY <3>1 DEF Wanted, Counted, JsonFiles
    <3>3. (entries = Loaded(Wanted))' <=> entries = Loaded(Wanted)
      BY <3>1, <3>2 DEF Loaded, Texts
    <3>4. LookupIsRight' <=> LookupIsRight
      BY <3>1, <3>2 DEF LookupIsRight, TranslationIsOfFile, CrashNeedsHole, Texts
    <3>5. \A n : (Reading(n)' <=> Reading(n)) /\ (Shelved(n)' <=> Shelved(n))
      BY <3>1 DEF Reading, Shelved, JsonFiles, LocaleOf
    <3>6. QED
      BY <3>1, <3>2, <3>3, <3>4, <3>5 DEF LocaleInv, LocaleTypeOK
  <2>6. QED
    BY <2>1, <2>2, <2>3, <2>4, <2>5 DEF LocaleNext
<1>3. QED
  BY <1>1, <1>2, PTL DEF LocaleSpec

\* There are never more than MAX_LOCALES locales, and no entry behind the last
\* is read.
THEOREM LocaleType == LocaleSpec => []LocaleTypeOK
<1>1. LocaleInv => LocaleTypeOK
  BY DEF LocaleInv
<1>2. QED
  BY <1>1, LocaleInvariant, PTL

\* Whatever the directory holds: a lookup returns the text of the language's
\* first file, or of the first of all, or the key when there is none; and it
\* crashes only at exit, without any file, or over a member that is no string.
THEOREM LookupRight == LocaleSpec => []LookupIsRight
<1>1. LocaleInv => LookupIsRight
  BY DEF LocaleInv
<1>2. QED
  BY <1>1, LocaleInvariant, PTL

-----------------------------------------------------------------------------
(***************************************************************************)
(* Request headers                                                         *)
(***************************************************************************)

\* A header is found under its name, cut or not.
LEMMA CutKeepsName ==
  ASSUME NoCutNameIsAsked, NEW n \in DOMAIN CutName, NEW m \in Asked
  PROVE  FoldName[CutName[n]] = FoldName[m] <=> FoldName[n] = FoldName[m]
<1>1. CASE CutName[n] = n
  BY <1>1
<1>2. CASE CutName[n] # n
  <2>1. FoldName[CutName[n]] # FoldName[m]
    BY <1>2 DEF NoCutNameIsAsked
  <2>2. FoldName[n] # FoldName[m]
    <3>1. m \in DOMAIN CutName /\ CutName[m] = m
      BY RequestHeadersAssumption DEF Asked
    <3>2. QED
      BY <1>2, <3>1, RequestHeadersAssumption
  <2>3. QED
    BY <2>1, <2>2
<1>3. QED
  BY <1>1, <1>2

\* The first header of the name is at a, or there is none and a is 0.
IsFirst(a, s, m) ==
  \/ a = 0 /\ \A i \in 1 .. Len(s) : FoldName[s[i].name] # FoldName[m]
  \/ /\ a \in 1 .. Len(s) /\ FoldName[s[a].name] = FoldName[m]
     /\ \A i \in 1 .. Len(s) : FoldName[s[i].name] = FoldName[m] => a <= i

LEMMA FirstOfName ==
  ASSUME NEW s, AnySeq(s), NEW m
  PROVE  LET named == {i \in DOMAIN s : FoldName[s[i].name] = FoldName[m]}
         IN IsFirst(IF named = {} THEN 0 ELSE CHOOSE i \in named : \A j \in named : i <= j, s, m)
<1> DEFINE named == {i \in DOMAIN s : FoldName[s[i].name] = FoldName[m]}
           k == CHOOSE i \in named : \A j \in named : i <= j
           r == IF named = {} THEN 0 ELSE k
<1> SUFFICES IsFirst(r, s, m)
  OBVIOUS
<1>1. Len(s) \in Nat /\ DOMAIN s = 1 .. Len(s)
  BY AnyLength
<1>2. CASE named = {}
  <2>1. r = 0 /\ \A i \in 1 .. Len(s) : FoldName[s[i].name] # FoldName[m]
    BY <1>1, <1>2
  <2>2. QED
    BY <2>1 DEF IsFirst
<1>3. CASE named # {}
  <2>1. named \in SUBSET Nat
    BY <1>1
  <2>2. k \in named /\ \A j \in named : k <= j
    <3> HIDE DEF named
    <3>1. QED
      BY <1>3, <2>1, Least
  <2> HIDE DEF k
  <2>3. r = k /\ k \in 1 .. Len(s) /\ FoldName[s[k].name] = FoldName[m]
        /\ \A i \in 1 .. Len(s) : FoldName[s[i].name] = FoldName[m] => k <= i
    BY <1>1, <1>3, <2>2
  <2>4. QED
    BY <2>3 DEF IsFirst
<1>4. QED
  BY <1>2, <1>3

\* cHTTPX_HeaderGet finds the first header of the name.
LEMMA AtNameIsFirst == ASSUME AnySeq(headers), NEW m PROVE IsFirst(AtName(m), headers, m)
BY FirstOfName, Zenon DEF AtName

\* The headers are those of the first n lines, as far as there is room.
Stored(n) ==
  /\ Len(headers) = Place(HeaderLines, n) \/ (Len(headers) = MaxHeaders /\ MaxHeaders <= Place(HeaderLines, n))
  /\ \A i \in HeaderLines : i <= n /\ Place(HeaderLines, i) <= MaxHeaders =>
       headers[Place(HeaderLines, i)] = [name |-> CutName[received[i].name], value |-> received[i].value]

Records(s) == \A i \in DOMAIN s : s[i] = [name |-> s[i].name, value |-> s[i].value]

\* n lines have been read.
LinesRead(n) ==
  /\ Len(lines) = Len(received) - n /\ \A i \in 1 .. Len(lines) : lines[i] = received[n + i]
  /\ lines \in Seq(ToSet(received))

SetOf(m) == {i \in DOMAIN sets : FoldName[sets[i].name] = FoldName[m]}

SentOf(m) == {i \in HeadLines : FoldName[received[i].name] = FoldName[m]}

FirstOf(S) == CHOOSE i \in S : \A j \in S : i <= j

LastOf(S) == CHOOSE i \in S : \A j \in S : i >= j

\* The header that cHTTPX_HeaderGet finds has the value expected of it.
Right(m) ==
  /\ AtName(m) = 0 <=> SetOf(m) = {} /\ SentOf(m) = {}
  /\ AtName(m) # 0 =>
       headers[AtName(m)].value =
         IF SetOf(m) # {} THEN sets[LastOf(SetOf(m))].value
         ELSE received[FirstOf(SentOf(m))].value

HeadersInv ==
  /\ HeadersTypeOK
  /\ received \in Buffers /\ AnySeq(headers) /\ AnySeq(sets) /\ Records(headers)
  /\ \A i \in 1 .. Len(sets) : sets[i].name \in NamesAsked
  /\ \E n \in 0 .. Len(received) : LinesRead(n) /\ (~parsed /\ BodyHasNoHeader => Stored(n))
  /\ ~parsed => sets = <<>>
  /\ NoCutNameIsAsked /\ parsed /\ BodyHasNoHeader => \A m \in Asked : Right(m)

LEMMA HeaderLinesKnown ==
  ASSUME received \in Buffers
  PROVE  /\ received \in Seq(ToSet(received)) /\ Len(received) \in Nat /\ DOMAIN received = 1 .. Len(received)
         /\ \A i \in 1 .. Len(received) - 1 : received[i].ended
         /\ HeaderLines \in SUBSET (1 .. Len(received))
         /\ HeadLines = {i \in HeaderLines : Place(HeaderLines, i) <= MaxHeaders}
         /\ \A i \in HeaderLines : IsHeader(received[i]) /\ received[i].name \in DOMAIN CutName
         /\ BodyHasNoHeader => \A i \in 1 .. Len(received) : IsHeader(received[i]) => i \in HeaderLines
<1>1. /\ received \in Seq(ToSet(received)) /\ \A i \in 1 .. Len(received) - 1 : received[i].ended
      /\ \A line \in ToSet(received) : line.name \in DOMAIN CutName \cup {NoColon, Blank}
  BY RequestHeadersAssumption
<1>2. Len(received) \in Nat /\ DOMAIN received = 1 .. Len(received)
  BY <1>1
<1>3. HeaderLines \in SUBSET (1 .. Len(received))
  BY <1>2 DEF HeaderLines
<1>4. HeadLines = {i \in HeaderLines : Place(HeaderLines, i) <= MaxHeaders}
  BY DEF HeadLines, Place
<1>5. ASSUME NEW i \in HeaderLines PROVE IsHeader(received[i]) /\ received[i].name \in DOMAIN CutName
  <2>1. IsHeader(received[i]) /\ received[i] \in ToSet(received)
    BY <1>2, <1>3 DEF HeaderLines, ToSet
  <2>2. QED
    BY <1>1, <2>1 DEF IsHeader
<1>6. ASSUME BodyHasNoHeader, NEW i \in 1 .. Len(received), IsHeader(received[i]) PROVE i \in HeaderLines
  <2>1. ASSUME NEW j \in 1 .. i, received[j].name = Blank PROVE FALSE
    <3>1. j # i
      BY <1>6, <2>1 DEF IsHeader
    <3>2. j \in DOMAIN received /\ i \in DOMAIN received /\ j < i
      BY <1>2, <3>1
    <3>3. QED
      BY <1>6, <2>1, <3>2 DEF BodyHasNoHeader
  <2>2. QED
    BY <1>2, <1>6, <2>1 DEF HeaderLines
<1>7. QED
  BY <1>1, <1>2, <1>3, <1>4, <1>5, <1>6

\* What is left is behind what has been read.
LEMMA LinesLeft ==
  ASSUME NEW all, AnySeq(all), NEW left, AnySeq(left), NEW n \in 0 .. Len(all),
         Len(left) = Len(all) - n, \A i \in 1 .. Len(left) : left[i] = all[n + i]
  PROVE  IsSuffix(left, all)
<1>1. Len(all) \in Nat /\ Len(left) \in Nat
  BY AnyLength
<1>2. Len(left) <= Len(all) /\ Len(all) - Len(left) = n
  BY <1>1
<1>3. \A i \in 1 .. Len(left) : left[i] = all[Len(all) - Len(left) + i]
  BY <1>2
<1>4. QED
  BY <1>2, <1>3, SuffixByElements

LEMMA HeadersStart == HeadersInit => HeadersInv
<1> SUFFICES ASSUME HeadersInit PROVE HeadersInv
  OBVIOUS
<1>1. received \in Buffers /\ lines = received /\ headers = <<>> /\ parsed = FALSE /\ sets = <<>>
  BY DEF HeadersInit
<1>2. /\ received \in Seq(ToSet(received)) /\ Len(received) \in Nat
      /\ HeaderLines \in SUBSET (1 .. Len(received)) /\ MaxHeaders \in Nat
  BY <1>1, HeaderLinesKnown, RequestHeadersAssumption
<1>3. AnySeq(headers) /\ AnySeq(sets) /\ Len(headers) = 0 /\ Len(sets) = 0
  BY <1>1, AnyLiteral
<1>4. 0 \in 0 .. Len(received) /\ LinesRead(0)
  BY <1>1, <1>2 DEF LinesRead
<1>5. Stored(0)
  <2>1. 0 \in Nat /\ Place(HeaderLines, 0) \in Nat /\ Place(HeaderLines, 0) <= 0
    BY <1>2, Places
  <2>2. ASSUME NEW i \in HeaderLines PROVE ~(i <= 0)
    BY <1>2
  <2>3. QED
    BY <1>3, <2>1, <2>2 DEF Stored
<1>6. HeadersTypeOK
  <2>1. AnySeq(received)
    BY <1>2 DEF AnySeq
  <2>2. IsSuffix(received, received)
    BY <1>2, <2>1, SuffixByElements
  <2>3. 0 <= MaxHeaders
    BY <1>2
  <2>4. Len(headers) <= MaxHeaders
    BY <1>3, <2>3
  <2>5. IsSuffix(lines, received)
    BY <1>1, <2>2
  <2>6. parsed \in BOOLEAN
    BY <1>1
  <2>7. QED
    BY <2>4, <2>5, <2>6 DEF HeadersTypeOK
<1>7. Records(headers)
  BY <1>1 DEF Records
<1>8. QED
  BY <1>1, <1>3, <1>4, <1>5, <1>6, <1>7 DEF HeadersInv

\* Append puts one element behind the others.
LEMMA AppendedOne ==
  ASSUME NEW s, AnySeq(s), NEW x
  PROVE  /\ AnySeq(Append(s, x)) /\ Len(Append(s, x)) = Len(s) + 1 /\ Append(s, x)[Len(s) + 1] = x
         /\ \A i \in 1 .. Len(s) : Append(s, x)[i] = s[i]
<1>1. PICK S : s \in Seq(S)
  BY DEF AnySeq
<1>2. s \in Seq(S \cup {x}) /\ x \in S \cup {x}
  BY <1>1, SeqMonotonic
<1>3. Append(s, x) \in Seq(S \cup {x})
  BY <1>2
<1>4. AnySeq(Append(s, x))
  BY <1>3 DEF AnySeq
<1>5. QED
  BY <1>2, <1>4, AppendProperties

LEMMA RecordAppended ==
  ASSUME NEW s, AnySeq(s), Records(s), NEW x, x = [name |-> x.name, value |-> x.value]
  PROVE  Records(Append(s, x))
<1>1. /\ AnySeq(Append(s, x)) /\ Len(Append(s, x)) = Len(s) + 1 /\ Append(s, x)[Len(s) + 1] = x
      /\ \A i \in 1 .. Len(s) : Append(s, x)[i] = s[i]
  BY AppendedOne
<1> DEFINE t == Append(s, x)
<1> HIDE DEF t
<1>2. Len(s) \in Nat /\ DOMAIN s = 1 .. Len(s) /\ DOMAIN t = 1 .. Len(s) + 1
  BY <1>1, AnyLength DEF t
<1>3. ASSUME NEW i \in DOMAIN t PROVE t[i] = [name |-> t[i].name, value |-> t[i].value]
  <2>1. CASE i = Len(s) + 1
    BY <1>1, <2>1 DEF t
  <2>2. CASE i # Len(s) + 1
    <3>1. i \in 1 .. Len(s)
      BY <1>2, <2>2
    <3>2. t[i] = s[i]
      BY <1>1, <3>1 DEF t
    <3>3. s[i] = [name |-> s[i].name, value |-> s[i].value]
      BY <1>2, <3>1 DEF Records
    <3>4. QED
      BY <3>2, <3>3
  <2>3. QED
    BY <2>1, <2>2
<1>4. QED
  BY <1>3 DEF Records, t

\* A further line has been looked at.
LEMMA ParseStepOfHeaders ==
  ASSUME HeadersInv, ParseLine
  PROVE  HeadersInv'
<1> DEFINE H == HeaderLines
           L == Len(received)
<1>1. /\ ~parsed /\ lines # <<>> /\ lines' = Tail(lines) /\ UNCHANGED <<parsed, received, sets>>
      /\ headers' = IF Head(lines).name \in {NoColon, Blank} \/ Len(headers) >= MaxHeaders THEN headers
                    ELSE Append(headers, [name |-> CutName[Head(lines).name], value |-> Head(lines).value])
      /\ Head(lines).ended /\ received \in Buffers
  BY DEF ParseLine, HeadersInv
<1>2. /\ received \in Seq(ToSet(received)) /\ L \in Nat /\ DOMAIN received = 1 .. L /\ H \in SUBSET (1 .. L)
      /\ BodyHasNoHeader => \A i \in 1 .. L : IsHeader(received[i]) => i \in H
      /\ \A i \in H : IsHeader(received[i])
  BY <1>1, HeaderLinesKnown
<1>3. AnySeq(headers) /\ Records(headers) /\ Len(headers) \in Nat /\ DOMAIN headers = 1 .. Len(headers)
      /\ MaxHeaders \in Nat /\ Len(headers) <= MaxHeaders
  BY AnyLength, RequestHeadersAssumption DEF HeadersInv, HeadersTypeOK
<1>4. PICK n \in 0 .. L : LinesRead(n) /\ (BodyHasNoHeader => Stored(n))
  BY <1>1 DEF HeadersInv
<1> HIDE DEF L
<1>5. /\ Len(lines) = L - n /\ \A i \in 1 .. Len(lines) : lines[i] = received[n + i]
      /\ lines \in Seq(ToSet(received))
  BY <1>4 DEF LinesRead, L
<1>6. Len(lines) > 0 /\ Head(lines) = lines[1] /\ lines' \in Seq(ToSet(received))
      /\ Len(lines') = Len(lines) - 1 /\ \A i \in 1 .. Len(lines') : lines'[i] = lines[i + 1]
  BY <1>1, <1>5
<1>7. n \in Nat /\ n + 1 \in 1 .. L /\ n + 1 \in 0 .. L /\ n + 1 - 1 = n /\ n + 1 \in Nat
  BY <1>2, <1>5, <1>6
<1>8. Head(lines) = received[n + 1]
  BY <1>5, <1>6
<1>9. LinesRead(n + 1)'
  <2>1. ASSUME NEW i \in 1 .. Len(lines') PROVE lines'[i] = received[n + 1 + i]
    <3>1. i + 1 \in 1 .. Len(lines) /\ n + (i + 1) = n + 1 + i
      BY <1>5, <1>6, <1>7
    <3>2. QED
      BY <1>5, <1>6, <3>1
  <2>2. Len(lines') = L - (n + 1)
    BY <1>2, <1>5, <1>6, <1>7
  <2>3. QED
    BY <1>1, <1>6, <2>1, <2>2 DEF LinesRead, L
<1>10. HeaderLines' = HeaderLines /\ (BodyHasNoHeader' <=> BodyHasNoHeader)
  BY <1>1 DEF HeaderLines, BodyHasNoHeader
<1> HIDE DEF H
<1>14. /\ \A i \in Nat : Place(H, i) \in Nat
       /\ \A i \in H : i \in 1 .. L /\ Place(H, i) = Place(H, i - 1) + 1 /\ Place(H, i) >= 1
       /\ \A i \in Nat \ {0} : i \notin H => Place(H, i) = Place(H, i - 1)
       /\ \A i, j \in Nat : i <= j => Place(H, i) <= Place(H, j)
  BY <1>2, Places
<1>15. ASSUME AnySeq(headers'), Records(headers'), Len(headers') <= MaxHeaders, BodyHasNoHeader => Stored(n + 1)'
       PROVE  HeadersInv'
  <2>1. IsSuffix(lines', received')
    <3>1. AnySeq(received) /\ AnySeq(lines') /\ Len(received) = L
      BY <1>2, <1>6 DEF AnySeq, L
    <3>2. Len(lines') = L - (n + 1) /\ \A i \in 1 .. Len(lines') : lines'[i] = received[n + 1 + i]
      BY <1>1, <1>9 DEF LinesRead, L
    <3>3. IsSuffix(lines', received)
      BY <1>7, <3>1, <3>2, LinesLeft
    <3>4. QED
      BY <1>1, <3>3
  <2>2. HeadersTypeOK'
    BY <1>1, <1>15, <2>1 DEF HeadersTypeOK, HeadersInv
  <2>3. \E k \in 0 .. Len(received') : LinesRead(k)' /\ (~parsed' /\ BodyHasNoHeader' => Stored(k)')
    BY <1>1, <1>7, <1>9, <1>10, <1>15 DEF L
  <2>4. QED
    BY <1>1, <1>10, <1>15, <2>2, <2>3 DEF HeadersInv
<1> DEFINE h == [name |-> CutName[received[n + 1].name], value |-> received[n + 1].value]
<1>11. CASE received[n + 1].name \notin {NoColon, Blank} /\ ~(Len(headers) >= MaxHeaders)
  <2>1. headers' = Append(headers, h)
    BY <1>1, <1>8, <1>11
  <2> HIDE DEF h
  <2>2. /\ AnySeq(headers') /\ Len(headers') = Len(headers) + 1 /\ headers'[Len(headers) + 1] = h
        /\ \A i \in 1 .. Len(headers) : headers'[i] = headers[i]
        /\ Records(headers')
    <3>1. /\ AnySeq(Append(headers, h)) /\ Len(Append(headers, h)) = Len(headers) + 1
          /\ Append(headers, h)[Len(headers) + 1] = h
          /\ \A i \in 1 .. Len(headers) : Append(headers, h)[i] = headers[i]
      BY <1>3, AppendedOne
    <3>2. Records(Append(headers, h))
      <4>1. h = [name |-> h.name, value |-> h.value]
        BY DEF h
      <4>2. QED
        BY <1>3, <4>1, RecordAppended
    <3>3. QED
      BY <2>1, <3>1, <3>2
  <2>3. Len(headers') <= MaxHeaders
    BY <1>3, <1>11, <2>2
  <2>4. ASSUME BodyHasNoHeader PROVE Stored(n + 1)'
    <3>1. n + 1 \in H
      BY <1>1, <1>2, <1>7, <1>8, <1>11, <2>4 DEF IsHeader
    <3>2. Place(H, n + 1) = Place(H, n) + 1 /\ Place(H, n) \in Nat
      BY <1>7, <1>14, <3>1
    <3>3. Len(headers) = Place(H, n)
      BY <1>3, <1>4, <1>11, <2>4 DEF Stored, H
    <3>4. \A i \in H : i <= n /\ Place(H, i) <= MaxHeaders =>
            headers[Place(H, i)] = [name |-> CutName[received[i].name], value |-> received[i].value]
      BY <1>4, <2>4 DEF Stored, H
    <3>5. ASSUME NEW i \in H, i <= n + 1, Place(H, i) <= MaxHeaders
          PROVE  headers'[Place(H, i)] = [name |-> CutName[received[i].name], value |-> received[i].value]
      <4>1. CASE i = n + 1
        BY <2>2, <3>2, <3>3, <4>1 DEF h
      <4>2. CASE i # n + 1
        <5>1. i \in Nat /\ i <= n
          BY <1>2, <1>7, <3>5, <4>2
        <5>2. Place(H, i) \in Nat /\ Place(H, i) >= 1 /\ Place(H, i) <= Place(H, n)
          BY <1>7, <1>14, <3>5, <5>1
        <5>3. Place(H, i) \in 1 .. Len(headers)
          BY <1>3, <3>2, <3>3, <5>2
        <5>4. QED
          BY <2>2, <3>4, <3>5, <5>1, <5>3
      <4>3. QED
        BY <4>1, <4>2
    <3>6. QED
      BY <1>1, <1>10, <2>2, <3>2, <3>3, <3>5 DEF Stored, H
  <2>5. QED
    BY <1>15, <2>2, <2>3, <2>4
<1>12. CASE received[n + 1].name \in {NoColon, Blank} \/ Len(headers) >= MaxHeaders
  <2>1. headers' = headers
    BY <1>1, <1>8, <1>12
  <2>2. AnySeq(headers') /\ Records(headers') /\ Len(headers') <= MaxHeaders
    BY <1>3, <2>1
  <2>3. ASSUME BodyHasNoHeader PROVE Stored(n + 1)'
    <3>1. Place(H, n) <= Place(H, n + 1) /\ Place(H, n) \in Nat /\ Place(H, n + 1) \in Nat
      <4>1. n <= n + 1
        BY <1>7
      <4>2. QED
        BY <1>7, <1>14, <4>1
    <3>2. \/ Place(H, n + 1) = Place(H, n) /\ n + 1 \notin H
          \/ Len(headers) = MaxHeaders
      <4>1. CASE received[n + 1].name \in {NoColon, Blank}
        <5>1. n + 1 \notin H
          BY <1>2, <4>1 DEF IsHeader
        <5>2. n + 1 \in Nat \ {0}
          BY <1>7
        <5>3. Place(H, n + 1) = Place(H, n + 1 - 1)
          BY <1>14, <5>1, <5>2
        <5>4. QED
          BY <1>7, <5>1, <5>3
      <4>2. CASE Len(headers) >= MaxHeaders
        <5>1. \A k, l \in Nat : k <= l /\ k >= l => k = l
          OBVIOUS
        <5>2. Len(headers) \in Nat /\ MaxHeaders \in Nat /\ Len(headers) <= MaxHeaders
          BY <1>3
        <5>3. Len(headers) = MaxHeaders
          BY <4>2, <5>1, <5>2, Zenon
        <5>4. QED
          BY <5>3
      <4>3. QED
        BY <1>12, <4>1, <4>2
    <3>3. Len(headers) = Place(H, n) \/ (Len(headers) = MaxHeaders /\ MaxHeaders <= Place(H, n))
      BY <1>4, <2>3 DEF Stored, H
    <3>4. Len(headers) = Place(H, n + 1) \/ (Len(headers) = MaxHeaders /\ MaxHeaders <= Place(H, n + 1))
      <4>1. CASE Len(headers) = MaxHeaders
        <5>1. MaxHeaders <= Place(H, n)
          BY <1>3, <3>1, <3>3, <4>1
        <5>2. QED
          BY <1>3, <3>1, <4>1, <5>1
      <4>2. CASE Len(headers) # MaxHeaders
        BY <3>2, <3>3, <4>2
      <4>3. QED
        BY <4>1, <4>2
    <3>5. ASSUME NEW i \in H, i <= n + 1, Place(H, i) <= MaxHeaders PROVE i <= n
      <4>1. CASE i = n + 1
        <5>1. Place(H, n + 1) = Place(H, n) + 1
          BY <1>7, <1>14, <3>5, <4>1
        <5>2. Len(headers) = MaxHeaders /\ MaxHeaders <= Place(H, n)
          BY <1>3, <3>1, <3>2, <3>3, <3>5, <4>1, <5>1
        <5>3. QED
          BY <1>3, <3>1, <3>5, <4>1, <5>1, <5>2
      <4>2. CASE i # n + 1
        BY <1>2, <1>7, <3>5, <4>2
      <4>3. QED
        BY <4>1, <4>2
    <3>6. \A i \in H : i <= n /\ Place(H, i) <= MaxHeaders =>
            headers[Place(H, i)] = [name |-> CutName[received[i].name], value |-> received[i].value]
      BY <1>4, <2>3 DEF Stored, H
    <3>7. QED
      BY <1>1, <1>10, <2>1, <3>4, <3>5, <3>6 DEF Stored, H
  <2>4. QED
    BY <1>15, <2>2, <2>3
<1>13. QED
  BY <1>11, <1>12

\* Once all lines have been looked at, the header found is the first the request has.
LEMMA RightAtTheEnd ==
  ASSUME received \in Buffers, AnySeq(headers), Len(headers) <= MaxHeaders, BodyHasNoHeader, NoCutNameIsAsked,
         NEW n \in 0 .. Len(received), Stored(n), \A i \in HeaderLines : i <= n, sets = <<>>, NEW m \in Asked
  PROVE  Right(m)
<1> DEFINE H == HeaderLines
           L == Len(received)
<1>1. /\ L \in Nat /\ H \in SUBSET (1 .. L) /\ HeadLines = {i \in H : Place(H, i) <= MaxHeaders}
      /\ \A i \in H : received[i].name \in DOMAIN CutName
  BY HeaderLinesKnown
<1>2. Len(headers) \in Nat /\ MaxHeaders \in Nat /\ n \in Nat /\ \A i \in H : i <= n
  BY AnyLength, RequestHeadersAssumption, <1>1
<1>3. /\ Len(headers) = Place(H, n) \/ (Len(headers) = MaxHeaders /\ MaxHeaders <= Place(H, n))
      /\ \A i \in H : i <= n /\ Place(H, i) <= MaxHeaders =>
           headers[Place(H, i)] = [name |-> CutName[received[i].name], value |-> received[i].value]
  BY DEF Stored
<1> HIDE DEF H, L
<1>4. /\ \A i \in Nat : Place(H, i) \in Nat /\ Place(H, i) <= Cardinality(H)
      /\ \A i \in H : i \in Nat /\ Place(H, i) >= 1
      /\ \A i, j \in Nat : i <= j => Place(H, i) <= Place(H, j)
      /\ Cardinality(H) \in Nat
  <2>1. /\ Cardinality(H) \in Nat /\ \A i \in Nat : Place(H, i) \in Nat /\ Place(H, i) <= Cardinality(H)
        /\ \A i \in H : Place(H, i) >= 1
        /\ \A i, j \in Nat : i <= j => Place(H, i) <= Place(H, j)
    BY <1>1, Places
  <2>2. \A i \in H : i \in Nat
    BY <1>1
  <2>3. QED
    BY <2>1, <2>2
<1>5. ASSUME NEW i \in HeadLines
      PROVE  /\ Place(H, i) \in 1 .. Len(headers) /\ i \in H
             /\ headers[Place(H, i)].value = received[i].value
             /\ FoldName[headers[Place(H, i)].name] = FoldName[m] <=> FoldName[received[i].name] = FoldName[m]
  <2>1. i \in H /\ Place(H, i) <= MaxHeaders /\ Place(H, i) \in Nat /\ Place(H, n) \in Nat
    BY <1>1, <1>2, <1>4
  <2>2. Place(H, i) <= Place(H, n)
    BY <1>2, <1>4, <2>1
  <2>3. Place(H, i) <= Len(headers) /\ Place(H, i) >= 1
    BY <1>3, <1>4, <2>1, <2>2
  <2>4. headers[Place(H, i)] = [name |-> CutName[received[i].name], value |-> received[i].value]
    BY <1>2, <1>3, <2>1
  <2>5. FoldName[CutName[received[i].name]] = FoldName[m] <=> FoldName[received[i].name] = FoldName[m]
    BY <1>1, <2>1, CutKeepsName
  <2>6. QED
    BY <1>2, <2>1, <2>3, <2>4, <2>5
<1>6. ASSUME NEW a \in 1 .. Len(headers) PROVE \E i \in HeadLines : Place(H, i) = a
  <2>1. a <= Cardinality(H) /\ a >= 1 /\ a \in Nat
    <3>1. Len(headers) <= Place(H, n) /\ Place(H, n) \in Nat /\ Place(H, n) <= Cardinality(H)
      <4>1. Place(H, n) \in Nat /\ Place(H, n) <= Cardinality(H)
        BY <1>2, <1>4
      <4>2. Len(headers) <= Place(H, n)
        BY <1>2, <1>3, <4>1
      <4>3. QED
        BY <4>1, <4>2
    <3>2. QED
      BY <1>2, <1>4, <3>1
  <2>2. a \in 1 .. Cardinality(H)
    BY <1>4, <2>1
  <2>3. PICK i \in H : Place(H, i) = a
    BY <1>1, <2>2, PlaceTaken
  <2>4. a <= MaxHeaders
    BY <1>2, <2>1
  <2>5. QED
    BY <1>1, <2>3, <2>4
<1>7. SetOf(m) = {}
  BY DEF SetOf
<1>8. ASSUME NEW i PROVE i \in SentOf(m) <=> i \in HeadLines /\ FoldName[received[i].name] = FoldName[m]
  BY DEF SentOf
<1>9. \/ AtName(m) = 0 /\ \A i \in 1 .. Len(headers) : FoldName[headers[i].name] # FoldName[m]
      \/ /\ AtName(m) \in 1 .. Len(headers) /\ FoldName[headers[AtName(m)].name] = FoldName[m]
         /\ \A i \in 1 .. Len(headers) : FoldName[headers[i].name] = FoldName[m] => AtName(m) <= i
  BY AtNameIsFirst DEF IsFirst
<1>10. CASE AtName(m) = 0
  <2>1. \A i \in 1 .. Len(headers) : FoldName[headers[i].name] # FoldName[m]
    BY <1>2, <1>9, <1>10
  <2>2. SentOf(m) = {}
    BY <1>5, <1>8, <2>1
  <2>3. QED
    BY <1>7, <1>10, <2>2 DEF Right
<1>11. CASE AtName(m) # 0
  <2> DEFINE a == AtName(m)
             c == FirstOf(SentOf(m))
  <2>1. a \in 1 .. Len(headers) /\ FoldName[headers[a].name] = FoldName[m]
        /\ \A i \in 1 .. Len(headers) : FoldName[headers[i].name] = FoldName[m] => a <= i
    BY <1>9, <1>11
  <2> HIDE DEF a
  <2>2. PICK k \in HeadLines : Place(H, k) = a
    BY <1>6, <2>1
  <2>3. k \in SentOf(m)
    BY <1>5, <1>8, <2>1, <2>2
  <2>4. ASSUME NEW j \in SentOf(m) PROVE k <= j
    <3>1. j \in HeadLines /\ j \in H /\ k \in H /\ a <= Place(H, j)
      BY <1>5, <1>8, <2>1, <2>2
    <3>2. QED
      BY <1>1, <2>2, <3>1, PlacesInOrder
  <2>5. c \in SentOf(m) /\ \A j \in SentOf(m) : c <= j
    BY <2>3, <2>4 DEF FirstOf
  <2> HIDE DEF c
  <2>6. c = k
    <3>1. c \in Nat /\ k \in Nat /\ c <= k /\ k <= c
      BY <1>4, <1>5, <1>8, <2>3, <2>4, <2>5
    <3>2. QED
      BY <3>1
  <2>7. headers[a].value = received[c].value
    BY <1>5, <2>2, <2>6
  <2>8. QED
    BY <1>7, <1>11, <2>3, <2>7 DEF Right, a, c
<1>12. QED
  BY <1>10, <1>11

LEMMA EndStepOfHeaders ==
  ASSUME HeadersInv, LinesEnd
  PROVE  HeadersInv'
<1>1. /\ ~parsed /\ (lines # <<>> => ~Head(lines).ended) /\ parsed' = TRUE
      /\ UNCHANGED <<lines, headers, received, sets>>
      /\ received \in Buffers /\ AnySeq(headers) /\ Records(headers) /\ Len(headers) <= MaxHeaders /\ sets = <<>>
  BY DEF LinesEnd, HeadersInv, HeadersTypeOK
<1>2. /\ Len(received) \in Nat /\ \A i \in 1 .. Len(received) - 1 : received[i].ended
      /\ HeaderLines \in SUBSET (1 .. Len(received)) /\ \A i \in HeaderLines : IsHeader(received[i])
  BY <1>1, HeaderLinesKnown
<1>3. PICK n \in 0 .. Len(received) : LinesRead(n) /\ (BodyHasNoHeader => Stored(n))
  BY <1>1 DEF HeadersInv
<1>4. /\ Len(lines) = Len(received) - n /\ \A i \in 1 .. Len(lines) : lines[i] = received[n + i]
      /\ lines \in Seq(ToSet(received))
  BY <1>3 DEF LinesRead
<1>5. \A i \in HeaderLines : i <= n
  <2>1. CASE lines = <<>>
    BY <1>2, <1>4, <2>1
  <2>2. CASE lines # <<>>
    <3>1. Len(lines) > 0 /\ Head(lines) = lines[1]
      BY <1>4, <2>2
    <3>2. lines[1] = received[n + 1] /\ n + 1 \in 1 .. Len(received)
      BY <1>2, <1>4, <3>1
    <3>3. ~received[n + 1].ended
      BY <1>1, <2>2, <3>1, <3>2
    <3>4. n + 1 = Len(received)
      BY <1>2, <3>2, <3>3
    <3>5. n + 1 \notin HeaderLines
      BY <1>2, <3>3 DEF IsHeader
    <3>6. QED
      BY <1>2, <3>4, <3>5
  <2>3. QED
    BY <2>1, <2>2
<1>6. ASSUME NoCutNameIsAsked, BodyHasNoHeader, NEW m \in Asked PROVE Right(m)
  BY <1>1, <1>3, <1>5, <1>6, RightAtTheEnd
<1>7. (BodyHasNoHeader' <=> BodyHasNoHeader) /\ \A m \in Asked : Right(m)' <=> Right(m)
  BY <1>1 DEF BodyHasNoHeader, Right, AtName, SetOf, SentOf, HeadLines, HeaderLines
<1>8. HeadersTypeOK'
  BY <1>1 DEF HeadersInv, HeadersTypeOK
<1>9. LinesRead(n)'
  BY <1>1, <1>3 DEF LinesRead
<1>10. \E k \in 0 .. Len(received') : LinesRead(k)' /\ (~parsed' /\ BodyHasNoHeader' => Stored(k)')
  BY <1>1, <1>9
<1>11. QED
  BY <1>1, <1>6, <1>7, <1>8, <1>10 DEF HeadersInv

LEMMA OneFirst ==
  ASSUME NEW s, AnySeq(s), NEW m, NEW a, NEW b, IsFirst(a, s, m), IsFirst(b, s, m)
  PROVE  a = b
<1>1. Len(s) \in Nat
  BY AnyLength
<1>2. CASE a = 0
  BY <1>1, <1>2 DEF IsFirst
<1>3. CASE a # 0
  <2>1. a \in Nat /\ b \in Nat /\ a <= b /\ b <= a
    BY <1>1, <1>3 DEF IsFirst
  <2>2. QED
    BY <2>1
<1>4. QED
  BY <1>2, <1>3

\* Another call of cHTTPX_HeaderSet: the last one counts.
LEMMA SetsGrow ==
  ASSUME AnySeq(sets), NEW name, NEW value, sets' = Append(sets, [name |-> name, value |-> value]), NEW m
  PROVE  /\ FoldName[name] = FoldName[m] =>
              /\ SetOf(m)' # {}
              /\ sets'[LastOf(SetOf(m)')].value = value
         /\ FoldName[name] # FoldName[m] =>
              /\ SetOf(m)' = SetOf(m)
              /\ SetOf(m) # {} =>
                   sets'[LastOf(SetOf(m)')].value
                     = sets[LastOf(SetOf(m))].value
<1> DEFINE c == [name |-> name, value |-> value]
           T == {i \in DOMAIN sets' : FoldName[sets'[i].name] = FoldName[m]}
           S == SetOf(m)
           l == Len(sets) + 1
<1>1. /\ AnySeq(sets') /\ Len(sets') = l /\ sets'[l] = c /\ \A i \in 1 .. Len(sets) : sets'[i] = sets[i]
      /\ Len(sets) \in Nat /\ DOMAIN sets' = 1 .. l /\ DOMAIN sets = 1 .. Len(sets)
  <2>1. /\ AnySeq(Append(sets, c)) /\ Len(Append(sets, c)) = Len(sets) + 1 /\ Append(sets, c)[Len(sets) + 1] = c
        /\ \A i \in 1 .. Len(sets) : Append(sets, c)[i] = sets[i]
    <3> HIDE DEF c
    <3>1. QED
      BY AppendedOne
  <2>2. sets' = Append(sets, c)
    OBVIOUS
  <2>3. AnySeq(sets') /\ Len(sets') = l /\ sets'[l] = c /\ \A i \in 1 .. Len(sets) : sets'[i] = sets[i]
    <3> HIDE DEF c
    <3>1. QED
      BY <2>1, <2>2
  <2>4. QED
    BY <2>3, AnyLength
<1>2. SetOf(m)' = T
  BY DEF SetOf
<1>3. \A i : i \in S <=> i \in 1 .. Len(sets) /\ FoldName[sets[i].name] = FoldName[m]
  BY <1>1 DEF SetOf
<1>4. c.name = name /\ c.value = value
  OBVIOUS
<1>5. \A i : i \in T <=> i \in 1 .. l /\ FoldName[sets'[i].name] = FoldName[m]
  BY <1>1
<1> HIDE DEF T, c, S
<1>6. CASE FoldName[name] = FoldName[m]
  <2> DEFINE g == LastOf(T)
  <2>1. l \in T /\ \A j \in T : l >= j
    BY <1>1, <1>4, <1>5, <1>6
  <2>2. g \in T /\ \A j \in T : g >= j
    BY <2>1 DEF LastOf
  <2> HIDE DEF g
  <2>3. g = l
    <3>1. g \in Nat /\ l \in Nat /\ g >= l /\ l >= g
      BY <1>1, <1>5, <2>1, <2>2
    <3>2. QED
      BY <3>1
  <2>4. sets'[g].value = value
    BY <1>1, <1>4, <2>3
  <2>5. QED
    BY <1>2, <1>6, <2>1, <2>4 DEF g
<1>7. CASE FoldName[name] # FoldName[m]
  <2>1. T = S
    <3>1. ASSUME NEW i PROVE i \in T <=> i \in S
      <4>1. CASE i = l
        BY <1>1, <1>3, <1>4, <1>5, <1>7, <4>1
      <4>2. CASE i # l
        <5>1. i \in 1 .. l <=> i \in 1 .. Len(sets)
          BY <1>1, <4>2
        <5>2. QED
          BY <1>1, <1>3, <1>5, <5>1
      <4>3. QED
        BY <4>1, <4>2
    <3>2. QED
      BY <3>1
  <2> DEFINE g == LastOf(S)
  <2>2. ASSUME S # {} PROVE sets'[g].value = sets[g].value
    <3>1. S \in SUBSET (1 .. Len(sets))
      BY <1>3
    <3>2. g \in S
      <4>1. \E n \in S : \A k \in S : k <= n
        BY <1>1, <2>2, <3>1, Greatest
      <4>2. \E n \in S : \A k \in S : n >= k
        BY <1>1, <3>1, <4>1
      <4>3. QED
        BY <4>2 DEF LastOf
    <3> HIDE DEF g
    <3>3. QED
      BY <1>1, <3>1, <3>2
  <2>3. QED
    BY <1>2, <1>7, <2>1, <2>2 DEF g, S
<1>8. QED
  BY <1>6, <1>7

\* What a call leaves of the headers, and where it puts its value.
LEMMA SetStepOfHeaders ==
  ASSUME HeadersInv, NEW name \in NamesAsked, NEW value, HeaderSet(name, value)
  PROVE  /\ AnySeq(headers') /\ Records(headers') /\ Len(headers') <= MaxHeaders
         /\ NoCutNameIsAsked => \A m \in Asked :
              /\ FoldName[name] = FoldName[m] => AtName(m)' # 0 /\ headers'[AtName(m)'].value = value
              /\ FoldName[name] # FoldName[m] =>
                   AtName(m)' = AtName(m) /\ (AtName(m) # 0 => headers'[AtName(m)'].value = headers[AtName(m)].value)
<1> DEFINE a == AtName(name)
           l == Len(headers) + 1
<1>1. /\ AnySeq(headers) /\ Records(headers) /\ Len(headers) \in Nat /\ DOMAIN headers = 1 .. Len(headers)
      /\ Len(headers) <= MaxHeaders /\ MaxHeaders \in Nat /\ name \in DOMAIN CutName
  BY AnyLength, RequestHeadersAssumption DEF HeadersInv, HeadersTypeOK
<1>2. IsFirst(a, headers, name) /\ \A m : IsFirst(AtName(m), headers, m)
  BY <1>1, AtNameIsFirst
<1>3. ASSUME AnySeq(headers'), NEW m PROVE IsFirst(AtName(m)', headers', m)
  BY <1>3, FirstOfName, Zenon DEF AtName
<1>4. ASSUME AnySeq(headers'), NEW m, NEW b, IsFirst(b, headers', m) PROVE AtName(m)' = b
  BY <1>3, <1>4, OneFirst
<1>5. CASE a # 0 /\ headers' = [headers EXCEPT ![a].value = value]
  <2>1. a \in 1 .. Len(headers) /\ FoldName[headers[a].name] = FoldName[name]
    BY <1>2, <1>5 DEF IsFirst
  <2> HIDE DEF a
  <2>2. AnySeq(headers') /\ Len(headers') = Len(headers) /\ DOMAIN headers' = 1 .. Len(headers)
    <3>1. PICK S : headers \in Seq(S)
      BY <1>1 DEF AnySeq
    <3> DEFINE x == [headers[a] EXCEPT !.value = value]
    <3>2. headers \in Seq(S \cup {x})
      BY <3>1, SeqMonotonic
    <3>3. headers' = [headers EXCEPT ![a] = x]
      BY <1>5
    <3> HIDE DEF x
    <3>4. headers' \in Seq(S \cup {x}) /\ Len(headers') = Len(headers)
      BY <2>1, <3>2, <3>3
    <3>5. AnySeq(headers')
      BY <3>4 DEF AnySeq
    <3>6. QED
      BY <3>4, <3>5
  <2>3. headers'[a] = [name |-> headers[a].name, value |-> value]
    <3>1. headers'[a] = [headers[a] EXCEPT !.value = value]
      BY <1>1, <1>5, <2>1
    <3>2. headers[a] = [name |-> headers[a].name, value |-> headers[a].value]
      BY <1>1, <2>1 DEF Records
    <3>3. QED
      BY <3>1, <3>2
  <2>4. \A i \in 1 .. Len(headers) : i # a => headers'[i] = headers[i]
    BY <1>1, <1>5
  <2>5. Records(headers')
    BY <1>1, <2>2, <2>3, <2>4 DEF Records
  <2>6. \A i \in 1 .. Len(headers) : headers'[i].name = headers[i].name
    BY <2>3, <2>4
  <2>7. ASSUME NEW m PROVE AtName(m)' = AtName(m)
    <3>1. IsFirst(AtName(m), headers', m)
      BY <1>2, <2>2, <2>6 DEF IsFirst
    <3>2. QED
      BY <1>4, <2>2, <3>1
  <2>8. ASSUME NEW m, FoldName[name] = FoldName[m] PROVE AtName(m) = a
    BY <1>1, <2>8, <1>2, OneFirst DEF IsFirst
  <2>9. ASSUME NEW m, FoldName[name] # FoldName[m], AtName(m) # 0 PROVE headers'[AtName(m)] = headers[AtName(m)]
    <3>1. AtName(m) \in 1 .. Len(headers) /\ AtName(m) # a
      BY <1>2, <2>1, <2>9 DEF IsFirst
    <3>2. QED
      BY <2>4, <3>1
  <2>10. QED
    BY <1>1, <1>5, <2>2, <2>3, <2>5, <2>7, <2>8, <2>9
<1>6. CASE a = 0 /\ Len(headers) < MaxHeaders /\ headers' = Append(headers, [name |-> CutName[name], value |-> value])
  <2> DEFINE h == [name |-> CutName[name], value |-> value]
  <2>1. h.name = CutName[name] /\ h.value = value /\ h = [name |-> h.name, value |-> h.value]
    OBVIOUS
  <2>2. headers' = Append(headers, h)
    BY <1>6
  <2> HIDE DEF h
  <2>3. /\ AnySeq(headers') /\ Len(headers') = l /\ headers'[l] = h /\ Records(headers')
        /\ \A i \in 1 .. Len(headers) : headers'[i] = headers[i]
    <3>1. /\ AnySeq(Append(headers, h)) /\ Len(Append(headers, h)) = Len(headers) + 1
          /\ Append(headers, h)[Len(headers) + 1] = h
          /\ \A i \in 1 .. Len(headers) : Append(headers, h)[i] = headers[i]
      BY <1>1, AppendedOne
    <3>2. Records(Append(headers, h))
      BY <1>1, <2>1, RecordAppended
    <3>3. QED
      BY <2>2, <3>1, <3>2
  <2>4. \A i \in 1 .. Len(headers) : FoldName[headers[i].name] # FoldName[name]
    BY <1>1, <1>2, <1>6 DEF IsFirst
  <2>5. ASSUME NoCutNameIsAsked, NEW m \in Asked, FoldName[name] = FoldName[m] PROVE AtName(m)' = l
    <3>1. FoldName[h.name] = FoldName[m]
      BY <1>1, <2>1, <2>5, CutKeepsName
    <3>2. l \in 1 .. Len(headers') /\ FoldName[headers'[l].name] = FoldName[m]
      BY <1>1, <2>3, <3>1
    <3>3. ASSUME NEW i \in 1 .. Len(headers'), FoldName[headers'[i].name] = FoldName[m] PROVE l <= i
      <4>1. i \notin 1 .. Len(headers)
        BY <2>3, <2>4, <2>5, <3>3
      <4>2. QED
        BY <1>1, <2>3, <3>3, <4>1
    <3>4. IsFirst(l, headers', m)
      BY <3>2, <3>3 DEF IsFirst
    <3>5. QED
      BY <1>4, <2>3, <3>4
  <2>6. ASSUME NoCutNameIsAsked, NEW m \in Asked, FoldName[name] # FoldName[m] PROVE AtName(m)' = AtName(m)
    <3>1. FoldName[h.name] # FoldName[m]
      BY <1>1, <2>1, <2>6, CutKeepsName
    <3>2. \A i \in 1 .. Len(headers') : i \in 1 .. Len(headers) \/ i = l
      BY <1>1, <2>3
    <3>3. CASE AtName(m) = 0
      <4>1. \A i \in 1 .. Len(headers) : FoldName[headers[i].name] # FoldName[m]
        BY <1>1, <1>2, <3>3 DEF IsFirst
      <4>2. \A i \in 1 .. Len(headers') : FoldName[headers'[i].name] # FoldName[m]
        BY <2>3, <3>1, <3>2, <4>1
      <4>3. IsFirst(AtName(m), headers', m)
        BY <3>3, <4>2 DEF IsFirst
      <4>4. QED
        BY <1>4, <2>3, <4>3
    <3>4. CASE AtName(m) # 0
      <4> DEFINE b == AtName(m)
      <4>1. b \in 1 .. Len(headers) /\ FoldName[headers[b].name] = FoldName[m]
            /\ \A i \in 1 .. Len(headers) : FoldName[headers[i].name] = FoldName[m] => b <= i
        BY <1>2, <3>4 DEF IsFirst
      <4> HIDE DEF b
      <4>2. b \in 1 .. Len(headers') /\ FoldName[headers'[b].name] = FoldName[m]
        BY <1>1, <2>3, <4>1
      <4>3. ASSUME NEW i \in 1 .. Len(headers'), FoldName[headers'[i].name] = FoldName[m] PROVE b <= i
        <5>1. i \in 1 .. Len(headers)
          BY <2>3, <3>1, <3>2, <4>3
        <5>2. QED
          BY <2>3, <4>1, <4>3, <5>1
      <4>4. IsFirst(b, headers', m)
        BY <4>2, <4>3 DEF IsFirst
      <4>5. QED
        BY <1>4, <2>3, <4>4 DEF b
    <3>5. QED
      BY <3>3, <3>4
  <2>7. ASSUME NEW m, AtName(m) # 0 PROVE headers'[AtName(m)] = headers[AtName(m)]
    <3>1. AtName(m) \in 1 .. Len(headers)
      BY <1>2, <2>7 DEF IsFirst
    <3>2. QED
      BY <2>3, <3>1
  <2>8. Len(headers') <= MaxHeaders
    BY <1>1, <1>6, <2>3
  <2>9. l # 0
    BY <1>1
  <2>10. QED
    BY <2>1, <2>3, <2>5, <2>6, <2>7, <2>8, <2>9
<1>7. QED
  BY <1>5, <1>6 DEF HeaderSet

LEMMA SetKeepsHeaders ==
  ASSUME HeadersInv, NEW name \in NamesAsked, NEW value, HeaderSet(name, value)
  PROVE  HeadersInv'
<1> DEFINE c == [name |-> name, value |-> value]
<1>1. parsed /\ UNCHANGED <<lines, parsed, received>> /\ sets' = Append(sets, c) /\ received \in Buffers /\ AnySeq(sets)
  BY DEF HeaderSet, HeadersInv
<1>2. /\ AnySeq(headers') /\ Records(headers') /\ Len(headers') <= MaxHeaders
      /\ NoCutNameIsAsked => \A m \in Asked :
           /\ FoldName[name] = FoldName[m] => AtName(m)' # 0 /\ headers'[AtName(m)'].value = value
           /\ FoldName[name] # FoldName[m] =>
                AtName(m)' = AtName(m) /\ (AtName(m) # 0 => headers'[AtName(m)'].value = headers[AtName(m)].value)
  BY SetStepOfHeaders
<1>3. (BodyHasNoHeader' <=> BodyHasNoHeader) /\ \A m : SentOf(m)' = SentOf(m)
  BY <1>1 DEF BodyHasNoHeader, SentOf, HeadLines, HeaderLines
<1>4. ASSUME NoCutNameIsAsked, BodyHasNoHeader, NEW m \in Asked PROVE Right(m)'
  <2> DEFINE last == LastOf(SetOf(m)')
             before == LastOf(SetOf(m))
             sent == FirstOf(SentOf(m))
  <2>1. Right(m)
    BY <1>1, <1>4 DEF HeadersInv
  <2>2. /\ FoldName[name] = FoldName[m] => SetOf(m)' # {} /\ sets'[last].value = value
        /\ FoldName[name] # FoldName[m] =>
             SetOf(m)' = SetOf(m) /\ (SetOf(m) # {} => sets'[last].value = sets[before].value)
    BY <1>1, SetsGrow
  <2>3. /\ AtName(m) = 0 <=> SetOf(m) = {} /\ SentOf(m) = {}
        /\ AtName(m) # 0 => headers[AtName(m)].value =
             IF SetOf(m) # {} THEN sets[before].value ELSE received[sent].value
    BY <2>1 DEF Right
  <2>4. Right(m)' <=> /\ AtName(m)' = 0 <=> SetOf(m)' = {} /\ SentOf(m) = {}
                      /\ AtName(m)' # 0 => headers'[AtName(m)'].value =
                           IF SetOf(m)' # {} THEN sets'[last].value ELSE received[sent].value
    BY <1>1, <1>3 DEF Right
  <2> HIDE DEF last, before, sent
  <2>5. CASE FoldName[name] = FoldName[m]
    BY <1>2, <1>4, <2>2, <2>4, <2>5
  <2>6. CASE FoldName[name] # FoldName[m]
    BY <1>2, <1>4, <2>2, <2>3, <2>4, <2>6
  <2>7. QED
    BY <2>5, <2>6
<1>5. HeadersTypeOK'
  BY <1>1, <1>2 DEF HeadersInv, HeadersTypeOK
<1>6. AnySeq(sets') /\ \A i \in 1 .. Len(sets') : sets'[i].name \in NamesAsked
  <2>1. c.name = name
    OBVIOUS
  <2> HIDE DEF c
  <2>2. /\ AnySeq(Append(sets, c)) /\ Len(Append(sets, c)) = Len(sets) + 1 /\ Append(sets, c)[Len(sets) + 1] = c
        /\ \A i \in 1 .. Len(sets) : Append(sets, c)[i] = sets[i]
    BY <1>1, AppendedOne
  <2>3. Len(sets) \in Nat /\ \A i \in 1 .. Len(sets) : sets[i].name \in NamesAsked
    BY <1>1, AnyLength DEF HeadersInv
  <2>4. QED
    BY <1>1, <2>1, <2>2, <2>3
<1>7. PICK n \in 0 .. Len(received) : LinesRead(n)
  BY DEF HeadersInv
<1>8. LinesRead(n)'
  BY <1>1, <1>7 DEF LinesRead
<1>9. \E k \in 0 .. Len(received') : LinesRead(k)' /\ (~parsed' /\ BodyHasNoHeader' => Stored(k)')
  BY <1>1, <1>8
<1>10. QED
  BY <1>1, <1>2, <1>3, <1>4, <1>5, <1>6, <1>9 DEF HeadersInv

LEMMA HeadersInvariant == HeadersSpec => []HeadersInv
<1>1. HeadersInit => HeadersInv
  BY HeadersStart
<1>2. HeadersInv /\ [HeadersNext]_headerVars => HeadersInv'
  <2> SUFFICES ASSUME HeadersInv, [HeadersNext]_headerVars PROVE HeadersInv'
    OBVIOUS
  <2>1. CASE ParseLine
    BY <2>1, ParseStepOfHeaders
  <2>2. CASE LinesEnd
    BY <2>2, EndStepOfHeaders
  <2>3. ASSUME NEW name \in NamesAsked, NEW value \in ValuesSet, HeaderSet(name, value) PROVE HeadersInv'
    BY <2>3, SetKeepsHeaders
  <2>4. CASE UNCHANGED headerVars
    <3>1. UNCHANGED <<lines, headers, parsed, received, sets>>
      BY <2>4 DEF headerVars
    <3>2. (BodyHasNoHeader' <=> BodyHasNoHeader) /\ HeaderLines' = HeaderLines /\ (HeadersTypeOK' <=> HeadersTypeOK)
      BY <3>1 DEF BodyHasNoHeader, HeaderLines, HeadersTypeOK
    <3>3. \A n : (LinesRead(n)' <=> LinesRead(n)) /\ (Stored(n)' <=> Stored(n))
      BY <3>1, <3>2 DEF LinesRead, Stored
    <3>4. \A m : Right(m)' <=> Right(m)
      BY <3>1 DEF Right, AtName, SetOf, SentOf, HeadLines, HeaderLines
    <3>5. QED
      BY <3>1, <3>2, <3>3, <3>4 DEF HeadersInv
  <2>5. QED
    BY <2>1, <2>2, <2>3, <2>4 DEF HeadersNext
<1>3. QED
  BY <1>1, <1>2, PTL DEF HeadersSpec

\* _parse_req_headers stays within headers[] and within what was received.
THEOREM HeadersType == HeadersSpec => []HeadersTypeOK
<1>1. HeadersInv => HeadersTypeOK
  BY DEF HeadersInv
<1>2. QED
  BY <1>1, HeadersInvariant, PTL

\* cHTTPX_HeaderGet gives the last value set, or else the first received, of a
\* name that fits, whatever other names have been set.
THEOREM GetExpected == ASSUME NoCutNameIsAsked PROVE HeadersSpec => []GetIsExpected
<1>1. HeadersInv => GetIsExpected
  <2> SUFFICES ASSUME HeadersInv, parsed, BodyHasNoHeader, NEW m \in Asked
               PROVE  HeaderGet(m) =
                        IF SetOf(m) # {} THEN sets[LastOf(SetOf(m))].value
                        ELSE IF SentOf(m) # {} THEN received[FirstOf(SentOf(m))].value
                        ELSE NoHeader
    BY Zenon DEF GetIsExpected, SetOf, SentOf, Asked, FirstOf, LastOf
  <2>1. Right(m)
    BY DEF HeadersInv
  <2>2. QED
    BY <2>1 DEF Right, HeaderGet
<1>2. QED
  BY <1>1, HeadersInvariant, PTL

-----------------------------------------------------------------------------
(***************************************************************************)
(* SharedParsers, for any number of requests, any numbers of pairs and any *)
(* size of the cookie table: the type of the state, however many requests  *)
(* are parsed at a time; and, when it is one at a time, that a request     *)
(* finds its own strings, although those before it left the buffer of the  *)
(* address and the position of strtok() as they happened to be.            *)
(***************************************************************************)

BeforeCookies == {"new", "ip", "ipwrite", "ipcopy", "cookie"}

Positions == [of : Threads, string : Strings, next : Nat]

\* strtok() goes on only in a string that some thread started.
TypeInv ==
  /\ TypeOK
  /\ cookies \in [Threads -> Seq(Tokens)]
  /\ query \in [Threads -> Seq(Tokens)]
  /\ \A t \in Threads : pc[t] \in {"cookies", "queries"} => saved \in Positions
  /\ \A t \in Threads : pc[t] \in BeforeCookies => cookies[t] = <<>>

-----------------------------------------------------------------------------
(***************************************************************************)
(* Types                                                                   *)
(***************************************************************************)

\* Wherever the position is, what is cut there is a token, and what is left a
\* position.
LEMMA CutType ==
  ASSUME pairs \in [Threads -> [Strings -> Lengths]], NEW p \in Positions, NEW s \in Strings
  PROVE  Cut(p, s).token \in Tokens /\ Cut(p, s).rest \in Positions
<1>1. /\ p.of \in Threads /\ p.string \in Strings /\ p.next \in Nat /\ p.next + 1 \in Nat
      /\ pairs[p.of][p.string] \in Nat /\ pairs[p.of][p.string] + 1 \in Nat
  <2>1. p.of \in Threads /\ p.string \in Strings /\ p.next \in Nat /\ p.next + 1 \in Nat
    BY DEF Positions
  <2>2. pairs[p.of][p.string] \in Lengths
    BY <2>1
  <2>3. PICK n \in Nat : n = pairs[p.of][p.string]
    BY <2>2, SharedParsersAssumption
  <2>4. QED
    BY <2>1, <2>3
<1> DEFINE to == IF p.string = s THEN p.next ELSE pairs[p.of][p.string]
           next == IF p.string = s THEN p.next + 1 ELSE pairs[p.of][p.string] + 1
<1>2. to \in Nat /\ next \in Nat
  BY <1>1
<1>3. [p EXCEPT !.next = next] \in Positions
  BY <1>2 DEF Positions
<1>4. [of |-> p.of, string |-> p.string, from |-> p.next, to |-> to] \in Tokens
  BY <1>1, <1>2 DEF Tokens
<1>5. /\ Cut(p, s).token = [of |-> p.of, string |-> p.string, from |-> p.next, to |-> to]
      /\ Cut(p, s).rest = [p EXCEPT !.next = next]
  BY DEF Cut
<1>6. QED
  BY <1>3, <1>4, <1>5

\* The beginning of a string is a position.
LEMMA StartType ==
  ASSUME NEW t \in Threads, NEW s \in Strings
  PROVE  StartOf(t, s) \in Positions
BY DEF StartOf, Positions

\* One more cookie or parameter.
LEMMA Appended ==
  ASSUME NEW f \in [Threads -> Seq(Tokens)], NEW t \in Threads, NEW x \in Tokens
  PROVE  /\ [f EXCEPT ![t] = Append(@, x)] \in [Threads -> Seq(Tokens)]
         /\ [f EXCEPT ![t] = Append(@, x)][t] = Append(f[t], x)
         /\ Len(Append(f[t], x)) = Len(f[t]) + 1
         /\ \A u \in Threads \ {t} : [f EXCEPT ![t] = Append(@, x)][u] = f[u]
BY AppendProperties

LEMMA TypeStep == ASSUME TypeInv, [Next]_vars PROVE TypeInv'
<1> USE DEF Goto
<1>1. MaxCookies \in Nat /\ MaxCookies >= 1 /\ {"cookie", "query"} = Strings
  BY SharedParsersAssumption DEF Strings
<1>2. CASE UNCHANGED vars
  BY <1>2 DEF vars, TypeInv, TypeOK
<1>3. ASSUME NEW t \in Threads,
             \/ Start(t) \/ PeerUnknown(t) \/ WriteIp(t) \/ WroteIp(t) \/ CopyIp(t)
             \/ NoCookieHeader(t) \/ NoQuery(t) \/ QueriesDone(t) \/ Finish(t)
      PROVE  TypeInv'
  <2>1. /\ UNCHANGED <<pairs, saved, cookies, query>>
        /\ \E to \in (Active \cup {"done"}) \ {"cookies", "queries"} : pc' = [pc EXCEPT ![t] = to]
        /\ pc'[t] \in BeforeCookies => pc[t] \in BeforeCookies
    BY <1>3 DEF Start, PeerUnknown, WriteIp, WroteIp, CopyIp, NoCookieHeader, NoQuery, QueriesDone,
      Finish, Active, BeforeCookies, TypeInv, TypeOK
  <2>2. ipBuf' \in Threads \cup {Unknown, Torn}
    BY <1>3 DEF Start, PeerUnknown, WriteIp, WroteIp, CopyIp, NoCookieHeader, NoQuery, QueriesDone,
      Finish, TypeInv, TypeOK
  <2>3. returned' \in [Threads -> {"none", "dash", "buffer"}]
    BY <1>3 DEF Start, PeerUnknown, WriteIp, WroteIp, CopyIp, NoCookieHeader, NoQuery, QueriesDone,
      Finish, TypeInv, TypeOK
  <2>4. clientIp' \in [Threads -> Threads \cup {Unknown, Torn}]
    <3>1. CASE CopyIp(t)
      <4>1. PICK x \in Threads \cup {Unknown, Torn} : clientIp' = [clientIp EXCEPT ![t] = x]
        BY <3>1 DEF CopyIp, TypeInv, TypeOK
      <4>2. QED
        BY <4>1 DEF TypeInv, TypeOK
    <3>2. CASE ~CopyIp(t)
      BY <1>3, <3>2 DEF Start, PeerUnknown, WriteIp, WroteIp, NoCookieHeader, NoQuery, QueriesDone,
        Finish, TypeInv, TypeOK
    <3>3. QED
      BY <3>1, <3>2
  <2>5. pc' \in [Threads -> Active \cup {"new", "done"}]
    BY <2>1 DEF TypeInv, TypeOK
  <2>6. TypeOK'
    BY <2>1, <2>2, <2>3, <2>4, <2>5 DEF TypeInv, TypeOK
  <2>7. \A u \in Threads :
          /\ pc'[u] \in {"cookies", "queries"} => pc[u] \in {"cookies", "queries"}
          /\ pc'[u] \in BeforeCookies => pc[u] \in BeforeCookies
    BY <2>1 DEF TypeInv, TypeOK
  <2>8. QED
    BY <2>1, <2>6, <2>7 DEF TypeInv
<1>4. ASSUME NEW t \in Threads, FirstCookie(t) \/ NextCookie(t) PROVE TypeInv'
  <2>1. PICK p \in Positions :
          /\ cookies' = [cookies EXCEPT ![t] = Append(@, Cut(p, "cookie").token)]
          /\ saved' = Cut(p, "cookie").rest
    <3>1. CASE FirstCookie(t)
      BY <1>1, <3>1, StartType DEF FirstCookie
    <3>2. CASE NextCookie(t)
      BY <3>2 DEF NextCookie, TypeInv
    <3>3. QED
      BY <1>4, <3>1, <3>2
  <2>2. pairs \in [Threads -> [Strings -> Lengths]] /\ cookies \in [Threads -> Seq(Tokens)]
    BY DEF TypeInv, TypeOK
  <2>3. Cut(p, "cookie").token \in Tokens /\ saved' \in Positions
    BY <1>1, <2>1, <2>2, CutType
  <2>4. Len(cookies[t]) + 1 <= MaxCookies
    <3>1. CASE FirstCookie(t)
      BY <1>1, <3>1 DEF FirstCookie, TypeInv, BeforeCookies
    <3>2. CASE NextCookie(t)
      BY <1>1, <2>2, <3>2 DEF NextCookie
    <3>3. QED
      BY <1>4, <3>1, <3>2
  <2>5. /\ cookies' \in [Threads -> Seq(Tokens)] /\ Len(cookies'[t]) <= MaxCookies
        /\ \A u \in Threads \ {t} : cookies'[u] = cookies[u]
    BY <2>1, <2>2, <2>3, <2>4, Appended
  <2>6. /\ UNCHANGED <<pairs, ipBuf, returned, clientIp, query>>
        /\ pc' = [pc EXCEPT ![t] = "cookies"]
    BY <1>4 DEF FirstCookie, NextCookie, TypeInv, TypeOK
  <2>7. pc' \in [Threads -> Active \cup {"new", "done"}]
    BY <2>6 DEF TypeInv, TypeOK, Active
  <2>8. \A u \in Threads : cookies'[u] \in Seq(Tokens) /\ Len(cookies'[u]) <= MaxCookies
    BY <2>5 DEF TypeInv, TypeOK
  <2>9. saved' \in [of : Threads \cup {Unknown}, string : Strings, next : Nat]
    BY <2>3 DEF Positions
  <2>10. TypeOK'
    BY <2>6, <2>7, <2>8, <2>9 DEF TypeInv, TypeOK
  <2>11. \A u \in Threads : pc'[u] \in BeforeCookies => cookies'[u] = <<>>
    BY <2>5, <2>6 DEF TypeInv, TypeOK, BeforeCookies
  <2>12. QED
    BY <2>3, <2>5, <2>6, <2>10, <2>11 DEF TypeInv
<1>5. ASSUME NEW t \in Threads, CookiesDone(t) PROVE TypeInv'
  <2>1. saved \in Positions /\ pairs \in [Threads -> [Strings -> Lengths]]
    BY <1>5 DEF CookiesDone, TypeInv, TypeOK
  <2>2. saved' \in Positions
    BY <1>1, <1>5, <2>1, CutType DEF CookiesDone
  <2>3. saved' \in [of : Threads \cup {Unknown}, string : Strings, next : Nat]
    BY <2>2 DEF Positions
  <2>4. pc' = [pc EXCEPT ![t] = "query"] /\ UNCHANGED <<pairs, ipBuf, returned, clientIp, cookies, query>>
    BY <1>5 DEF CookiesDone
  <2>5. QED
    BY <2>2, <2>3, <2>4 DEF TypeInv, TypeOK, Active, BeforeCookies
<1>6. ASSUME NEW t \in Threads, FirstQuery(t) \/ NextQuery(t) PROVE TypeInv'
  <2>1. PICK p \in Positions :
          /\ query' = [query EXCEPT ![t] = Append(@, Cut(p, "query").token)]
          /\ saved' = Cut(p, "query").rest
    <3>1. CASE FirstQuery(t)
      BY <1>1, <3>1, StartType DEF FirstQuery
    <3>2. CASE NextQuery(t)
      BY <3>2 DEF NextQuery, TypeInv
    <3>3. QED
      BY <1>6, <3>1, <3>2
  <2>2. pairs \in [Threads -> [Strings -> Lengths]] /\ query \in [Threads -> Seq(Tokens)]
    BY DEF TypeInv, TypeOK
  <2>3. Cut(p, "query").token \in Tokens /\ saved' \in Positions
    BY <1>1, <2>1, <2>2, CutType
  <2>4. query' \in [Threads -> Seq(Tokens)]
    BY <2>1, <2>2, <2>3, Appended
  <2>5. saved' \in [of : Threads \cup {Unknown}, string : Strings, next : Nat]
    BY <2>3 DEF Positions
  <2>6. /\ UNCHANGED <<pairs, ipBuf, returned, clientIp, cookies>>
        /\ pc' = [pc EXCEPT ![t] = "queries"]
    BY <1>6 DEF FirstQuery, NextQuery, TypeInv, TypeOK
  <2>7. QED
    BY <2>3, <2>4, <2>5, <2>6 DEF TypeInv, TypeOK, Active, BeforeCookies
<1>7. QED
  BY <1>2, <1>3, <1>4, <1>5, <1>6 DEF Next, Step

\* Every variable keeps its type and req->cookies its bounds, however many
\* requests share the position of strtok().
LEMMA TypeInvariant == Spec => []TypeInv
<1>1. Init => TypeInv
  BY SharedParsersAssumption DEF Init, TypeInv, TypeOK, Strings
<1>2. QED
  BY <1>1, TypeStep, PTL DEF Spec

\* However many requests are parsed at a time, and wherever their tokens come
\* from, no request gets more cookies than its array has room for.
THEOREM StringsType == Spec => []TypeOK
<1>1. TypeInv => TypeOK
  BY DEF TypeInv
<1>2. QED
  BY <1>1, TypeInvariant, PTL

-----------------------------------------------------------------------------
(***************************************************************************)
(* One request at a time                                                   *)
(***************************************************************************)

\* No two requests are served at a time.
OneInv == \A t, u \in Threads : pc[t] \in Active /\ pc[u] \in Active => t = u

\* The position after the first n pairs.
After(t, s, n) == [of |-> t, string |-> s, next |-> n + 1]

\* What a thread has when it is alone.  The loops of the two parsers have cut
\* the first n pairs of their string, and strtok() stands behind them.
ThreadInv(t) ==
  /\ clientIp[t] \in {t, Unknown}
  /\ pc[t] = "ipcopy" /\ returned[t] = "buffer" => ipBuf = t
  /\ pc[t] \in BeforeCookies \cup {"cookies", "query"} => query[t] = <<>>
  /\ pc[t] = "cookies" =>
       \E n \in 1 .. Fewer(MaxCookies, pairs[t]["cookie"]) :
         cookies[t] = Cuts(t, "cookie", n) /\ saved = After(t, "cookie", n)
  /\ pc[t] \in {"query", "queries", "handler"} =>
       cookies[t] = Cuts(t, "cookie", Fewer(MaxCookies, pairs[t]["cookie"]))
  /\ pc[t] = "queries" =>
       \E n \in 1 .. pairs[t]["query"] :
         query[t] = Cuts(t, "query", n) /\ saved = After(t, "query", n)
  /\ pc[t] = "handler" => query[t] = Cuts(t, "query", pairs[t]["query"])

AloneInv == TypeInv /\ OneInv /\ \A t \in Threads : ThreadInv(t)

\* The number of pairs of a string.
LEMMA PairsNat ==
  ASSUME TypeInv, NEW t \in Threads, NEW s \in Strings
  PROVE  pairs[t][s] \in Nat
<1>1. pairs[t][s] \in Lengths
  BY DEF TypeInv, TypeOK
<1>2. QED
  BY <1>1, SharedParsersAssumption

\* Fewer is a number, and neither of the two is less.
LEMMA FewerType ==
  ASSUME NEW m \in Nat, NEW n \in Nat
  PROVE  Fewer(m, n) \in Nat /\ Fewer(m, n) <= m /\ Fewer(m, n) <= n /\ Fewer(m, n) \in {m, n}
BY DEF Fewer

\* Before the first pair there is nothing, and one more pair is one more token.
LEMMA CutsGrow ==
  ASSUME NEW t \in Threads, NEW s \in Strings, NEW n \in Nat
  PROVE  /\ Cuts(t, s, 0) = <<>>
         /\ Len(Cuts(t, s, n)) = n
         /\ Append(Cuts(t, s, n), Cut(After(t, s, n), s).token) = Cuts(t, s, n + 1)
         /\ Cut(After(t, s, n), s).rest = After(t, s, n + 1)
<1> DEFINE token(i) == [of |-> t, string |-> s, from |-> i, to |-> i]
<1>1. \A i \in Nat : token(i) \in Tokens
  BY DEF Tokens
<1>2. Cuts(t, s, 0) = <<>>
  BY DEF Cuts
<1>3. Cuts(t, s, n) \in Seq(Tokens) /\ Len(Cuts(t, s, n)) = n
  BY <1>1 DEF Cuts
<1>4. Cut(After(t, s, n), s).token = token(n + 1) /\ Cut(After(t, s, n), s).rest = After(t, s, n + 1)
  BY DEF Cut, After
<1>5. Append(Cuts(t, s, n), token(n + 1)) = Cuts(t, s, n + 1)
  <2> DEFINE q == Append(Cuts(t, s, n), token(n + 1))
  <2>1. q \in Seq(Tokens) /\ Len(q) = n + 1 /\ q[n + 1] = token(n + 1)
        /\ \A i \in 1 .. n : q[i] = Cuts(t, s, n)[i]
    BY <1>1, <1>3, AppendProperties
  <2>2. \A i \in 1 .. n : Cuts(t, s, n)[i] = token(i)
    BY DEF Cuts
  <2>3. q = [i \in 1 .. n + 1 |-> q[i]]
    BY <2>1
  <2>4. \A i \in 1 .. n + 1 : q[i] = token(i)
    BY <2>1, <2>2
  <2>5. QED
    BY <2>3, <2>4 DEF Cuts
<1>6. QED
  BY <1>2, <1>3, <1>4, <1>5

\* The others are not being served while a request takes a step, or starts.
LEMMA OthersIdle ==
  ASSUME MaxActive <= 1, IsFiniteSet(Threads), TypeInv, OneInv, NEW t \in Threads, Step(t)
  PROVE  /\ \A u \in Threads \ {t} : pc[u] \notin Active /\ pc'[u] = pc[u]
         /\ pc' \in [Threads -> Active \cup {"new", "done"}]
<1>1. pc' \in [Threads -> Active \cup {"new", "done"}] /\ \A u \in Threads \ {t} : pc'[u] = pc[u]
  BY DEF Step, Start, PeerUnknown, WriteIp, WroteIp, CopyIp, NoCookieHeader, FirstCookie, NextCookie,
    CookiesDone, NoQuery, FirstQuery, NextQuery, QueriesDone, Finish, Goto, Active, TypeInv, TypeOK
<1>2. CASE Start(t)
  <2> DEFINE served == {u \in Threads : pc[u] \in Active}
  <2>1. IsFiniteSet(served)
    BY FS_Subset
  <2>2. Cardinality(served) \in Nat /\ Cardinality(served) < 1
    BY <1>2, <2>1, FS_CardinalityType, SharedParsersAssumption DEF Start
  <2>3. served = {}
    BY <2>1, <2>2, FS_EmptySet
  <2>4. QED
    BY <1>1, <2>3
<1>3. CASE ~Start(t)
  <2>1. pc[t] \in Active
    BY <1>3 DEF Step, PeerUnknown, WriteIp, WroteIp, CopyIp, NoCookieHeader, FirstCookie, NextCookie,
      CookiesDone, NoQuery, FirstQuery, NextQuery, QueriesDone, Finish, Goto, Active
  <2>2. QED
    BY <1>1, <2>1 DEF OneInv
<1>4. QED
  BY <1>2, <1>3

\* A thread that is not being served keeps what it has.
LEMMA OthersKeep ==
  ASSUME NEW u \in Threads, pc[u] \notin Active, pc'[u] = pc[u], ThreadInv(u),
         clientIp'[u] = clientIp[u], query'[u] = query[u]
  PROVE  ThreadInv(u)'
BY DEF ThreadInv, Active, BeforeCookies

\* The steps before the parsers, and those that leave the strings alone.
LEMMA AddressStep ==
  ASSUME MaxActive <= 1, IsFiniteSet(Threads), AloneInv, NEW t \in Threads, Step(t),
         \/ Start(t) \/ PeerUnknown(t) \/ WriteIp(t) \/ WroteIp(t) \/ CopyIp(t) \/ Finish(t)
  PROVE  \A u \in Threads : ThreadInv(u)'
<1>1. \A u \in Threads \ {t} : pc[u] \notin Active /\ pc'[u] = pc[u]
  BY OthersIdle DEF AloneInv
<1>2. /\ UNCHANGED <<cookies, query, pairs>>
      /\ \A u \in Threads \ {t} : clientIp'[u] = clientIp[u]
      /\ pc'[t] \in {"ip", "ipwrite", "ipcopy", "cookie", "done"}
      /\ pc'[t] # "done" => pc[t] \in {"new", "ip", "ipwrite", "ipcopy"}
  BY DEF Start, PeerUnknown, WriteIp, WroteIp, CopyIp, Finish, Goto, AloneInv, TypeInv, TypeOK
<1>3. ASSUME NEW u \in Threads \ {t} PROVE ThreadInv(u)'
  BY <1>1, <1>2, <1>3, OthersKeep DEF AloneInv
<1>4. clientIp'[t] \in {t, Unknown}
  <2>1. CASE CopyIp(t)
    BY <2>1 DEF CopyIp, Goto, AloneInv, ThreadInv, TypeInv, TypeOK
  <2>2. CASE ~CopyIp(t)
    BY <2>2 DEF Start, PeerUnknown, WriteIp, WroteIp, Finish, AloneInv, ThreadInv
  <2>3. QED
    BY <2>1, <2>2
<1>5. pc'[t] = "ipcopy" /\ returned'[t] = "buffer" => ipBuf' = t
  BY DEF Start, PeerUnknown, WriteIp, WroteIp, CopyIp, Finish, Goto, AloneInv, TypeInv, TypeOK
<1>6. ThreadInv(t)'
  BY <1>2, <1>4, <1>5 DEF AloneInv, ThreadInv, BeforeCookies
<1>7. QED
  BY <1>3, <1>6

\* _parse_req_cookies
LEMMA CookieStep ==
  ASSUME MaxActive <= 1, IsFiniteSet(Threads), AloneInv, NEW t \in Threads, Step(t),
         NoCookieHeader(t) \/ FirstCookie(t) \/ NextCookie(t) \/ CookiesDone(t)
  PROVE  \A u \in Threads : ThreadInv(u)'
<1> DEFINE many == pairs[t]["cookie"]
           kept == Fewer(MaxCookies, many)
<1>1. \A u \in Threads \ {t} : pc[u] \notin Active /\ pc'[u] = pc[u]
  BY OthersIdle DEF AloneInv
<1>2. /\ UNCHANGED <<query, pairs, clientIp, ipBuf, returned>>
      /\ pc'[t] \in {"cookies", "query"} /\ pc[t] \in {"cookie", "cookies"}
  BY DEF NoCookieHeader, FirstCookie, NextCookie, CookiesDone, Goto, AloneInv, TypeInv, TypeOK
<1>3. ASSUME NEW u \in Threads \ {t} PROVE ThreadInv(u)'
  BY <1>1, <1>2, <1>3, OthersKeep DEF AloneInv
<1>4. query[t] = <<>> /\ clientIp[t] \in {t, Unknown}
  BY <1>2 DEF AloneInv, ThreadInv, BeforeCookies
<1>5. /\ "cookie" \in Strings /\ many \in Nat /\ MaxCookies \in Nat /\ MaxCookies >= 1
      /\ kept \in Nat /\ kept <= MaxCookies /\ kept <= many /\ kept \in {MaxCookies, many}
  BY PairsNat, FewerType, SharedParsersAssumption DEF AloneInv, Strings
<1>6. pc'[t] = "cookies" =>
        \E n \in 1 .. kept : cookies'[t] = Cuts(t, "cookie", n) /\ saved' = After(t, "cookie", n)
  <2>1. CASE FirstCookie(t)
    <3>1. StartOf(t, "cookie") = After(t, "cookie", 0)
      BY DEF StartOf, After
    <3>2. cookies[t] = Cuts(t, "cookie", 0)
      BY <1>5, <2>1, CutsGrow DEF FirstCookie, Goto, AloneInv, TypeInv, BeforeCookies
    <3>3. cookies'[t] = Cuts(t, "cookie", 0 + 1) /\ saved' = After(t, "cookie", 0 + 1)
      <4>1. /\ cookies'[t] = Append(cookies[t], Cut(After(t, "cookie", 0), "cookie").token)
            /\ saved' = Cut(After(t, "cookie", 0), "cookie").rest
        BY <2>1, <3>1 DEF FirstCookie, AloneInv, TypeInv
      <4>2. "cookie" \in Strings /\ 0 \in Nat
        BY DEF Strings
      <4>3. Cuts(t, "cookie", 0 + 1) = Append(Cuts(t, "cookie", 0), Cut(After(t, "cookie", 0), "cookie").token)
            /\ Cut(After(t, "cookie", 0), "cookie").rest = After(t, "cookie", 0 + 1)
        BY <4>2, CutsGrow
      <4>4. QED
        BY <3>2, <4>1, <4>3
    <3>4. 1 <= kept
      BY <1>5, <2>1 DEF FirstCookie
    <3>5. QED
      BY <1>5, <3>3, <3>4
  <2>2. CASE NextCookie(t)
    <3>1. PICK n \in 1 .. kept : cookies[t] = Cuts(t, "cookie", n) /\ saved = After(t, "cookie", n)
      BY <2>2 DEF NextCookie, AloneInv, ThreadInv
    <3>2. Len(cookies[t]) = n /\ cookies'[t] = Cuts(t, "cookie", n + 1)
          /\ saved' = After(t, "cookie", n + 1)
      <4>1. /\ cookies'[t] = Append(cookies[t], Cut(After(t, "cookie", n), "cookie").token)
            /\ saved' = Cut(After(t, "cookie", n), "cookie").rest
        BY <2>2, <3>1 DEF NextCookie, AloneInv, TypeInv
      <4>2. n \in Nat /\ "cookie" \in Strings
        BY <1>5
      <4>3. /\ Append(Cuts(t, "cookie", n), Cut(After(t, "cookie", n), "cookie").token) = Cuts(t, "cookie", n + 1)
            /\ Cut(After(t, "cookie", n), "cookie").rest = After(t, "cookie", n + 1)
            /\ Len(Cuts(t, "cookie", n)) = n
        BY <4>2, CutsGrow
      <4>4. QED
        BY <3>1, <4>1, <4>3
    <3>3. n + 1 <= kept
      BY <1>5, <2>2, <3>1, <3>2 DEF NextCookie, TokenThere, AtEnd, After
    <3>4. QED
      BY <1>5, <3>2, <3>3
  <2>3. CASE NoCookieHeader(t) \/ CookiesDone(t)
    BY <2>3 DEF NoCookieHeader, CookiesDone, Goto, AloneInv, TypeInv, TypeOK
  <2>4. QED
    BY <2>1, <2>2, <2>3
<1>7. pc'[t] = "query" => cookies'[t] = Cuts(t, "cookie", kept)
  <2>1. CASE NoCookieHeader(t)
    <3>1. kept = 0
      BY <1>5, <2>1 DEF NoCookieHeader
    <3>2. cookies'[t] = <<>>
      BY <2>1 DEF NoCookieHeader, Goto, AloneInv, TypeInv, BeforeCookies
    <3>3. QED
      BY <1>5, <3>1, <3>2, CutsGrow
  <2>2. CASE CookiesDone(t)
    <3>1. PICK n \in 1 .. kept : cookies[t] = Cuts(t, "cookie", n) /\ saved = After(t, "cookie", n)
      BY <2>2 DEF CookiesDone, Goto, AloneInv, ThreadInv
    <3>2. Len(cookies[t]) = n
      BY <1>5, <3>1, CutsGrow
    <3>3. n >= MaxCookies \/ n + 1 > many
      BY <2>2, <3>1, <3>2 DEF CookiesDone, Goto, TokenMissing, Alive, AtEnd, After
    <3>4. n = kept
      BY <1>5, <3>3
    <3>5. QED
      BY <2>2, <3>1, <3>4 DEF CookiesDone
  <2>3. CASE FirstCookie(t) \/ NextCookie(t)
    BY <2>3 DEF FirstCookie, NextCookie, Goto, AloneInv, TypeInv, TypeOK
  <2>4. QED
    BY <2>1, <2>2, <2>3
<1>8. ThreadInv(t)'
  BY <1>2, <1>4, <1>6, <1>7 DEF ThreadInv, BeforeCookies
<1>9. QED
  BY <1>3, <1>8

\* _parse_req_query
LEMMA QueryStep ==
  ASSUME MaxActive <= 1, IsFiniteSet(Threads), AloneInv, NEW t \in Threads, Step(t),
         NoQuery(t) \/ FirstQuery(t) \/ NextQuery(t) \/ QueriesDone(t)
  PROVE  \A u \in Threads : ThreadInv(u)'
<1> DEFINE many == pairs[t]["query"]
<1>1. \A u \in Threads \ {t} : pc[u] \notin Active /\ pc'[u] = pc[u]
  BY OthersIdle DEF AloneInv
<1>2. /\ UNCHANGED <<cookies, pairs, clientIp, ipBuf, returned>>
      /\ pc'[t] \in {"queries", "handler"} /\ pc[t] \in {"query", "queries"}
      /\ \A u \in Threads \ {t} : query'[u] = query[u]
  BY DEF NoQuery, FirstQuery, NextQuery, QueriesDone, Goto, AloneInv, TypeInv, TypeOK
<1>3. ASSUME NEW u \in Threads \ {t} PROVE ThreadInv(u)'
  BY <1>1, <1>2, <1>3, OthersKeep DEF AloneInv
<1>4. /\ clientIp[t] \in {t, Unknown}
      /\ cookies[t] = Cuts(t, "cookie", Fewer(MaxCookies, pairs[t]["cookie"]))
  BY <1>2 DEF AloneInv, ThreadInv
<1>5. "query" \in Strings /\ many \in Nat
  BY PairsNat DEF AloneInv, Strings
<1>6. pc'[t] = "queries" =>
        \E n \in 1 .. many : query'[t] = Cuts(t, "query", n) /\ saved' = After(t, "query", n)
  <2>1. CASE FirstQuery(t)
    <3>1. StartOf(t, "query") = After(t, "query", 0)
      BY DEF StartOf, After
    <3>2. query[t] = Cuts(t, "query", 0)
      BY <1>5, <2>1, CutsGrow DEF FirstQuery, Goto, AloneInv, ThreadInv
    <3>3. query'[t] = Cuts(t, "query", 0 + 1) /\ saved' = After(t, "query", 0 + 1)
      <4>1. /\ query'[t] = Append(query[t], Cut(After(t, "query", 0), "query").token)
            /\ saved' = Cut(After(t, "query", 0), "query").rest
        BY <2>1, <3>1 DEF FirstQuery, AloneInv, TypeInv
      <4>2. "query" \in Strings /\ 0 \in Nat
        BY DEF Strings
      <4>3. Cuts(t, "query", 0 + 1) = Append(Cuts(t, "query", 0), Cut(After(t, "query", 0), "query").token)
            /\ Cut(After(t, "query", 0), "query").rest = After(t, "query", 0 + 1)
        BY <4>2, CutsGrow
      <4>4. QED
        BY <3>2, <4>1, <4>3
    <3>4. 1 <= many
      BY <1>5, <2>1 DEF FirstQuery
    <3>5. QED
      BY <1>5, <3>3, <3>4
  <2>2. CASE NextQuery(t)
    <3>1. PICK n \in 1 .. many : query[t] = Cuts(t, "query", n) /\ saved = After(t, "query", n)
      BY <2>2 DEF NextQuery, AloneInv, ThreadInv
    <3>2. query'[t] = Cuts(t, "query", n + 1) /\ saved' = After(t, "query", n + 1)
      <4>1. /\ query'[t] = Append(query[t], Cut(After(t, "query", n), "query").token)
            /\ saved' = Cut(After(t, "query", n), "query").rest
        BY <2>2, <3>1 DEF NextQuery, AloneInv, TypeInv
      <4>2. n \in Nat /\ "query" \in Strings
        BY <1>5
      <4>3. /\ Append(Cuts(t, "query", n), Cut(After(t, "query", n), "query").token) = Cuts(t, "query", n + 1)
            /\ Cut(After(t, "query", n), "query").rest = After(t, "query", n + 1)
        BY <4>2, CutsGrow
      <4>4. QED
        BY <3>1, <4>1, <4>3
    <3>3. n + 1 <= many
      BY <1>5, <2>2, <3>1 DEF NextQuery, TokenThere, AtEnd, After
    <3>4. QED
      BY <1>5, <3>2, <3>3
  <2>3. CASE NoQuery(t) \/ QueriesDone(t)
    BY <2>3 DEF NoQuery, QueriesDone, Goto, AloneInv, TypeInv, TypeOK
  <2>4. QED
    BY <2>1, <2>2, <2>3
<1>7. pc'[t] = "handler" => query'[t] = Cuts(t, "query", many)
  <2>1. CASE NoQuery(t)
    BY <1>5, <2>1, CutsGrow DEF NoQuery, Goto, AloneInv, ThreadInv
  <2>2. CASE QueriesDone(t)
    <3>1. PICK n \in 1 .. many : query[t] = Cuts(t, "query", n) /\ saved = After(t, "query", n)
      BY <2>2 DEF QueriesDone, Goto, AloneInv, ThreadInv
    <3>2. n + 1 > many
      BY <2>2, <3>1 DEF QueriesDone, Goto, TokenMissing, Alive, AtEnd, After
    <3>3. QED
      BY <1>5, <2>2, <3>1, <3>2 DEF QueriesDone
  <2>3. CASE FirstQuery(t) \/ NextQuery(t)
    BY <2>3 DEF FirstQuery, NextQuery, Goto, AloneInv, TypeInv, TypeOK
  <2>4. QED
    BY <2>1, <2>2, <2>3
<1>8. ThreadInv(t)'
  BY <1>2, <1>4, <1>6, <1>7 DEF ThreadInv, BeforeCookies
<1>9. QED
  BY <1>3, <1>8

LEMMA AloneStep ==
  ASSUME MaxActive <= 1, IsFiniteSet(Threads), AloneInv, [Next]_vars
  PROVE  AloneInv'
<1>1. TypeInv'
  BY TypeStep DEF AloneInv
<1>2. CASE UNCHANGED vars
  BY <1>1, <1>2 DEF vars, AloneInv, OneInv, ThreadInv
<1>3. ASSUME NEW t \in Threads, Step(t) PROVE AloneInv'
  <2>1. OneInv'
    BY <1>3, OthersIdle DEF AloneInv, OneInv
  <2>2. \A u \in Threads : ThreadInv(u)'
    BY <1>3, AddressStep, CookieStep, QueryStep DEF Step
  <2>3. QED
    BY <1>1, <2>1, <2>2 DEF AloneInv
<1>4. QED
  BY <1>2, <1>3 DEF Next

LEMMA AloneInvariant ==
  ASSUME MaxActive <= 1, IsFiniteSet(Threads)
  PROVE  Spec => []AloneInv
<1>1. Init => AloneInv
  <2>1. Init => TypeInv
    BY SharedParsersAssumption DEF Init, TypeInv, TypeOK, Strings
  <2>2. Init => OneInv /\ \A t \in Threads : ThreadInv(t)
    BY DEF Init, OneInv, ThreadInv, Active
  <2>3. QED
    BY <2>1, <2>2 DEF AloneInv
<1>2. AloneInv /\ [Next]_vars => AloneInv'
  BY AloneStep
<1>3. QED
  BY <1>1, <1>2, PTL DEF Spec

\* With one request at a time, a handler finds the address of its own client,
\* or "-", whatever an earlier one left in the buffer; its own cookies, in
\* order, up to MAX_COOKIES; and the parameters of its own query, although the
\* cookie parser may have stopped in the middle of its string.
THEOREM StringsAlone ==
  ASSUME MaxActive <= 1, IsFiniteSet(Threads)
  PROVE  Spec => []StringsAreOwn
<1>1. AloneInv => ClientIpIsOwn /\ CookiesAreOwn /\ QueryIsOwn
  BY DEF AloneInv, ThreadInv, ClientIpIsOwn, CookiesAreOwn, QueryIsOwn
<1>2. AloneInv => StringsAreOwn
  BY <1>1 DEF StringsAreOwn
<1>3. QED
  BY <1>2, AloneInvariant, PTL

-----------------------------------------------------------------------------
(***************************************************************************)
(* JSON parsing                                                            *)
(***************************************************************************)

\* Where the elements of s in Q are.
At(s, Q) == {i \in DOMAIN s : s[i] \in Q}

\* The elements of two sequences in Q are in the one or in the other.
LEMMA AtConcat ==
  ASSUME NEW s, AnySeq(s), NEW t, AnySeq(t), NEW Q
  PROVE  /\ Cardinality(At(s, Q)) \in Nat /\ Cardinality(At(t, Q)) \in Nat
         /\ Cardinality(At(s \o t, Q)) = Cardinality(At(s, Q)) + Cardinality(At(t, Q))
<1> DEFINE k == Len(s)
           n == Len(t)
           u == s \o t
<1>1. /\ k \in Nat /\ n \in Nat /\ DOMAIN u = 1 .. k + n
      /\ DOMAIN s = 1 .. k /\ DOMAIN t = 1 .. n
      /\ \A i \in 1 .. k : u[i] = s[i]
      /\ \A i \in 1 .. n : u[k + i] = t[i]
  <2>1. /\ Len(s) \in Nat /\ Len(t) \in Nat /\ Len(s \o t) = Len(s) + Len(t)
        /\ DOMAIN s = 1 .. Len(s) /\ DOMAIN (s \o t) = 1 .. Len(s \o t)
    BY AnyConcat
  <2>2. \A i \in 1 .. Len(s) : (s \o t)[i] = s[i]
    BY AnyConcat
  <2>3. \A i \in 1 .. Len(t) : (s \o t)[Len(s) + i] = t[i]
    BY AnyConcat
  <2>4. DOMAIN t = 1 .. Len(t)
    BY AnyLength
  <2>5. QED
    BY <2>1, <2>2, <2>3, <2>4, Zenon
<1> HIDE DEF k, n, u
<1>2. At(s, Q) \in SUBSET (1 .. k) /\ At(t, Q) \in SUBSET (1 .. n)
  BY <1>1 DEF At
<1>3. At(u, Q) = At(s, Q) \cup {k + i : i \in At(t, Q)}
  <2>1. ASSUME NEW i \in 1 .. k + n
        PROVE  u[i] \in Q <=> (i \in 1 .. k /\ s[i] \in Q) \/ (\E j \in 1 .. n : t[j] \in Q /\ i = k + j)
    <3>1. CASE i \in 1 .. k
      BY <1>1, <3>1
    <3>2. CASE i \notin 1 .. k
      <4>1. i - k \in 1 .. n /\ k + (i - k) = i
        BY <1>1, <3>2
      <4>2. u[i] = t[i - k]
        BY <1>1, <4>1
      <4>3. \A j \in 1 .. n : i = k + j => j = i - k
        BY <1>1
      <4>4. QED
        BY <3>2, <4>1, <4>2, <4>3
    <3>3. QED
      BY <3>1, <3>2
  <2>2. \A i \in 1 .. k : i \in 1 .. k + n
    BY <1>1
  <2>3. \A j \in 1 .. n : k + j \in 1 .. k + n
    BY <1>1
  <2>4. ASSUME NEW i PROVE i \in At(u, Q) <=> i \in At(s, Q) \cup {k + j : j \in At(t, Q)}
    <3>1. i \in At(u, Q) <=> i \in 1 .. k + n /\ u[i] \in Q
      BY <1>1 DEF At
    <3>2. i \in At(s, Q) <=> i \in 1 .. k /\ s[i] \in Q
      BY <1>1 DEF At
    <3>3. \A j : j \in At(t, Q) <=> j \in 1 .. n /\ t[j] \in Q
      BY <1>1 DEF At
    <3>4. QED
      BY <2>1, <2>2, <2>3, <3>1, <3>2, <3>3, Zenon
  <2>5. QED
    BY <2>4, Zenon
<1> DEFINE A == At(s, Q)
           B == At(t, Q)
           T == {k + i : i \in B}
<1> DEFINE f == [i \in B |-> k + i]
<1>4. A \in SUBSET (1 .. k) /\ B \in SUBSET (1 .. n)
  BY <1>2
<1> HIDE DEF A, B
<1>5. IsFiniteSet(A) /\ Cardinality(A) \in Nat /\ IsFiniteSet(B) /\ Cardinality(B) \in Nat
  BY <1>1, <1>4, Places
<1>6. f \in Bijection(B, T)
  <2>1. f \in [B -> T]
    OBVIOUS
  <2>2. \A i, j \in B : f[i] = f[j] => i = j
    BY <1>1, <1>4
  <2>3. \A y \in T : \E i \in B : f[i] = y
    OBVIOUS
  <2> HIDE DEF f, T
  <2>4. f \in Injection(B, T) /\ f \in Surjection(B, T)
    BY <2>1, <2>2, <2>3 DEF Injection, Surjection, IsInjective
  <2>5. QED
    BY <2>4 DEF Bijection
<1>7. A \cap T = {}
  BY <1>1, <1>4
<1> HIDE DEF f, T
<1>8. IsFiniteSet(T) /\ Cardinality(T) = Cardinality(B)
  <2>1. ExistsBijection(B, T)
    BY <1>6 DEF ExistsBijection
  <2>2. QED
    BY <1>5, <2>1, FS_Bijection
<1>9. Cardinality(A \cup T) = Cardinality(A) + Cardinality(T) - Cardinality(A \cap T)
  BY <1>5, <1>8, FS_Union
<1>10. Cardinality(A \cap T) = 0
  BY <1>7, FS_EmptySet
<1>11. Cardinality(A \cup T) = Cardinality(A) + Cardinality(B)
  BY <1>5, <1>8, <1>9, <1>10
<1>12. QED
  BY <1>3, <1>5, <1>11, Zenon DEF u, A, B, T

\* What is in a list and behind it is allocated apart.
LEMMA SizeConcat ==
  ASSUME NEW s \in Seq(Items), NEW t \in Seq(Items)
  PROVE  Size(s) \in Nat /\ Size(t) \in Nat /\ Size(s \o t) = Size(s) + Size(t)
<1> DEFINE Q == {x \in Items : x.kind = "string"}
           R == {x \in Items : x.keyed}
<1>1. /\ AnySeq(s) /\ AnySeq(t) /\ s \o t \in Seq(Items)
      /\ Len(s) \in Nat /\ Len(t) \in Nat /\ Len(s \o t) = Len(s) + Len(t)
  BY DEF AnySeq
<1>2. ASSUME NEW v \in Seq(Items)
      PROVE  Size(v) = Len(v) + Cardinality(At(v, Q)) + Cardinality(At(v, R))
  <2>1. \A i \in DOMAIN v : v[i] \in Items
    OBVIOUS
  <2>2. /\ At(v, Q) = {i \in DOMAIN v : v[i].kind = "string"}
        /\ At(v, R) = {i \in DOMAIN v : v[i].keyed}
    BY <2>1, Zenon DEF At
  <2>3. QED
    BY <2>2, Zenon DEF Size
<1> HIDE DEF Q, R
<1>3. /\ Cardinality(At(s, Q)) \in Nat /\ Cardinality(At(t, Q)) \in Nat
      /\ Cardinality(At(s \o t, Q)) = Cardinality(At(s, Q)) + Cardinality(At(t, Q))
  BY <1>1, AtConcat
<1>4. /\ Cardinality(At(s, R)) \in Nat /\ Cardinality(At(t, R)) \in Nat
      /\ Cardinality(At(s \o t, R)) = Cardinality(At(s, R)) + Cardinality(At(t, R))
  BY <1>1, AtConcat
<1>5. /\ Size(s) = Len(s) + Cardinality(At(s, Q)) + Cardinality(At(s, R))
      /\ Size(t) = Len(t) + Cardinality(At(t, Q)) + Cardinality(At(t, R))
      /\ Size(s \o t) = Len(s \o t) + Cardinality(At(s \o t, Q)) + Cardinality(At(s \o t, R))
  BY <1>1, <1>2, Zenon
<1> DEFINE ls == Len(s)
           lt == Len(t)
           qs == Cardinality(At(s, Q))
           qt == Cardinality(At(t, Q))
           rs == Cardinality(At(s, R))
           rt == Cardinality(At(t, R))
<1>6. ls \in Nat /\ lt \in Nat /\ qs \in Nat /\ qt \in Nat /\ rs \in Nat /\ rt \in Nat
  BY <1>1, <1>3, <1>4, Zenon
<1>7. /\ Size(s) = ls + qs + rs /\ Size(t) = lt + qt + rt
      /\ Size(s \o t) = (ls + lt) + (qs + qt) + (rs + rt)
  BY <1>1, <1>3, <1>4, <1>5, Zenon
<1> HIDE DEF ls, lt, qs, qt, rs, rt
<1>8. ls + qs + rs \in Nat /\ lt + qt + rt \in Nat
      /\ (ls + lt) + (qs + qt) + (rs + rt) = (ls + qs + rs) + (lt + qt + rt)
  BY <1>6
<1>9. QED
  BY <1>7, <1>8, Zenon

LEMMA SizeOfOne ==
  ASSUME NEW x \in Items
  PROVE  Size(<<x>>) = 1 + (IF x.kind = "string" THEN 1 ELSE 0) + (IF x.keyed THEN 1 ELSE 0)
<1> DEFINE s == <<x>>
           K == {i \in DOMAIN s : s[i].kind = "string"}
           N == {i \in DOMAIN s : s[i].keyed}
<1>1. s = <<x>> /\ Len(s) = 1 /\ DOMAIN s = {1} /\ s[1] = x
  OBVIOUS
<1>2. Size(s) = Len(s) + Cardinality(K) + Cardinality(N)
  BY DEF Size
<1> HIDE DEF s
<1>3. K = IF x.kind = "string" THEN {1} ELSE {}
  BY <1>1, Zenon
<1>4. N = IF x.keyed THEN {1} ELSE {}
  BY <1>1, Zenon
<1> HIDE DEF K, N
<1>5. Cardinality({1}) = 1 /\ Cardinality({}) = 0
  BY FS_Singleton, FS_EmptySet
<1>6. Cardinality(K) = IF x.kind = "string" THEN 1 ELSE 0
  BY <1>3, <1>5, Zenon
<1>7. Cardinality(N) = IF x.keyed THEN 1 ELSE 0
  BY <1>4, <1>5, Zenon
<1>8. QED
  BY <1>1, <1>2, <1>6, <1>7

LEMMA SizeOfNone == Size(<<>>) = 0
<1> DEFINE K == {i \in DOMAIN <<>> : <<>>[i].kind = "string"}
           N == {i \in DOMAIN <<>> : <<>>[i].keyed}
<1>1. DOMAIN <<>> = {} /\ Len(<<>>) = 0
  OBVIOUS
<1>2. K = {} /\ N = {}
  BY <1>1, Zenon
<1>3. Size(<<>>) = Len(<<>>) + Cardinality(K) + Cardinality(N)
  BY DEF Size
<1> HIDE DEF K, N
<1>4. QED
  BY <1>1, <1>2, <1>3, FS_EmptySet

\* What a frame holds while the item it parses is on its way: that item, and in
\* an object its key.
Awaits(f) == IF Keyed(f) THEN 2 ELSE 1

Waits(f) == f.current = Awaits(f)

\* The root below the lists, and every frame but the last awaits the value that
\* the one above it parses.
Stacked(fs) ==
  /\ fs \in Seq(Frames) /\ fs # <<>>
  /\ \A i \in DOMAIN fs : fs[i].kind = "root" <=> i = 1
  /\ \A i \in 1 .. Len(fs) - 1 : Waits(fs[i])

\* The frames hold n allocations together.
HeldBy(fs, n) ==
  \E sum \in [0 .. Len(fs) -> Nat] :
    /\ sum[0] = 0
    /\ \A i \in 1 .. Len(fs) : sum[i] = sum[i - 1] + Held(fs[i])
    /\ n = sum[Len(fs)]

LEMMA HeldType ==
  ASSUME NEW f \in Frames
  PROVE  Held(f) \in Nat /\ Held(f) = Size(f.kids) + f.current /\ Size(f.kids) \in Nat
<1>0. <<>> \in Seq(Items)
  OBVIOUS
<1>1. f.kids \in Seq(Items) /\ f.current \in Nat
  BY DEF Frames
<1>2. Size(f.kids) \in Nat
  BY <1>0, <1>1, SizeConcat
<1>3. QED
  BY <1>1, <1>2 DEF Held

\* The last frame changes, and what it holds.
LEMMA TopChanges ==
  ASSUME NEW fs, Stacked(fs), NEW hs \in Seq(Frames), Len(hs) = Len(fs),
         \A i \in 1 .. Len(fs) - 1 : hs[i] = fs[i],
         hs[Len(fs)].kind = Last(fs).kind,
         NEW n \in Nat, HeldBy(fs, n)
  PROVE  /\ Stacked(hs) /\ Last(hs) = hs[Len(fs)]
         /\ \E k \in Nat : n = k + Held(Last(fs)) /\ HeldBy(hs, k + Held(Last(hs)))
<1> DEFINE l == Len(fs)
           g == Last(hs)
<1>1. l \in Nat /\ l >= 1 /\ DOMAIN fs = 1 .. l /\ DOMAIN hs = 1 .. l /\ Len(hs) = l
  BY DEF Stacked
<1>2. g = hs[l] /\ Last(fs) = fs[l] /\ g \in Frames /\ g.kind = fs[l].kind
  BY <1>1 DEF Last, Stacked
<1>3. \A i \in 1 .. l - 1 : hs[i] = fs[i]
  OBVIOUS
<1>4. \A i \in 1 .. l : Held(fs[i]) \in Nat /\ Held(hs[i]) \in Nat
  BY <1>1, HeldType DEF Stacked
<1>5. PICK sum \in [0 .. l -> Nat] : /\ sum[0] = 0
                                     /\ \A i \in 1 .. l : sum[i] = sum[i - 1] + Held(fs[i])
                                     /\ n = sum[l]
  BY DEF HeldBy
<1> HIDE DEF l, g
<1> DEFINE k == sum[l - 1]
           new == [i \in 0 .. l |-> IF i = l THEN k + Held(g) ELSE sum[i]]
<1>6. k \in Nat /\ n = k + Held(fs[l]) /\ Held(g) \in Nat
  BY <1>1, <1>2, <1>4, <1>5
<1>7. HeldBy(hs, k + Held(g))
  <2>1. new \in [0 .. l -> Nat] /\ new[0] = 0 /\ new[l] = k + Held(g)
    BY <1>1, <1>5, <1>6
  <2>2. ASSUME NEW i \in 1 .. l PROVE new[i] = new[i - 1] + Held(hs[i])
    <3>1. new[i - 1] = sum[i - 1]
      BY <1>1
    <3>2. CASE i = l
      BY <1>2, <2>1, <3>1, <3>2
    <3>3. CASE i # l
      <4>1. i \in 1 .. l - 1
        BY <1>1, <3>3
      <4>2. new[i] = sum[i] /\ hs[i] = fs[i]
        BY <1>1, <1>3, <3>3, <4>1
      <4>3. QED
        BY <1>5, <3>1, <4>2
    <3>4. QED
      BY <3>2, <3>3
  <2> HIDE DEF new
  <2>3. QED
    BY <1>1, <2>1, <2>2 DEF HeldBy
<1> HIDE DEF k
<1>8. Stacked(hs)
  <2>1. ASSUME NEW i \in 1 .. l PROVE hs[i].kind = "root" <=> i = 1
    <3>1. CASE i = l
      BY <1>1, <1>2, <3>1 DEF Stacked
    <3>2. CASE i # l
      BY <1>1, <1>3, <3>2 DEF Stacked
    <3>3. QED
      BY <3>1, <3>2
  <2>2. \A i \in 1 .. l - 1 : Waits(hs[i])
    BY <1>3 DEF Stacked, l
  <2>3. hs # <<>>
    BY <1>1
  <2>4. QED
    BY <1>1, <2>1, <2>2, <2>3 DEF Stacked
<1>9. Last(hs) = hs[Len(fs)] /\ Last(fs) = fs[l]
  BY <1>2 DEF g, l
<1>10. QED
  BY <1>6, <1>7, <1>8, <1>9 DEF g

\* The last frame goes.
LEMMA TopGoes ==
  ASSUME NEW fs, Stacked(fs), NEW n \in Nat, HeldBy(fs, n)
  PROVE  /\ Front(fs) \in Seq(Frames) /\ Len(Front(fs)) = Len(fs) - 1
         /\ \A i \in 1 .. Len(fs) - 1 : Front(fs)[i] = fs[i]
         /\ Len(fs) > 1 => Stacked(Front(fs)) /\ Waits(Last(Front(fs)))
         /\ \E k \in Nat : n = k + Held(Last(fs)) /\ HeldBy(Front(fs), k)
<1> DEFINE l == Len(fs)
           hs == Front(fs)
<1>1. l \in Nat /\ l >= 1 /\ DOMAIN fs = 1 .. l
  BY DEF Stacked
<1>2. hs \in Seq(Frames) /\ Len(hs) = l - 1 /\ DOMAIN hs = 1 .. l - 1 /\ \A i \in 1 .. l - 1 : hs[i] = fs[i]
  BY <1>1 DEF Front, Stacked
<1>3. \A i \in 1 .. l : Held(fs[i]) \in Nat
  BY <1>1, HeldType DEF Stacked
<1>4. PICK sum \in [0 .. l -> Nat] : /\ sum[0] = 0
                                     /\ \A i \in 1 .. l : sum[i] = sum[i - 1] + Held(fs[i])
                                     /\ n = sum[l]
  BY DEF HeldBy
<1>5. Last(fs) = fs[l]
  BY DEF Last
<1> HIDE DEF l, hs
<1> DEFINE k == sum[l - 1]
           new == [i \in 0 .. l - 1 |-> sum[i]]
<1>6. k \in Nat /\ n = k + Held(fs[l])
  BY <1>1, <1>3, <1>4
<1>7. HeldBy(hs, k)
  <2>1. new \in [0 .. l - 1 -> Nat] /\ new[0] = 0 /\ new[l - 1] = k
    BY <1>1, <1>4
  <2>2. ASSUME NEW i \in 1 .. l - 1 PROVE new[i] = new[i - 1] + Held(hs[i])
    BY <1>1, <1>2, <1>4
  <2> HIDE DEF new, k
  <2>3. QED
    BY <1>2, <2>1, <2>2 DEF HeldBy
<1> HIDE DEF k
<1>8. ASSUME l > 1 PROVE Stacked(hs) /\ Waits(Last(hs))
  <2>0. \A i \in 1 .. l - 1 : i \in 1 .. l /\ hs[i] = fs[i]
    BY <1>1, <1>2
  <2>1. \A i \in 1 .. l - 1 : hs[i].kind = "root" <=> i = 1
    BY <1>1, <2>0, Zenon DEF Stacked
  <2>2. \A i \in 1 .. l - 1 : Waits(hs[i])
    BY <1>2 DEF Stacked, l
  <2>3. hs # <<>> /\ \A i \in 1 .. Len(hs) - 1 : i \in 1 .. l - 1
    BY <1>1, <1>2, <1>8
  <2>4. Last(hs) = hs[l - 1] /\ l - 1 \in 1 .. l - 1
    BY <1>1, <1>2, <1>8 DEF Last
  <2>5. QED
    BY <1>2, <2>1, <2>2, <2>3, <2>4 DEF Stacked
<1>9. QED
  BY <1>2, <1>5, <1>6, <1>7, <1>8 DEF l, hs

\* A call of parse_array or parse_object comes on top, and holds nothing yet.
LEMMA TopComes ==
  ASSUME NEW fs, Stacked(fs), NEW bracket \in Openers, NEW n \in Nat, HeldBy(fs, n),
         Waits(Last(fs))
  PROVE  LET hs == Append(fs, NewFrame(bracket))
         IN /\ Stacked(hs) /\ HeldBy(hs, n) /\ Last(hs) = NewFrame(bracket) /\ Len(hs) = Len(fs) + 1
<1> DEFINE l == Len(fs)
           g == NewFrame(bracket)
           hs == Append(fs, g)
<1>0. <<>> \in Seq(Items)
  OBVIOUS
<1>1. g \in Frames /\ g.kind = bracket /\ g.current = 0 /\ g.kids = <<>>
  <2>1. 0 \in 0 .. 2
    OBVIOUS
  <2>2. bracket \in {"root"} \cup Openers
    OBVIOUS
  <2>3. QED
    BY <1>0, <2>1, <2>2, Zenon DEF NewFrame, Frames
<1>2. Held(g) = 0
  BY <1>1, SizeOfNone DEF Held
<1> HIDE DEF g
<1>3. l \in Nat /\ l >= 1 /\ DOMAIN fs = 1 .. l
  BY DEF Stacked
<1>4. /\ hs \in Seq(Frames) /\ Len(hs) = l + 1 /\ DOMAIN hs = 1 .. l + 1
      /\ hs[l + 1] = g /\ \A i \in 1 .. l : hs[i] = fs[i]
  BY <1>1, <1>3 DEF Stacked
<1>5. PICK sum \in [0 .. l -> Nat] : /\ sum[0] = 0
                                     /\ \A i \in 1 .. l : sum[i] = sum[i - 1] + Held(fs[i])
                                     /\ n = sum[l]
  BY DEF HeldBy
<1>6. Waits(fs[l])
  BY DEF Last
<1>7. \A i \in 1 .. l - 1 : Waits(fs[i])
  BY DEF Stacked
<1> HIDE DEF l, hs
<1> DEFINE new == [i \in 0 .. l + 1 |-> IF i = l + 1 THEN n ELSE sum[i]]
<1>8. HeldBy(hs, n)
  <2>1. new \in [0 .. l + 1 -> Nat] /\ new[0] = 0 /\ new[l + 1] = n /\ new[l] = n
    BY <1>3, <1>5
  <2>2. ASSUME NEW i \in 1 .. l + 1 PROVE new[i] = new[i - 1] + Held(hs[i])
    <3>1. CASE i = l + 1
      BY <1>2, <1>3, <1>4, <2>1, <3>1
    <3>2. CASE i # l + 1
      <4>1. i \in 1 .. l /\ new[i] = sum[i] /\ new[i - 1] = sum[i - 1]
        BY <1>3, <3>2
      <4>2. QED
        BY <1>4, <1>5, <4>1
    <3>3. QED
      BY <3>1, <3>2
  <2> HIDE DEF new
  <2>3. QED
    BY <1>4, <2>1, <2>2 DEF HeldBy
<1>9. Stacked(hs)
  <2>1. ASSUME NEW i \in 1 .. l + 1 PROVE hs[i].kind = "root" <=> i = 1
    <3>1. CASE i = l + 1
      BY <1>1, <1>3, <1>4, <3>1
    <3>2. CASE i # l + 1
      <4>1. i \in 1 .. l /\ hs[i] = fs[i]
        BY <1>3, <1>4, <3>2
      <4>2. QED
        BY <1>3, <4>1, Zenon DEF Stacked
    <3>3. QED
      BY <3>1, <3>2
  <2>2. ASSUME NEW i \in 1 .. l PROVE Waits(hs[i])
    <3>1. Waits(fs[i])
      BY <1>3, <1>6, <1>7
    <3>2. QED
      BY <1>4, <3>1
  <2>3. hs # <<>> /\ Len(hs) - 1 = l
    BY <1>3, <1>4
  <2>4. QED
    BY <1>4, <2>1, <2>2, <2>3 DEF Stacked
<1>10. Last(hs) = g
  BY <1>4 DEF Last
<1>11. QED
  BY <1>4, <1>8, <1>9, <1>10 DEF hs, g, l

\* What the step that is next says of the frame on top, and of a failure.
Expected ==
  /\ step \in {"item", "first", "more", "root", "done"} => Top.current = 0
  /\ step = "key" => Top.current = 1
  /\ step \in {"key", "colon"} => Keyed(Top)
  /\ step \in {"colon", "value"} => Waits(Top)
  /\ step \in {"first", "more"} => Len(frames) > 1
  /\ step \in {"root", "done"} => Len(frames) = 1
  /\ step \notin {"unwind", "done"} => failure = "none"
  /\ step = "done" /\ failure # "none" => Top.kids = <<>>

\* The inductive invariant: what is allocated is what the frames hold.
ParserInv == ParserTypeOK /\ Stacked(frames) /\ HeldBy(frames, live) /\ Expected

\* The current item of the last frame goes into its list, with what is in it.
LEMMA ItemEnters ==
  ASSUME NEW fs, Stacked(fs), NEW n \in Nat, HeldBy(fs, n), Waits(Last(fs)),
         NEW k \in {"scalar", "string"} \cup Openers, NEW inside \in Seq(Items),
         NEW hs, hs = With(fs, k, inside)
  PROVE  /\ Stacked(hs) /\ Len(hs) = Len(fs) /\ Last(hs).current = 0
         /\ HeldBy(hs, n + Size(inside) + (IF k = "string" THEN 1 ELSE 0))
<1> DEFINE l == Len(fs)
           f == Last(fs)
           x == Item(fs, k)
           all == f.kids \o <<x>> \o inside
           g == hs[l]
<1>1. l \in Nat /\ l >= 1 /\ DOMAIN fs = 1 .. l /\ f = fs[l] /\ f \in Frames /\ fs \in Seq(Frames)
  BY DEF Stacked, Last
<1>2. x \in Items /\ x.kind = k /\ x.keyed = Keyed(f)
  <2>1. l \in Nat \ {0} /\ Keyed(f) \in BOOLEAN
    BY <1>1 DEF Keyed
  <2>2. QED
    BY <2>1, Zenon DEF Item, Items
<1>3. f.kids \in Seq(Items) /\ f.current \in Nat /\ f.kind \in {"root"} \cup Openers
  BY <1>1 DEF Frames
<1> HIDE DEF x
<1>4. /\ <<x>> \in Seq(Items) /\ f.kids \o <<x>> \in Seq(Items) /\ all \in Seq(Items)
      /\ Size(<<x>>) = 1 + (IF k = "string" THEN 1 ELSE 0) + (IF Keyed(f) THEN 1 ELSE 0)
  <2>1. <<x>> \in Seq(Items)
    BY <1>2
  <2>2. Size(<<x>>) = 1 + (IF k = "string" THEN 1 ELSE 0) + (IF Keyed(f) THEN 1 ELSE 0)
    BY <1>2, SizeOfOne
  <2> HIDE DEF f
  <2>3. f.kids \o <<x>> \in Seq(Items)
    BY <1>3, <2>1
  <2>4. all \in Seq(Items)
    BY <2>3
  <2>5. QED
    BY <2>1, <2>2, <2>3, <2>4
<1>5. Size(all) = Size(f.kids) + Size(<<x>>) + Size(inside) /\ Size(f.kids) \in Nat /\ Size(inside) \in Nat
  <2> DEFINE u == f.kids \o <<x>>
  <2>1. Size(u) = Size(f.kids) + Size(<<x>>) /\ Size(f.kids) \in Nat
    BY <1>3, <1>4, SizeConcat
  <2>2. u \in Seq(Items) /\ all = u \o inside
    BY <1>4
  <2> HIDE DEF u
  <2>3. Size(u \o inside) = Size(u) + Size(inside) /\ Size(inside) \in Nat
    BY <2>2, SizeConcat
  <2>4. QED
    BY <2>1, <2>2, <2>3
<1> HIDE DEF all
<1>6. /\ DOMAIN hs = 1 .. l /\ (\A i \in 1 .. l - 1 : hs[i] = fs[i])
      /\ g = [[f EXCEPT !.kids = all] EXCEPT !.current = 0]
  <2>1. hs = [[fs EXCEPT ![l].kids = all] EXCEPT ![l].current = 0]
    BY <1>1 DEF With, all, x
  <2>2. QED
    BY <1>1, <2>1
<1> HIDE DEF f, g
<1>7. g.kind = f.kind /\ g.kids = all /\ g.current = 0 /\ g \in Frames
  <2>1. f \in Frames /\ 0 \in 0 .. 2
    BY <1>1
  <2>2. QED
    BY <1>4, <1>6, <2>1, Zenon DEF Frames
<1>8. hs \in Seq(Frames) /\ Len(hs) = l
  <2>1. \A i \in 1 .. l : hs[i] \in Frames
    BY <1>1, <1>6, <1>7 DEF g
  <2>2. hs = [i \in 1 .. l |-> hs[i]]
    <3>1. hs = [[fs EXCEPT ![l].kids = all] EXCEPT ![l].current = 0]
      BY <1>1 DEF With, all, x, f
    <3>2. QED
      BY <1>1, <3>1
  <2>3. QED
    BY <1>1, <2>1, <2>2
<1>9. Held(g) = Size(all) + 0 /\ Held(f) = Size(f.kids) + f.current
  BY <1>7, Zenon DEF Held
<1>10. f.current = 1 + (IF Keyed(f) THEN 1 ELSE 0)
  BY DEF Waits, Awaits, f
<1>11. Held(g) = Held(f) + Size(inside) + (IF k = "string" THEN 1 ELSE 0) /\ Held(f) \in Nat
  <2> DEFINE b == IF k = "string" THEN 1 ELSE 0
             c == IF Keyed(f) THEN 1 ELSE 0
             sa == Size(all)
             sf == Size(f.kids)
             sx == Size(<<x>>)
             si == Size(inside)
  <2>1. b \in Nat /\ c \in Nat
    BY Zenon
  <2>2. sf \in Nat /\ si \in Nat /\ sa = sf + sx + si /\ sx = 1 + b + c
    BY <1>4, <1>5
  <2>3. Held(g) = sa + 0 /\ Held(f) = sf + f.current /\ f.current = 1 + c
    BY <1>9, <1>10
  <2> HIDE DEF b, c, sa, sf, sx, si
  <2>4. Held(g) = Held(f) + si + b /\ Held(f) \in Nat
    BY <2>1, <2>2, <2>3
  <2>5. QED
    BY <2>4 DEF b, si
<1>12. PICK m \in Nat : n = m + Held(f) /\ HeldBy(hs, m + Held(g))
  <2>1. hs \in Seq(Frames) /\ Len(hs) = Len(fs) /\ hs[Len(fs)].kind = Last(fs).kind
    BY <1>7, <1>8 DEF f, g
  <2>2. \A i \in 1 .. Len(fs) - 1 : hs[i] = fs[i]
    BY <1>6
  <2>3. \E m \in Nat : n = m + Held(Last(fs)) /\ HeldBy(hs, m + Held(Last(hs)))
    BY <2>1, <2>2, TopChanges
  <2>4. Last(hs) = g
    BY <1>8 DEF Last, g
  <2>5. QED
    BY <2>3, <2>4 DEF f
<1>13. m + Held(g) = n + Size(inside) + (IF k = "string" THEN 1 ELSE 0)
  BY <1>5, <1>11, <1>12
<1>14. Stacked(hs) /\ Last(hs) = g
  <2>1. hs \in Seq(Frames) /\ Len(hs) = Len(fs) /\ hs[Len(fs)].kind = Last(fs).kind
    BY <1>7, <1>8 DEF f, g
  <2>2. \A i \in 1 .. Len(fs) - 1 : hs[i] = fs[i]
    BY <1>6
  <2>3. QED
    BY <2>1, <2>2, TopChanges DEF g
<1>15. QED
  BY <1>7, <1>8, <1>12, <1>13, <1>14

\* The frames that are stacked are of their type.
LEMMA StackTypes ==
  ASSUME Stacked(frames), text \in Seq(JsonTokens), ahead \in JsonTokens, strict \in BOOLEAN, live \in Nat,
         step \in {"item", "key", "colon", "value", "first", "more", "root", "unwind", "done"},
         failure \in {"none", "memory", "depth", "text"}
  PROVE  ParserTypeOK
BY Zenon DEF ParserTypeOK, Stacked

\* A step that gives the parser its next token, or leaves it the one it has.
LEMMA Reads ==
  ASSUME ParserInv, Advance \/ Stay
  PROVE  text' \in Seq(JsonTokens) /\ ahead' \in JsonTokens
<1>1. text \in Seq(JsonTokens) /\ ahead \in JsonTokens
  BY DEF ParserInv, ParserTypeOK
<1>2. CASE Stay
  BY <1>1, <1>2 DEF Stay
<1>3. CASE Advance
  <2>1. text' \in Seq(JsonTokens)
    BY <1>1, <1>3 DEF Advance
  <2>2. "end" \in JsonTokens
    BY Zenon DEF JsonTokens
  <2>3. ahead' \in JsonTokens
    BY <1>3, <2>2, Zenon DEF Advance
  <2>4. QED
    BY <2>1, <2>3
<1>4. QED
  BY <1>2, <1>3

LEMMA NewRoot ==
  LET f == NewFrame("root")
  IN f.kind = "root" /\ f.kids = <<>> /\ f.current = 0 /\ f \in Frames /\ Held(f) = 0
<1> DEFINE f == NewFrame("root")
<1>1. f.kind = "root" /\ f.kids = <<>> /\ f.current = 0
  BY DEF NewFrame
<1>2. f \in Frames
  <2>1. 0 \in 0 .. 2 /\ <<>> \in Seq(Items)
    OBVIOUS
  <2>2. QED
    BY <2>1, Zenon DEF NewFrame, Frames
<1>3. Held(f) = 0
  BY <1>1, SizeOfNone DEF Held
<1>4. QED
  BY <1>1, <1>2, <1>3

\* The root alone holds nothing.
LEMMA OnlyRoot ==
  LET f == NewFrame("root")
  IN Stacked(<<f>>) /\ HeldBy(<<f>>, 0) /\ Len(<<f>>) = 1 /\ Last(<<f>>) = f
<1> DEFINE f == NewFrame("root")
           fs == <<f>>
<1>1. f.kind = "root" /\ f \in Frames /\ Held(f) = 0
  BY NewRoot
<1> HIDE DEF f
<1>2. fs \in Seq(Frames) /\ Len(fs) = 1 /\ DOMAIN fs = {1} /\ fs[1] = f /\ Last(fs) = f
  BY <1>1 DEF Last
<1> HIDE DEF fs
<1>3. Stacked(fs)
  <2>1. fs # <<>> /\ \A i \in 1 .. Len(fs) - 1 : FALSE
    BY <1>2
  <2>2. \A i \in DOMAIN fs : fs[i].kind = "root" <=> i = 1
    BY <1>1, <1>2, Zenon
  <2>3. QED
    BY <1>2, <2>1, <2>2 DEF Stacked
<1>4. HeldBy(fs, 0)
  <2> DEFINE sum == [i \in 0 .. 1 |-> 0]
  <2>1. sum \in [0 .. 1 -> Nat] /\ sum[0] = 0 /\ sum[1] = 0
    OBVIOUS
  <2> HIDE DEF sum
  <2>2. \A i \in 1 .. 1 : sum[i] = sum[i - 1] + Held(fs[i])
    BY <1>1, <1>2, <2>1
  <2>3. QED
    BY <1>2, <2>1, <2>2 DEF HeldBy
<1>5. QED
  BY <1>2, <1>3, <1>4 DEF f, fs

LEMMA ParserInvStarts == ParserInit => ParserInv
<1> SUFFICES ASSUME ParserInit PROVE ParserInv
  OBVIOUS
<1> DEFINE f == NewFrame("root")
<1>1. frames = <<f>> /\ live = 0 /\ step = "item" /\ failure = "none"
  BY DEF ParserInit
<1>2. Stacked(<<f>>) /\ HeldBy(<<f>>, 0) /\ Len(<<f>>) = 1 /\ Last(<<f>>) = f /\ f.current = 0
  BY OnlyRoot, NewRoot
<1> HIDE DEF f
<1>3. Stacked(frames) /\ HeldBy(frames, live) /\ Top.current = 0
  BY <1>1, <1>2 DEF Top
<1>4. ParserTypeOK
  <2>1. text \in Seq(JsonTokens) /\ ahead \in JsonTokens /\ strict \in BOOLEAN /\ live \in Nat
    BY DEF ParserInit
  <2>2. QED
    BY <1>1, <1>3, <2>1, StackTypes
<1>5. Expected
  BY <1>1, <1>3 DEF Expected
<1>6. QED
  BY <1>3, <1>4, <1>5 DEF ParserInv

LEMMA Failing ==
  ASSUME ParserInv, NEW why \in {"memory", "depth", "text"}, Fail(why), strict' = strict
  PROVE  ParserInv'
<1>1. /\ text' = text /\ ahead' = ahead /\ frames' = frames /\ live' = live
      /\ step' = "unwind" /\ failure' = why
  BY DEF Fail
<1>2. ParserTypeOK' /\ Stacked(frames)' /\ HeldBy(frames, live)'
  <2>1. Stacked(frames') /\ HeldBy(frames', live')
    BY <1>1 DEF ParserInv
  <2>2. ParserTypeOK'
    BY <1>1, Zenon DEF ParserInv, ParserTypeOK
  <2>3. QED
    BY <2>1, <2>2 DEF Stacked, HeldBy, Held
<1>3. Expected'
  BY <1>1 DEF Expected
<1>4. QED
  BY <1>2, <1>3 DEF ParserInv

\* What the frames, the step and the count are after a step.
LEMMA Coming ==
  ASSUME ParserInv, strict' = strict, Advance \/ Stay, Stacked(frames'), HeldBy(frames', live'),
         live' \in Nat, failure' = failure, Expected',
         step' \in {"item", "key", "colon", "value", "first", "more", "root", "unwind", "done"}
  PROVE  ParserInv'
<1>1. text' \in Seq(JsonTokens) /\ ahead' \in JsonTokens
  BY Reads
<1>2. ParserTypeOK'
  BY <1>1, Zenon DEF ParserInv, ParserTypeOK, Stacked
<1>3. QED
  BY <1>2 DEF ParserInv, Stacked, HeldBy, Held

\* The current item of the frame on top gets one allocation more.
LEMMA Allocating ==
  ASSUME ParserInv, NEW next, Allocated(next), Top.current \in {0, 1}
  PROVE  /\ Stacked(frames') /\ HeldBy(frames', live') /\ live' \in Nat /\ Len(frames') = Len(frames)
         /\ Top'.current = Top.current + 1 /\ Top'.kind = Top.kind
<1> DEFINE l == Len(frames)
           f == frames[l]
           hs == frames'
           g == hs[l]
<1>1. l \in Nat /\ l >= 1 /\ DOMAIN frames = 1 .. l /\ frames \in Seq(Frames) /\ Top = f /\ f \in Frames
  BY DEF ParserInv, Stacked, Top, Last
<1>2. live' = live + 1 /\ hs = [frames EXCEPT ![l].current = @ + 1] /\ live \in Nat
  BY DEF Allocated, ParserInv, ParserTypeOK
<1>3. /\ DOMAIN hs = 1 .. l /\ hs = [i \in 1 .. l |-> hs[i]] /\ (\A i \in 1 .. l - 1 : hs[i] = frames[i])
      /\ g = [f EXCEPT !.current = f.current + 1]
  <2>1. hs = [frames EXCEPT ![l].current = @ + 1]
    BY <1>2
  <2>2. l \in DOMAIN frames
    BY <1>1
  <2> HIDE DEF l, hs
  <2>3. DOMAIN hs = 1 .. l /\ hs = [i \in 1 .. l |-> hs[i]]
    BY <1>1, <2>1
  <2>4. \A i \in 1 .. l - 1 : hs[i] = frames[i]
    BY <1>1, <2>1
  <2>5. g = [f EXCEPT !.current = f.current + 1]
    BY <2>1, <2>2
  <2>6. QED
    BY <2>3, <2>4, <2>5
<1>4. f.current \in {0, 1}
  BY <1>1
<1> HIDE DEF f, hs, g
<1>5. g.kind = f.kind /\ g.kids = f.kids /\ g.current = f.current + 1 /\ g \in Frames
  <2>1. f.current + 1 \in 0 .. 2
    BY <1>4
  <2>2. QED
    BY <1>1, <1>3, <2>1, Zenon DEF Frames
<1>6. Held(g) = Held(f) + 1 /\ Held(f) \in Nat
  <2>1. Held(g) = Size(f.kids) + (f.current + 1) /\ Held(f) = Size(f.kids) + f.current /\ Size(f.kids) \in Nat
    <3>1. Size(f.kids) \in Nat
      BY <1>1, HeldType
    <3>2. QED
      BY <1>5, <3>1, Zenon DEF Held
  <2>2. QED
    BY <1>4, <2>1
<1>7. hs \in Seq(Frames) /\ Len(hs) = l
  <2>1. \A i \in 1 .. l : hs[i] \in Frames
    BY <1>1, <1>3, <1>5 DEF g
  <2>2. QED
    BY <1>1, <1>3, <2>1
<1>8. Last(hs) = g /\ Last(frames) = f
  BY <1>7 DEF Last, g, f
<1>9. /\ Stacked(hs)
      /\ \E k \in Nat : live = k + Held(f) /\ HeldBy(hs, k + Held(g))
  <2>1. Stacked(frames) /\ HeldBy(frames, live) /\ live \in Nat
    BY <1>2 DEF ParserInv
  <2>2. hs \in Seq(Frames) /\ Len(hs) = Len(frames) /\ hs[Len(frames)].kind = Last(frames).kind
    BY <1>5, <1>7, <1>8 DEF g
  <2>3. \A i \in 1 .. Len(frames) - 1 : hs[i] = frames[i]
    BY <1>3
  <2> HIDE DEF l
  <2>4. Stacked(hs) /\ \E k \in Nat : live = k + Held(Last(frames)) /\ HeldBy(hs, k + Held(Last(hs)))
    BY <2>1, <2>2, <2>3, TopChanges
  <2>5. QED
    BY <1>8, <2>4
<1>10. HeldBy(hs, live')
  <2>1. PICK k \in Nat : live = k + Held(f) /\ HeldBy(hs, k + Held(g))
    BY <1>9
  <2>2. k + Held(g) = live'
    BY <1>2, <1>6, <2>1
  <2>3. QED
    BY <2>1, <2>2
<1>11. Top' = g
  BY <1>8 DEF Top, hs
<1>12. QED
  BY <1>1, <1>2, <1>5, <1>7, <1>9, <1>10, <1>11 DEF hs

\* What every action starts from.
LEMMA ParserFacts ==
  ASSUME ParserInv
  PROVE  /\ Stacked(frames) /\ HeldBy(frames, live) /\ live \in Nat /\ Len(frames) \in Nat /\ Len(frames) >= 1
         /\ Top \in Frames /\ Top = frames[Len(frames)] /\ (Len(frames) > 1 => Top.kind \in Openers)
<1>1. Stacked(frames) /\ HeldBy(frames, live) /\ live \in Nat
  BY DEF ParserInv, ParserTypeOK
<1>2. Len(frames) \in Nat /\ Len(frames) >= 1 /\ DOMAIN frames = 1 .. Len(frames) /\ Top = frames[Len(frames)]
  BY <1>1 DEF Stacked, Top, Last
<1>3. Top \in Frames
  BY <1>1, <1>2 DEF Stacked
<1>4. ASSUME Len(frames) > 1 PROVE Top.kind \in Openers
  <2>1. Top.kind # "root"
    BY <1>1, <1>2, <1>4 DEF Stacked
  <2>2. Top.kind \in {"root"} \cup Openers
    BY <1>3 DEF Frames
  <2>3. QED
    BY <2>1, <2>2
<1>5. QED
  BY <1>1, <1>2, <1>3, <1>4

LEMMA NewItemKeeps ==
  ASSUME ParserInv, NewItem, strict' = strict
  PROVE  ParserInv'
<1>1. CASE NoMemory
  BY <1>1, Failing, Zenon DEF NoMemory
<1>2. CASE Allocated(ItemStart) /\ (Advance \/ Stay)
  <2>1. step = "item" /\ Top.current = 0 /\ failure = "none"
    BY DEF NewItem, ParserInv, Expected
  <2>2. /\ Stacked(frames') /\ HeldBy(frames', live') /\ live' \in Nat /\ Len(frames') = Len(frames)
        /\ Top'.current = Top.current + 1 /\ Top'.kind = Top.kind
    BY <1>2, <2>1, Allocating
  <2>3. step' = (IF Keyed(Top) THEN "key" ELSE "value") /\ failure' = failure
    BY <1>2 DEF Allocated, ItemStart
  <2>4. Keyed(Top') = Keyed(Top)
    BY <2>2 DEF Keyed
  <2>5. Expected'
    <3>1. CASE Keyed(Top)
      <4>1. step' = "key" /\ Top'.current = 1 /\ Keyed(Top') /\ failure' = "none"
        BY <2>1, <2>2, <2>3, <2>4, <3>1
      <4>2. QED
        BY <4>1 DEF Expected
    <3>2. CASE ~Keyed(Top)
      <4>1. step' = "value" /\ Top'.current = 1 /\ ~Keyed(Top') /\ failure' = "none"
        BY <2>1, <2>2, <2>3, <2>4, <3>2
      <4>2. Waits(Top')
        BY <4>1 DEF Waits, Awaits
      <4>3. QED
        BY <4>1, <4>2 DEF Expected, Waits, Awaits
    <3>3. QED
      BY <3>1, <3>2
  <2>6. QED
    BY <1>2, <2>2, <2>3, <2>5, Coming
<1>3. QED
  BY <1>1, <1>2, Zenon DEF NewItem

LEMMA KeyKeeps ==
  ASSUME ParserInv, Key, strict' = strict
  PROVE  ParserInv'
<1>1. CASE NoMemory
  BY <1>1, Failing, Zenon DEF NoMemory
<1>2. CASE Fail("text")
  BY <1>2, Failing, Zenon
<1>3. CASE Allocated("colon") /\ Advance
  <2>1. step = "key" /\ Top.current = 1 /\ Keyed(Top) /\ failure = "none"
    BY DEF Key, ParserInv, Expected
  <2>2. /\ Stacked(frames') /\ HeldBy(frames', live') /\ live' \in Nat /\ Len(frames') = Len(frames)
        /\ Top'.current = Top.current + 1 /\ Top'.kind = Top.kind
    BY <1>3, <2>1, Allocating
  <2>3. step' = "colon" /\ failure' = failure
    BY <1>3 DEF Allocated
  <2>4. Keyed(Top') /\ Top'.current = 2
    <3>1. Keyed(Top')
      BY <2>1, <2>2, Zenon DEF Keyed
    <3>2. QED
      BY <2>1, <2>2, <3>1
  <2>5. Waits(Top')
    BY <2>4 DEF Waits, Awaits
  <2>6. Expected'
    BY <2>1, <2>3, <2>4, <2>5 DEF Expected, Waits, Awaits, Keyed
  <2>7. QED
    BY <1>3, <2>2, <2>3, <2>6, Coming
<1>4. QED
  BY <1>1, <1>2, <1>3, Zenon DEF Key

LEMMA ColonKeeps ==
  ASSUME ParserInv, Colon, strict' = strict
  PROVE  ParserInv'
<1>1. CASE Fail("text")
  BY <1>1, Failing, Zenon
<1>2. CASE step' = "value" /\ Advance /\ UNCHANGED <<frames, live, failure>>
  <2>1. step = "colon" /\ Waits(Top) /\ failure = "none"
    BY DEF Colon, ParserInv, Expected
  <2>2. step' = "value" /\ frames' = frames /\ Top' = Top /\ failure' = failure /\ live' = live
    BY <1>2 DEF Top
  <2>3. Expected'
    BY <2>1, <2>2 DEF Expected, Waits, Awaits, Keyed
  <2>4. Stacked(frames') /\ HeldBy(frames', live') /\ live' \in Nat
    BY <2>2, ParserFacts
  <2>5. QED
    BY <1>2, <2>2, <2>3, <2>4, Coming
<1>3. QED
  BY <1>1, <1>2, Zenon DEF Colon

\* A value is parsed in the frames fs, which hold n allocations without it.
LEMMA Parsing ==
  ASSUME ParserInv, NEW fs, Stacked(fs), Waits(Last(fs)), NEW n \in Nat, HeldBy(fs, n), Len(fs) \in Nat, Len(fs) >= 1,
         NEW k \in {"scalar", "string"} \cup Openers, NEW inside \in Seq(Items),
         Parsed(fs, k, inside), failure = "none",
         strict' = strict, live' = n + Size(inside) + (IF k = "string" THEN 1 ELSE 0), live' \in Nat
  PROVE  ParserInv'
<1>1. /\ frames' = With(fs, k, inside) /\ Advance /\ failure' = failure
      /\ step' = (IF Len(fs) = 1 THEN "root" ELSE "more")
  BY Zenon DEF Parsed
<1>2. /\ Stacked(frames') /\ Len(frames') = Len(fs) /\ Last(frames').current = 0
      /\ HeldBy(frames', n + Size(inside) + (IF k = "string" THEN 1 ELSE 0))
  BY <1>1, ItemEnters
<1>3. HeldBy(frames', live')
  BY <1>2
<1>4. Expected'
  <2>1. Top'.current = 0 /\ failure' = "none"
    BY <1>1, <1>2 DEF Top
  <2>2. CASE Len(fs) = 1
    <3>1. step' = "root" /\ Len(frames') = 1
      BY <1>1, <1>2, <2>2
    <3>2. QED
      BY <2>1, <3>1 DEF Expected
  <2>3. CASE Len(fs) # 1
    <3>1. step' = "more" /\ Len(frames') > 1
      BY <1>1, <1>2, <2>3
    <3>2. QED
      BY <2>1, <3>1 DEF Expected
  <2>4. QED
    BY <2>2, <2>3
<1>5. step' \in {"root", "more"}
  BY <1>1
<1>6. QED
  BY <1>1, <1>2, <1>3, <1>4, <1>5, Coming

LEMMA ScalarKeeps ==
  ASSUME ParserInv, Scalar, strict' = strict
  PROVE  ParserInv'
<1>1. Waits(Top) /\ failure = "none" /\ Parsed(frames, "scalar", <<>>) /\ live' = live
  BY DEF Scalar, ParserInv, Expected
<1>2. <<>> \in Seq(Items) /\ Size(<<>>) = 0
  BY SizeOfNone
<1>3. /\ Stacked(frames) /\ HeldBy(frames, live) /\ live \in Nat /\ Len(frames) \in Nat /\ Len(frames) >= 1
      /\ Waits(Last(frames))
  BY <1>1, ParserFacts DEF Top
<1>4. /\ live' = live + Size(<<>>) + (IF "scalar" = "string" THEN 1 ELSE 0) /\ live' \in Nat
      /\ "scalar" \in {"scalar", "string"} \cup Openers
  BY <1>1, <1>2, <1>3
<1>5. QED
  BY <1>1, <1>2, <1>3, <1>4, Parsing

LEMMA StringKeeps ==
  ASSUME ParserInv, String, strict' = strict
  PROVE  ParserInv'
<1>1. CASE NoMemory
  BY <1>1, Failing, Zenon DEF NoMemory
<1>2. CASE Parsed(frames, "string", <<>>) /\ live' = live + 1
  <2>1. Waits(Top) /\ failure = "none" /\ Parsed(frames, "string", <<>>)
    BY <1>2 DEF String, ParserInv, Expected
  <2>2. <<>> \in Seq(Items) /\ Size(<<>>) = 0
    BY SizeOfNone
  <2>3. /\ Stacked(frames) /\ HeldBy(frames, live) /\ live \in Nat /\ Len(frames) \in Nat /\ Len(frames) >= 1
        /\ Waits(Last(frames))
    BY <2>1, ParserFacts DEF Top
  <2>4. /\ live' = live + Size(<<>>) + (IF "string" = "string" THEN 1 ELSE 0) /\ live' \in Nat
        /\ "string" \in {"scalar", "string"} \cup Openers
    BY <1>2, <2>2, <2>3
  <2>5. QED
    BY <2>1, <2>2, <2>3, <2>4, Parsing
<1>3. QED
  BY <1>1, <1>2, Zenon DEF String

LEMMA OpenKeeps ==
  ASSUME ParserInv, Open, strict' = strict
  PROVE  ParserInv'
<1>1. CASE Fail("depth")
  BY <1>1, Failing, Zenon
<1>2. CASE /\ frames' = Append(frames, NewFrame(ahead))
           /\ step' = "first"
           /\ Advance
           /\ UNCHANGED <<live, failure>>
  <2>1. step = "value" /\ ahead \in Openers /\ Waits(Top) /\ failure = "none"
    BY DEF Open, ParserInv, Expected
  <2>2. /\ Stacked(frames) /\ HeldBy(frames, live) /\ live \in Nat /\ Len(frames) \in Nat /\ Len(frames) >= 1
        /\ Waits(Last(frames))
    BY <2>1, ParserFacts DEF Top
  <2>3. /\ Stacked(frames') /\ HeldBy(frames', live) /\ Last(frames') = NewFrame(ahead)
        /\ Len(frames') = Len(frames) + 1
    BY <1>2, <2>1, <2>2, TopComes
  <2>4. live' = live /\ failure' = failure /\ step' = "first"
    BY <1>2
  <2>5. Expected'
    <3>1. Top'.current = 0
      BY <2>3 DEF Top, NewFrame
    <3>2. Len(frames') > 1
      BY <2>2, <2>3
    <3>3. QED
      BY <2>1, <2>4, <3>1, <3>2 DEF Expected
  <2>6. QED
    BY <1>2, <2>2, <2>3, <2>4, <2>5, Coming
<1>3. QED
  BY <1>1, <1>2, Zenon DEF Open

LEMMA CloseKeeps ==
  ASSUME ParserInv, Close, strict' = strict
  PROVE  ParserInv'
<1> DEFINE fs == Front(frames)
<1>1. /\ Parsed(fs, Top.kind, Top.kids) /\ live' = live
      /\ Len(frames) > 1 /\ Top.current = 0 /\ failure = "none"
  BY DEF Close, ParserInv, Expected
<1>2. /\ Stacked(frames) /\ HeldBy(frames, live) /\ live \in Nat /\ Len(frames) \in Nat /\ Len(frames) >= 1
      /\ Top \in Frames /\ Top.kind \in Openers
  BY <1>1, ParserFacts
<1>3. Top.kids \in Seq(Items) /\ Size(Top.kids) \in Nat /\ Held(Top) = Size(Top.kids)
  <2>1. Held(Top) = Size(Top.kids) + Top.current /\ Size(Top.kids) \in Nat
    BY <1>2, HeldType
  <2>2. Top.kids \in Seq(Items)
    BY <1>2 DEF Frames
  <2>3. QED
    BY <1>1, <2>1, <2>2
<1>4. /\ Stacked(fs) /\ Waits(Last(fs)) /\ Len(fs) = Len(frames) - 1
      /\ \E n \in Nat : live = n + Held(Top) /\ HeldBy(fs, n)
  BY <1>1, <1>2, TopGoes DEF Top
<1> HIDE DEF fs
<1>5. PICK n \in Nat : live = n + Held(Top) /\ HeldBy(fs, n)
  BY <1>4
<1>6. Top.kind \in {"scalar", "string"} \cup Openers /\ Top.kind # "string"
  BY <1>2, Zenon DEF Openers
<1>7. live' = n + Size(Top.kids) + (IF Top.kind = "string" THEN 1 ELSE 0) /\ live' \in Nat
  BY <1>1, <1>2, <1>3, <1>5, <1>6
<1>8. Len(fs) \in Nat /\ Len(fs) >= 1
  BY <1>1, <1>2, <1>4
<1> DEFINE t == Top.kind
           inside == Top.kids
<1>9. /\ t \in {"scalar", "string"} \cup Openers /\ inside \in Seq(Items) /\ Parsed(fs, t, inside)
      /\ live' = n + Size(inside) + (IF t = "string" THEN 1 ELSE 0)
  BY <1>1, <1>3, <1>6, <1>7
<1> HIDE DEF t, inside
<1>10. QED
  BY <1>1, <1>4, <1>5, <1>7, <1>8, <1>9, Parsing

\* The next item of a list, or the first.
LEMMA Continuing ==
  ASSUME ParserInv, step \in {"first", "more"}, step' = "item", Stay,
         UNCHANGED <<frames, live, failure>>, strict' = strict
  PROVE  ParserInv'
<1>1. frames' = frames /\ live' = live /\ failure' = failure /\ Top' = Top
  BY DEF Top
<1>2. Stacked(frames') /\ HeldBy(frames', live') /\ live' \in Nat
  BY <1>1, ParserFacts
<1>3. Top.current = 0 /\ failure = "none"
  BY DEF ParserInv, Expected
<1>4. Expected'
  BY <1>1, <1>3 DEF Expected
<1>5. QED
  BY <1>1, <1>2, <1>4, Coming

LEMMA RootKeeps ==
  ASSUME ParserInv, Root, strict' = strict
  PROVE  ParserInv'
<1>1. CASE Fail("text")
  BY <1>1, Failing, Zenon
<1>2. CASE step' = "done" /\ Stay /\ UNCHANGED <<frames, live, failure>>
  <2>1. frames' = frames /\ live' = live /\ failure' = failure /\ Top' = Top /\ step' = "done"
    BY <1>2 DEF Top
  <2>2. Stacked(frames') /\ HeldBy(frames', live') /\ live' \in Nat
    BY <2>1, ParserFacts
  <2>3. Top.current = 0 /\ failure = "none" /\ Len(frames) = 1
    BY DEF Root, ParserInv, Expected
  <2>4. Expected'
    BY <2>1, <2>3 DEF Expected
  <2>5. QED
    BY <1>2, <2>1, <2>2, <2>4, Coming
<1>3. QED
  BY <1>1, <1>2, Zenon DEF Root

LEMMA UnwindKeeps ==
  ASSUME ParserInv, Unwind, strict' = strict
  PROVE  ParserInv'
<1> DEFINE fs == Front(frames)
           l == Len(frames)
<1>1. step = "unwind" /\ live' = live - Held(Top) /\ Stay /\ failure' = failure
  BY DEF Unwind
<1>2. Stacked(frames) /\ HeldBy(frames, live) /\ live \in Nat /\ Len(frames) \in Nat /\ Len(frames) >= 1
      /\ Top \in Frames
  BY ParserFacts
<1>3. l \in Nat /\ l >= 1
  BY <1>2
<1>4. /\ (Len(frames) > 1 => Stacked(fs)) /\ Len(fs) = Len(frames) - 1
      /\ \E n \in Nat : live = n + Held(Top) /\ HeldBy(fs, n)
  BY <1>2, TopGoes DEF Top
<1> HIDE DEF fs, l
<1>5. l # 1 => l > 1
  BY <1>3
<1>6. l > 1 => l # 1
  BY <1>3
<1>7. PICK n \in Nat : live = n + Held(Top) /\ HeldBy(fs, n)
  BY <1>4
<1>8. live' = n /\ live' \in Nat
  <2>1. Held(Top) \in Nat
    BY <1>2, HeldType
  <2>2. QED
    BY <1>1, <1>2, <1>7, <2>1
<1>9. CASE Len(frames) > 1
  <2>1. frames' = fs /\ step' = "unwind"
    <3>1. Len(frames) # 1
      BY <1>9, <1>6 DEF l
    <3>2. QED
      BY <1>1, <3>1, Zenon DEF Unwind, fs
  <2>2. Expected'
    BY <2>1 DEF Expected
  <2>3. QED
    BY <1>1, <1>4, <1>7, <1>8, <1>9, <2>1, <2>2, Coming
<1>10. CASE Len(frames) = 1
  <2> DEFINE f == NewFrame("root")
  <2>1. frames' = <<f>> /\ step' = "done"
    BY <1>10 DEF Unwind
  <2>2. n = 0
    BY <1>4, <1>7, <1>10 DEF HeldBy
  <2>3. f.kind = "root" /\ f.kids = <<>> /\ f.current = 0 /\ f \in Frames /\ Held(f) = 0
    BY NewRoot
  <2> HIDE DEF f
  <2>4. Stacked(frames') /\ HeldBy(frames', 0) /\ Len(frames') = 1 /\ Top' = f
    <3>1. Stacked(<<f>>) /\ HeldBy(<<f>>, 0) /\ Len(<<f>>) = 1 /\ Last(<<f>>) = f
      BY OnlyRoot DEF f
    <3>2. QED
      BY <2>1, <3>1 DEF Top
  <2>5. Expected'
    BY <2>1, <2>3, <2>4 DEF Expected
  <2>6. QED
    BY <1>1, <1>8, <2>1, <2>2, <2>4, <2>5, Coming
<1>11. Len(frames) > 1 \/ Len(frames) = 1
  BY <1>5 DEF l
<1>12. QED
  BY <1>9, <1>10, <1>11, Zenon

LEMMA ParserStep == ParserInv /\ [ParserNext]_parserVars => ParserInv'
<1> SUFFICES ASSUME ParserInv, [ParserNext]_parserVars PROVE ParserInv'
  OBVIOUS
<1>1. CASE UNCHANGED parserVars
  BY <1>1 DEF parserVars, ParserInv, ParserTypeOK, Stacked, HeldBy, Held, Expected, Top, Waits, Awaits, Keyed
<1>2. CASE ParserNext
  <2>1. strict' = strict
    BY <1>2 DEF ParserNext
  <2>2. CASE NewItem
    BY <2>1, <2>2, NewItemKeeps
  <2>3. CASE Key
    BY <2>1, <2>3, KeyKeeps
  <2>4. CASE Colon
    BY <2>1, <2>4, ColonKeeps
  <2>5. CASE Scalar
    BY <2>1, <2>5, ScalarKeeps
  <2>6. CASE String
    BY <2>1, <2>6, StringKeeps
  <2>7. CASE Open
    BY <2>1, <2>7, OpenKeeps
  <2>8. CASE NoValue
    <3>1. Fail("text")
      BY <2>8 DEF NoValue
    <3>2. QED
      BY <2>1, <3>1, Failing
  <2>9. CASE Close
    BY <2>1, <2>9, CloseKeeps
  <2>10. CASE First
    BY <2>1, <2>10, Continuing DEF First
  <2>11. CASE More
    <3>1. CASE Fail("text")
      BY <2>1, <3>1, Failing
    <3>2. CASE step = "more" /\ step' = "item" /\ Stay /\ UNCHANGED <<frames, live, failure>>
      BY <2>1, <3>2, Continuing
    <3>3. QED
      BY <2>11, <3>1, <3>2, Zenon DEF More
  <2>12. CASE Root
    BY <2>1, <2>12, RootKeeps
  <2>13. CASE Unwind
    BY <2>1, <2>13, UnwindKeeps
  <2>14. QED
    BY <1>2, <2>2, <2>3, <2>4, <2>5, <2>6, <2>7, <2>8, <2>9, <2>10, <2>11, <2>12, <2>13, Zenon DEF ParserNext
<1>3. QED
  BY <1>1, <1>2

LEMMA ParserHolds == ParserSpec => []ParserInv
BY ParserInvStarts, ParserStep, PTL DEF ParserSpec

\* The frames of parse_array and parse_object are stacked on the root, in every
\* state of the descent and of the unwinding.
THEOREM ParserTypes == ParserSpec => []ParserTypeOK
<1>1. ParserInv => ParserTypeOK
  BY DEF ParserInv
<1>2. QED
  BY <1>1, ParserHolds, PTL

\* cJSON_Parse that fails has given back every item, string and key it had
\* allocated, wherever it failed; and one that succeeds has allocated nothing but
\* the tree that it returns.
THEOREM ParserLeaksNothing == ParserSpec => []NothingLeaks
<1>1. ParserInv => NothingLeaks
  <2> SUFFICES ASSUME ParserInv, step = "done" PROVE live = IF failure = "none" THEN Size(Result) ELSE 0
    BY DEF NothingLeaks
  <2>1. Len(frames) = 1 /\ Top.current = 0 /\ (failure # "none" => Top.kids = <<>>)
    BY DEF ParserInv, Expected
  <2>2. /\ Stacked(frames) /\ HeldBy(frames, live) /\ live \in Nat /\ Top \in Frames /\ Top = frames[1]
    BY <2>1, ParserFacts
  <2>3. live = Held(Top)
    <3>1. PICK sum \in [0 .. 1 -> Nat] : /\ sum[0] = 0
                                         /\ \A i \in 1 .. 1 : sum[i] = sum[i - 1] + Held(frames[i])
                                         /\ live = sum[1]
      BY <2>1, <2>2 DEF HeldBy
    <3>2. sum[1] = sum[0] + Held(frames[1])
      BY <3>1
    <3>3. Held(Top) \in Nat
      BY <2>2, HeldType
    <3>4. QED
      BY <2>2, <3>1, <3>2, <3>3
  <2>4. Held(Top) = Size(Top.kids) + Top.current /\ Size(Top.kids) \in Nat
    BY <2>2, HeldType
  <2>5. live = Size(Top.kids)
    BY <2>1, <2>3, <2>4
  <2>6. QED
    BY <2>1, <2>5, SizeOfNone DEF Result
<1>2. QED
  BY <1>1, ParserHolds, PTL

================================================================================
