------------------------------ MODULE RequestBody ------------------------------
(***************************************************************************)
(* How one client thread takes a request off its socket: read_req into the *)
(* fixed buffer, _parse_req_body into memory, _parse_media into a          *)
(* temporary file, then the handler.  The socket is a stream of byte       *)
(* positions, header first, body next, perhaps the bytes of a further      *)
(* request behind it.  What the thread stores is the positions it stored,  *)
(* so that a gap or a byte of another request shows.                       *)
(*                                                                         *)
(* The request line parses and the declared length stands in the part of   *)
(* the header that fits the buffer; Connections models the other case.     *)
(***************************************************************************)
EXTENDS Integers, Sequences

CONSTANTS
  ContentTypes, \* what Content-Type may contain: a subset of ContentKinds
  HeaderLens,  \* bytes up to and including the blank line
  BodyLens,    \* values of Content-Length
  Extras,      \* bytes the client may send behind the body
  Cap,         \* BUFFER_SIZE - 1
  MaxMem,      \* MAX_BODY_IN_MEMORY
  FileBuffer,  \* FILE_BUFFER
  SizeT,       \* a size_t has SizeT values
  Faults,      \* a subset of FaultKinds
  NoBody,      \* req->body = NULL
  NoFile       \* no temporary file was opened

\* "json" and "text" are what _parse_req_body tests for; everything else,
\* a request without Content-Type included, is "other".
ContentKinds == {"json", "text", "other"}
FaultKinds   == {"malloc", "fopen", "fwrite"}

ASSUME RequestBodyAssumption ==
  /\ ContentTypes \subseteq ContentKinds
  /\ HeaderLens \subseteq Nat \ {0}
  /\ BodyLens \subseteq Nat
  /\ Extras \subseteq Nat
  /\ Cap \in Nat \ {0} /\ FileBuffer \in Nat \ {0} /\ MaxMem \in Nat
  /\ SizeT \in Nat /\ Cap < SizeT /\ \A n \in BodyLens : n < SizeT
  /\ Faults \subseteq FaultKinds
  /\ NoBody \notin Seq(Nat) /\ NoFile \notin Seq(Nat)

VARIABLES
  kind, hlen, clen, extra,  \* the request: chosen once
  arrived,    \* bytes the client has sent
  ended,      \* the client has closed its end
  where,      \* where the thread is
  buf,        \* bytes in the request buffer
  taken,      \* bytes received from the socket
  body,       \* req->body, the first body_size bytes of it
  remaining,  \* of _parse_req_body
  file,       \* the temporary file
  filename,   \* req->filename is set
  waited,     \* history: a recv of the upload has run into SO_RCVTIMEO
  faulty      \* history: a resource failed or a select() gave up

request == <<kind, hlen, clen, extra>>
bodyVars ==
  <<request, arrived, ended, where, buf, taken, body, remaining, file, filename, waited, faulty>>

\* The positions from + 1 .. to.
Part(from, to) == [i \in 1 .. (to - from) |-> from + i]

BodyEnd == hlen + clen
StreamEnd == BodyEnd + extra

BodyInit ==
  /\ kind \in ContentTypes /\ hlen \in HeaderLens /\ clen \in BodyLens /\ extra \in Extras
  /\ arrived = 0
  /\ ended = FALSE
  /\ where = "head"
  /\ buf = 0
  /\ taken = 0
  /\ body = NoBody
  /\ remaining = 0
  /\ file = NoFile
  /\ filename = FALSE
  /\ waited = FALSE
  /\ faulty = FALSE

-----------------------------------------------------------------------------
(***************************************************************************)
(* The client sends in segments of its choice and may stop at any byte.    *)
(***************************************************************************)

ClientSend ==
  /\ ~ended
  /\ \E s \in (arrived + 1) .. StreamEnd : arrived' = s
  /\ UNCHANGED <<request, ended, where, buf, taken, body, remaining, file, filename,
                 waited, faulty>>

ClientEnd ==
  /\ ~ended
  /\ ended' = TRUE
  /\ UNCHANGED <<request, arrived, where, buf, taken, body, remaining, file, filename,
                 waited, faulty>>

\* recv() with room for `room' bytes returns some of those that wait.
Recv(room) ==
  \E n \in 1 .. room :
    /\ n <= arrived - taken
    /\ taken' = taken + n

NothingWaits == arrived = taken

-----------------------------------------------------------------------------
(***************************************************************************)
(* read_req                                                                *)
(***************************************************************************)

Terminated == buf >= hlen

\* The last byte of the buffer is not kept for the '\0'.
MutRecvHead ==
  /\ where = "head"
  /\ Recv(Cap + 1 - buf)
  /\ buf' = taken'
  /\ where' = IF buf' >= hlen \/ buf' >= Cap THEN "body" ELSE "head"
  /\ UNCHANGED <<request, arrived, ended, body, remaining, file, filename, waited, faulty>>

RecvHead ==
  /\ where = "head"
  /\ Recv(Cap - buf)
  /\ buf' = taken'
  /\ where' = IF buf' >= hlen \/ buf' = Cap THEN "body" ELSE "head"
  /\ UNCHANGED <<request, arrived, ended, body, remaining, file, filename, waited, faulty>>

\* The end of the stream or SO_RCVTIMEO: closed without a response.
HeadStops ==
  /\ where = "head"
  /\ NothingWaits
  /\ where' = "closed"
  /\ UNCHANGED <<request, arrived, ended, buf, taken, body, remaining, file, filename,
                 waited, faulty>>

-----------------------------------------------------------------------------
(***************************************************************************)
(* _parse_req_body                                                         *)
(***************************************************************************)

InMemory ==
  /\ Terminated /\ clen > 0
  /\ kind \in {"json", "text"} /\ clen <= MaxMem

SkipBody ==
  /\ where = "body"
  /\ ~InMemory
  /\ where' = "media"
  /\ UNCHANGED <<request, arrived, ended, buf, taken, body, remaining, file, filename,
                 waited, faulty>>

\* The part that came with the header is copied, however long it is.
AllocBody ==
  /\ where = "body"
  /\ InMemory
  /\ body' = Part(hlen, buf)
  /\ remaining' = (clen - (buf - hlen)) % SizeT
  /\ where' = "memory"
  /\ UNCHANGED <<request, arrived, ended, buf, taken, file, filename, waited, faulty>>

AllocBodyFails ==
  /\ where = "body"
  /\ InMemory
  /\ "malloc" \in Faults
  /\ faulty' = TRUE
  /\ where' = "media"
  /\ UNCHANGED <<request, arrived, ended, buf, taken, body, remaining, file, filename, waited>>

\* recv() writes to body + remaining rather than body + total_read.
MutRecvBody ==
  /\ where = "memory"
  /\ remaining > 0
  /\ Recv(remaining)
  /\ body' = Part(taken, taken') \o body
  /\ remaining' = remaining - (taken' - taken)
  /\ UNCHANGED <<request, arrived, ended, where, buf, file, filename, waited, faulty>>

RecvBody ==
  /\ where = "memory"
  /\ remaining > 0
  /\ Recv(remaining)
  /\ body' = body \o Part(taken, taken')
  /\ remaining' = remaining - (taken' - taken)
  /\ UNCHANGED <<request, arrived, ended, where, buf, file, filename, waited, faulty>>

\* A timeout of select() goes round the loop again.
MutBodyStops ==
  /\ where = "memory"
  /\ remaining > 0
  /\ NothingWaits
  /\ faulty' = (faulty \/ ~ended)
  /\ where' = IF ended THEN "media" ELSE "memory"
  /\ UNCHANGED <<request, arrived, ended, buf, taken, body, remaining, file, filename, waited>>

\* select() finds nothing for five seconds, or recv() the end of the stream:
\* the request goes on with what there is.
BodyStops ==
  /\ where = "memory"
  /\ remaining > 0
  /\ NothingWaits
  /\ faulty' = (faulty \/ ~ended)
  /\ where' = "media"
  /\ UNCHANGED <<request, arrived, ended, buf, taken, body, remaining, file, filename, waited>>

BodyComplete ==
  /\ where = "memory"
  /\ remaining = 0
  /\ where' = "media"
  /\ UNCHANGED <<request, arrived, ended, buf, taken, body, remaining, file, filename,
                 waited, faulty>>

-----------------------------------------------------------------------------
(***************************************************************************)
(* _parse_media and _save_body_to_temp_file                                *)
(***************************************************************************)

\* content_type is an array and never NULL.
Uploaded == clen > 0 /\ kind # "json"

SkipMedia ==
  /\ where = "media"
  /\ ~Uploaded
  /\ where' = "handler"
  /\ UNCHANGED <<request, arrived, ended, buf, taken, body, remaining, file, filename,
                 waited, faulty>>

\* fopen() or the first fwrite() fails, or the buffer has no blank line: the
\* request goes on without a file name.
OpenFails ==
  /\ where = "media"
  /\ Uploaded
  /\ \/ /\ {"fopen", "fwrite"} \cap Faults # {}
        /\ faulty' = TRUE
     \/ /\ ~Terminated
        /\ UNCHANGED faulty
  /\ where' = "handler"
  /\ UNCHANGED <<request, arrived, ended, buf, taken, body, remaining, file, filename, waited>>

Clipped == IF buf > BodyEnd THEN BodyEnd ELSE buf

\* The part of the body that came with the header is not written.
MutOpenFile ==
  /\ where = "media"
  /\ Uploaded
  /\ Terminated
  /\ file' = <<>>
  /\ where' = "file"
  /\ UNCHANGED <<request, arrived, ended, buf, taken, body, remaining, filename, waited, faulty>>

OpenFile ==
  /\ where = "media"
  /\ Uploaded
  /\ Terminated
  /\ file' = Part(hlen, Clipped)
  /\ where' = "file"
  /\ UNCHANGED <<request, arrived, ended, buf, taken, body, remaining, filename, waited, faulty>>

Lesser(m, n) == IF m < n THEN m ELSE n

\* A chunk is received and written whole.
RecvFile ==
  /\ where = "file"
  /\ Len(file) < clen
  /\ Recv(Lesser(FileBuffer, clen - Len(file)))
  /\ file' = file \o Part(taken, taken')
  /\ UNCHANGED <<request, arrived, ended, where, buf, body, remaining, filename, waited, faulty>>

\* fwrite() is short: the chunk is lost, and the upload with it.
RecvFileFails ==
  /\ where = "file"
  /\ Len(file) < clen
  /\ "fwrite" \in Faults
  /\ Recv(Lesser(FileBuffer, clen - Len(file)))
  /\ faulty' = TRUE
  /\ where' = "handler"
  /\ UNCHANGED <<request, arrived, ended, buf, body, remaining, file, filename, waited>>

\* recv() returns 0 and the loop takes it for EINTR.
MutFileEnds ==
  /\ where = "file"
  /\ Len(file) < clen
  /\ ended /\ NothingWaits
  /\ UNCHANGED bodyVars

\* The name is kept even when the upload came to nothing.
MutFileEndsNamed ==
  /\ where = "file"
  /\ Len(file) < clen
  /\ ended /\ NothingWaits
  /\ filename' = TRUE
  /\ where' = "handler"
  /\ UNCHANGED <<request, arrived, ended, buf, taken, body, remaining, file, waited, faulty>>

\* The end of the stream: return 1.
FileEnds ==
  /\ where = "file"
  /\ Len(file) < clen
  /\ ended /\ NothingWaits
  /\ where' = "handler"
  /\ UNCHANGED <<request, arrived, ended, buf, taken, body, remaining, file, filename,
                 waited, faulty>>

\* SO_RCVTIMEO: recv() fails with EAGAIN, and the loop continues.
FileRetries ==
  /\ where = "file"
  /\ Len(file) < clen
  /\ ~ended /\ NothingWaits
  /\ waited' = TRUE
  /\ UNCHANGED <<request, arrived, ended, where, buf, taken, body, remaining, file, filename, faulty>>

FileComplete ==
  /\ where = "file"
  /\ Len(file) = clen
  /\ filename' = TRUE
  /\ body' = NoBody
  /\ where' = "handler"
  /\ UNCHANGED <<request, arrived, ended, buf, taken, remaining, file, waited, faulty>>

\* find_route, the middlewares, the handler, send_response and close.
HandleRequest ==
  /\ where = "handler"
  /\ where' = "answered"
  /\ UNCHANGED <<request, arrived, ended, buf, taken, body, remaining, file, filename,
                 waited, faulty>>

ReadHead   == RecvHead \/ HeadStops
ReadBody   == SkipBody \/ AllocBody \/ AllocBodyFails \/ RecvBody \/ BodyStops \/ BodyComplete
ReadMedia  == SkipMedia \/ OpenFails \/ OpenFile \/ RecvFile \/ RecvFileFails
              \/ FileEnds \/ FileRetries \/ FileComplete

Server == ReadHead \/ ReadBody \/ ReadMedia \/ HandleRequest

BodyNext == ClientSend \/ ClientEnd \/ Server

\* The thread is scheduled, and every recv() and select() it makes returns: it
\* has a timeout.  The client owes nothing.
BodySpec == BodyInit /\ [][BodyNext]_bodyVars
BodyFairSpec == BodySpec /\ WF_bodyVars(Server)

-----------------------------------------------------------------------------
(***************************************************************************)
(* Properties.                                                             *)
(***************************************************************************)

Positions == 1 .. StreamEnd

\* The type of every variable.
BodyTypeOK ==
  /\ kind \in ContentTypes /\ hlen \in HeaderLens /\ clen \in BodyLens /\ extra \in Extras
  /\ arrived \in 0 .. StreamEnd
  /\ ended \in BOOLEAN
  /\ where \in {"head", "body", "memory", "media", "file", "handler", "answered", "closed"}
  /\ buf \in 0 .. Cap
  /\ taken \in 0 .. arrived
  /\ body = NoBody \/ body \in Seq(Positions)
  /\ remaining \in 0 .. (SizeT - 1)
  /\ file = NoFile \/ file \in Seq(Positions)
  /\ filename \in BOOLEAN
  /\ waited \in BOOLEAN
  /\ faulty \in BOOLEAN

\* A file name that reaches the handler names a file that holds exactly the
\* body: every byte once, in order, whether it came with the header or later.
FileIsBody == filename => file = Part(hlen, BodyEnd) /\ body = NoBody

AtHandler == where \in {"handler", "answered"}

\* What the handler finds in req->body is the beginning of the body, and no
\* more than the Content-Length bytes that were allocated for it.
BodyIsPrefix ==
  (AtHandler /\ body # NoBody) =>
    Len(body) <= clen /\ body = Part(hlen, hlen + Len(body))

\* A client that sends the whole body gets the whole body to the handler, in
\* memory or in a file: unless a resource fails, select() loses patience, the
\* header does not fit the buffer, or the body is JSON and over the limit.
BodyDelivered ==
  (AtHandler /\ arrived >= BodyEnd /\ clen > 0 /\ Terminated /\ ~faulty) =>
    \/ filename
    \/ body = Part(hlen, BodyEnd)
    \/ kind = "json" /\ clen > MaxMem

\* MAX_BODY_IN_MEMORY: no body in memory is longer.
MemoryBound == body # NoBody => Len(body) <= MaxMem

\* No client keeps the thread in read_req or _parse_req_body for ever.
ReadingEnds ==
  where \in {"head", "body", "memory"} ~> where \notin {"head", "body", "memory"}

\* An upload that is not text ends once the client has sent it or has gone.
UploadEnds ==
  (where = "file" /\ kind = "other" /\ (ended \/ arrived >= BodyEnd)) ~> where = "answered"

\* Taking a request off its socket ends, however it is stored.
TakingEnds == ReadingEnds /\ UploadEnds

\* "reads the request, parses it, calls the matching route handler, and sends
\* the response": a request that has arrived completely is answered, or the
\* thread gave up on its header.
CompleteIsAnswered == arrived = StreamEnd ~> where \in {"answered", "closed"}

\* read_timeout_sec ends a read that gets nothing.
ReadTimeoutHonoured == waited ~> where # "file"

================================================================================
