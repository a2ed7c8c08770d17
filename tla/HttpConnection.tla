---------------------------- MODULE HttpConnection ----------------------------
(***************************************************************************)
(* The tracker's side of the connections: one at a time is accepted, and   *)
(* its requests are read, handed up and answered one by one until the      *)
(* client closes it.  HTTP is parsed by boost; only the body of a POST is  *)
(* not taken from there: retrieveBody searches it in the receive buffer,   *)
(* as the C string at its beginning.                                       *)
(*                                                                         *)
(* The parser consumes the buffer, so every request is read to the         *)
(* beginning of the same block, and what earlier, longer requests left     *)
(* there stands behind it.  A request longer than what one read may fetch  *)
(* is consumed in two pieces, the second of which overwrites the first.    *)
(***************************************************************************)
EXTENDS Clients, FiniteSetsExt

CONSTANTS
  ReadSize,    \* the tokens one read may fetch (512 bytes)
  MaxBuffer    \* ms_maxBufferSize (4096 bytes)

NoClient == "no client"

\* A header is read in one piece, a request in two at most.
ASSUME SizesAssumption ==
  /\ ReadSize \in Nat /\ MaxBuffer \in Nat /\ ReadSize < MaxBuffer
  /\ \A r \in RequestsOf(Scripts) : HeaderSize(r) <= ReadSize /\ Len(Wire(r)) <= 2 * ReadSize

ASSUME ClientAssumption == NoClient \notin Client

VARIABLES
  server,      \* "accept", "read", "write", "terminated" (an uncaught exception)
  serving,     \* the client of the open connection, or NoClient
  memory,      \* the block of m_buffer up to its first zero byte
  response,    \* the status of m_response
  blocked,     \* the handler waits inside onMessage, in the map manager
  handed       \* history: per client, what was handed to the upper layers

vars == <<clientVars, server, serving, memory, response, blocked, handed>>

Up == server # "terminated"

Init ==
  /\ ClientInit
  /\ server = "accept" /\ serving = NoClient /\ memory = <<>> /\ response = NoStatus
  /\ blocked = FALSE /\ handed = [c \in Client |-> <<>>]

---------------------------------------------------------------------------
(* The receive buffer.                                                     *)

Overlay(piece, block) == piece \o SubSeq(block, Len(piece) + 1, Len(block))

\* The block after the request r was read and consumed.
MemoryAfter(r, block) ==
  LET w == Wire(r)
  IN  IF Len(w) <= ReadSize THEN Overlay(w, block)
      ELSE Overlay(SubSeq(w, ReadSize + 1, Len(w)), Overlay(SubSeq(w, 1, ReadSize), block))

Lines(block) == {i \in DOMAIN block : block[i][1] = "Content-Length"}

\* Mutant of RetrieveBody: all the string behind the header.
RetrieveRest(r, block) ==
  LET starts == {j \in DOMAIN block : j > Max(Lines(block)) /\ block[j] # Blank}
  IN  IF r.body = <<>> \/ Lines(block) = {} \/ starts = {} THEN <<>>
      ELSE SubSeq(block, Min(starts), Len(block))

\* As many tokens as the header announces, from behind the last Content-Length in
\* the block and the line ends after it; <<>> where the code returns false.
RetrieveBody(r, block) ==
  LET n == Len(r.body)
      starts == {j \in DOMAIN block : j > Max(Lines(block)) /\ block[j] # Blank}
  IN  IF \/ n = 0 \/ n >= MaxBuffer \/ Len(block) <= n \/ Len(block) >= MaxBuffer
         \/ Lines(block) = {} \/ starts = {}
      THEN <<>>
      ELSE SubSeq(block, Min(starts), Min({Len(block), Min(starts) + n - 1}))

---------------------------------------------------------------------------
(* The requests.                                                           *)

\* Mutant of Respond: m_response is not replaced.
KeepResponse(status) ==
  /\ response' = (IF response = NoStatus THEN status ELSE response) /\ server' = "write"

Respond(status) == response' = status /\ server' = "write"

\* What onMessage returns: CMD_UNKNOWN, CMD_FAILED or CMD_SUCCEEDED.
Results(command) ==
  IF command \in {"keySent", "isHotKey", "getTopHotKeys", "totalKeys", "time",
                 "shutdown", "restart"} THEN {1}
  ELSE IF command \in {"restore", "setTopHotKeys", "setKeyReportBaseSize"} THEN {0, 1}
  ELSE {-1}
Status(result) == IF result = 1 THEN "200" ELSE IF result = 0 THEN "500" ELSE "404"

\* A restore has failed: it may have left m_writingData set, and until a submission
\* or a backup clears it (neither is in this module) a query waits.
RestoreHasFailed ==
  \E c \in Client : \E i \in DOMAIN handed[c] :
    script[c][handed[c][i].number].command = "restore" /\ handed[c][i].result = 0
MayBlock(r) == r.command \in {"isHotKey", "getTopHotKeys"} /\ RestoreHasFailed

\* The functor, MessageServer::onMessage in the end; its answer becomes the status.
\* A query that waits has its answer prepared here, but written only afterwards.
HandUp(r, payload) ==
  \E result \in Results(r.command) :
    /\ handed' = [handed EXCEPT ![serving] =
                    Append(@, [number |-> next[serving], payload |-> payload, result |-> result])]
    /\ Respond(Status(result))
    /\ blocked' \in (IF MayBlock(r) THEN BOOLEAN ELSE {FALSE})

\* A GET has no payload.
OnGetMessage(r) == HandUp(r, <<>>)

\* The default page is a file, which may not be there.
CreateGetResponse(r) ==
  IF r.command = "/" THEN (\E s \in {"200", "404"} : Respond(s)) /\ UNCHANGED <<blocked, handed>>
  ELSE OnGetMessage(r)

\* Without a Content-Length the code makes a string of a null pointer, which
\* throws; nobody catches.
CreatePostResponse(r) ==
  IF Lines(r.header) = {} THEN server' = "terminated" /\ UNCHANGED <<response, blocked, handed>>
  ELSE IF RetrieveBody(r, memory') = <<>> THEN Respond("404") /\ UNCHANGED <<blocked, handed>>
  ELSE HandUp(r, RetrieveBody(r, memory'))

ProcessRequest(r) ==
  CASE r.verb = "GET" -> CreateGetResponse(r)
    [] r.verb = "POST" -> CreatePostResponse(r)
    [] OTHER -> Respond("400") /\ UNCHANGED <<blocked, handed>>

---------------------------------------------------------------------------
(* The connections.                                                        *)

\* A connection gets a new buffer: fresh memory, or the block of the one before.
Accept ==
  /\ server = "accept" /\ backlog # <<>>
  /\ serving' = Head(backlog) /\ backlog' = Tail(backlog) /\ server' = "read"
  /\ memory' \in {<<>>, memory}
  /\ UNCHANGED <<script, next, phase, sent, reply, got, response, blocked, handed>>

\* Mutant of ReadRequest: what was read is not consumed.
ReadAgain ==
  /\ server = "read" /\ sent[serving]
  /\ memory' = MemoryAfter(Current(serving), memory)
  /\ ProcessRequest(Current(serving))
  /\ UNCHANGED <<clientVars, serving>>

\* readRequest and processRequest.
ReadRequest ==
  /\ server = "read" /\ sent[serving]
  /\ sent' = [sent EXCEPT ![serving] = FALSE]
  /\ memory' = MemoryAfter(Current(serving), memory)
  /\ ProcessRequest(Current(serving))
  /\ UNCHANGED <<script, next, phase, reply, got, backlog, serving>>

\* The reply goes out; to a client that is gone it may still seem to, or the write
\* fails and the connection is stopped.
WriteResponse ==
  /\ server = "write" /\ ~blocked
  /\ IF phase[serving] = "waiting"
     THEN /\ reply' = [reply EXCEPT ![serving] = response]
          /\ server' = "read" /\ UNCHANGED serving
     ELSE /\ \/ server' = "read" /\ UNCHANGED serving
             \/ server' = "accept" /\ serving' = NoClient
          /\ UNCHANGED reply
  /\ UNCHANGED <<script, next, phase, sent, got, backlog, memory, response, blocked, handed>>

\* Mutant of ReadEnd: the handler returns without arming the acceptor again.
ReadEndOnly ==
  /\ server = "read" /\ phase[serving] = "closed" /\ server' = "idle"
  /\ serving' = NoClient /\ sent' = [sent EXCEPT ![serving] = FALSE]
  /\ UNCHANGED <<script, next, phase, reply, got, backlog, memory, response, blocked, handed>>

\* End of stream, or a reset that drops what was not read: the connection is
\* stopped and the acceptor armed again.
ReadEnd ==
  /\ server = "read" /\ phase[serving] = "closed" /\ server' = "accept"
  /\ serving' = NoClient /\ sent' = [sent EXCEPT ![serving] = FALSE]
  /\ UNCHANGED <<script, next, phase, reply, got, backlog, memory, response, blocked, handed>>

\* A submission or the hourly backup ends the wait; nothing obliges one to come.
Unblock ==
  /\ blocked /\ blocked' = FALSE
  /\ UNCHANGED <<clientVars, server, serving, memory, response, handed>>

ServerNext == Accept \/ ReadRequest \/ WriteResponse \/ ReadEnd

Next ==
  \/ ServerNext
  \/ Unblock
  \/ ClientNext(Up) /\ UNCHANGED <<server, serving, memory, response, blocked, handed>>

\* The tracker's thread runs, and so do the programs once they are connected;
\* nobody has to start or to kill one.
Fairness ==
  /\ WF_vars(ServerNext)
  /\ \A c \in Client :
       WF_vars(/\ Send(c, Up) \/ Receive(c) \/ Disconnect(c) \/ Fail(c, Up)
               /\ UNCHANGED <<server, serving, memory, response, blocked, handed>>)

Spec == Init /\ [][Next]_vars /\ Fairness

---------------------------------------------------------------------------
TypeOK ==
  /\ ClientTypeOK
  /\ server \in {"accept", "read", "write", "terminated"}
  /\ serving \in Client \cup {NoClient} /\ (server \in {"read", "write"} => serving # NoClient)
  /\ response \in Statuses \cup {NoStatus}
  /\ blocked \in BOOLEAN
  /\ \A c \in Client : \A i \in DOMAIN handed[c] :
       /\ handed[c][i].number \in DOMAIN script[c]
       /\ handed[c][i].result \in Results(script[c][handed[c][i].number].command)

Short(r) == Len(Wire(r)) <= ReadSize

\* How the repository's programs write their requests: Content-Length is the last
\* line of the header, and a request that carries a body reaches at least as far
\* as the Content-Length of any other, their targets being about equally long.
Orderly(requests) ==
  /\ \A r \in requests :
       /\ \A i \in Lines(r.header) : i = Len(r.header)
       /\ \A i \in DOMAIN r.body : r.body[i] # Blank /\ r.body[i][1] # "Content-Length"
  /\ \A r, q \in requests :
       r.verb = "POST" /\ Short(r) /\ r.body # <<>> /\ Lines(q.header) # {}
         => q.width + Len(q.header) <= Len(Wire(r))

\* The repository's programs put Content-Length last, and their targets differ by
\* less than the length of a request from there on: whatever older requests left
\* in the block, a request that fits one read is handed up with its own body.
PayloadIsBody ==
  \A c \in Client : \A i \in DOMAIN handed[c] :
    LET r == script[c][handed[c][i].number]
    IN  r.verb = "POST" /\ Short(r) => handed[c][i].payload = r.body

\* "Payload (plain text): 'text of the key' (reports the key to the tracker)"
\* (README.md:97): what a client posts is what is handed up.
PostedTextIsReported ==
  \A c \in Client : \A i \in DOMAIN handed[c] :
    LET r == script[c][handed[c][i].number]
    IN  r.verb = "POST" => handed[c][i].payload = r.body

\* A command reaches the upper layers at most once and in the client's order, also
\* when the client vanishes before its reply; and exactly once if it is answered:
\* nothing is dropped but the default page, other verbs, and bodies that are empty
\* or too long for one read.
Due(r) ==
  \/ r.verb = "GET" /\ r.command # "/"
  \/ r.verb = "POST" /\ Short(r) /\ r.body # <<>>
HandedOnce ==
  \A c \in Client :
    /\ \A i, j \in DOMAIN handed[c] : i < j => handed[c][i].number < handed[c][j].number
    /\ \A n \in DOMAIN got[c] :
         Due(script[c][n]) => \E i \in DOMAIN handed[c] : handed[c][i].number = n

\* A client reads the outcome of this very request, never one of an earlier
\* request, of another client, or a success of what was not handed up.
ReplyIsOwn ==
  \A c \in Client : \A n \in DOMAIN got[c] :
    \/ \E i \in DOMAIN handed[c] : handed[c][i].number = n /\ got[c][n] = Status(handed[c][i].result)
    \/ /\ \A i \in DOMAIN handed[c] : handed[c][i].number # n
       /\ got[c][n] \in {"400", "404"} \/ script[c][n].command = "/"

\* Every program that has connected comes to its end, whatever becomes of the
\* others: a connection ends when its client does, and the next is accepted; unless
\* a query waits behind a failed restore for ever.  (A program also ends when it
\* finds the tracker gone.)
ClientsFinish ==
  \A c \in Client :
    [](phase[c] = "connected" => <>(phase[c] = "closed") \/ <>[]blocked)
=============================================================================
