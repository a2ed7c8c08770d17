------------------------ MODULE HttpConnectionProofs ------------------------
(***************************************************************************)
(* Theorems about HttpConnection for any number of clients and any scripts *)
(* of requests: no command is handed up twice or out of order, and a reply *)
(* is the outcome of the request the client is waiting for.  The invariant *)
(* Exchange follows one request of a client from its socket to the reply.  *)
(* For orderly requests, those the repository's programs send, the buffer  *)
(* holds no stale Content-Length that could hide a body, so that a body is *)
(* handed up as it was sent.                                               *)
(***************************************************************************)
EXTENDS HttpConnection, SequenceTheorems, TLAPS

\* A sequence stays one when something is appended to it.
LEMMA AppendToSequence ==
  ASSUME NEW s, IsSequence(s), NEW e
  PROVE  /\ IsSequence(Append(s, e)) /\ Len(s) \in Nat
         /\ DOMAIN s = 1 .. Len(s) /\ DOMAIN Append(s, e) = 1 .. Len(s) + 1
         /\ \A i \in 1 .. Len(s) : Append(s, e)[i] = s[i]
         /\ Append(s, e)[Len(s) + 1] = e
<1> DEFINE S == {s[i] : i \in DOMAIN s} \cup {e}
           t == Append(s, e)
<1>1. s \in Seq(S) /\ e \in S
  <2>1. s \in Seq({s[i] : i \in DOMAIN s})
    BY DEF IsSequence
  <2>2. Len(s) \in Nat /\ DOMAIN s = 1 .. Len(s) /\ s = [i \in 1 .. Len(s) |-> s[i]]
    BY <2>1
  <2> QED
    BY <2>2
<1> HIDE DEF S
<1>2. /\ t \in Seq(S) /\ Len(s) \in Nat /\ Len(t) = Len(s) + 1
      /\ DOMAIN s = 1 .. Len(s) /\ DOMAIN t = 1 .. Len(t)
      /\ \A i \in 1 .. Len(s) : t[i] = s[i]
      /\ t[Len(s) + 1] = e
  BY <1>1
<1> HIDE DEF t
<1>3. t \in Seq({t[i] : i \in DOMAIN t})
  <2>1. t = [i \in 1 .. Len(t) |-> t[i]] /\ Len(t) \in Nat
    BY <1>2
  <2> QED
    BY <1>2, <2>1
<1> QED
  BY <1>2, <1>3 DEF t, IsSequence

---------------------------------------------------------------------------
\* A reply to the client is being prepared.
Answering(c) == server = "write" /\ serving = c

\* status is the outcome of the client's n-th request (see ReplyIsOwn).
Outcome(c, n, status) ==
  \/ \E i \in DOMAIN handed[c] : handed[c][i].number = n /\ status = Status(handed[c][i].result)
  \/ /\ \A i \in DOMAIN handed[c] : handed[c][i].number # n
     /\ status \in {"400", "404"} \/ script[c][n].command = "/"

\* A request is in the client's socket, in the tracker's hands, answered, or not
\* yet sent, and never two of these at once; what is handed up is numbered by it.
Exchange(c) ==
  /\ phase[c] \in {"out", "connected"} => ~sent[c] /\ reply[c] = NoStatus /\ ~Answering(c)
  /\ Answering(c) => ~sent[c] /\ reply[c] = NoStatus /\ Outcome(c, next[c], response)
  /\ sent[c] => reply[c] = NoStatus
  /\ reply[c] # NoStatus => phase[c] = "waiting" /\ Outcome(c, next[c], reply[c])
  /\ sent[c] \/ Answering(c) \/ phase[c] = "waiting" => next[c] <= Len(script[c])
  /\ Len(got[c]) = next[c] - 1
  /\ \A n \in 1 .. Len(got[c]) : Outcome(c, n, got[c][n])
  /\ \A i \in DOMAIN handed[c] : handed[c][i].number <= next[c]
  /\ phase[c] \in {"out", "connected"} \/ sent[c] =>
       \A i \in DOMAIN handed[c] : handed[c][i].number < next[c]
  /\ \A i, j \in DOMAIN handed[c] : i < j => handed[c][i].number < handed[c][j].number

Histories ==
  DOMAIN handed = Client /\ DOMAIN next = Client /\ \A c \in Client : IsSequence(handed[c])

ExchangeInv == TypeOK /\ Histories /\ \A c \in Client : Exchange(c)

\* The number of requests of a client.
LEMMA ScriptLength ==
  ASSUME TypeOK, NEW c \in Client
  PROVE  /\ Len(script[c]) \in Nat /\ DOMAIN script[c] = 1 .. Len(script[c])
         /\ next[c] \in Nat /\ next[c] >= 1
<1>1. script[c] \in Scripts[c] /\ next[c] \in 1 .. Len(script[c]) + 1
  BY DEF TypeOK, ClientTypeOK
<1>2. IsSequence(script[c])
  BY <1>1, ScriptsAssumption
<1>3. Len(script[c]) \in Nat /\ DOMAIN script[c] = 1 .. Len(script[c])
  BY <1>2, AppendToSequence
<1> QED
  BY <1>1, <1>3

\* No client has connected yet.
LEMMA ExchangeInit == Init => ExchangeInv
<1> SUFFICES ASSUME Init PROVE ExchangeInv
  OBVIOUS
<1> USE DEF Init, ClientInit
<1>1. \A c \in Client : script[c] \in Scripts[c] /\ IsSequence(script[c])
  BY ScriptsAssumption
<1>2. \A c \in Client : Len(script[c]) \in Nat
  BY <1>1, AppendToSequence
<1>3. \A c \in Client : handed[c] = <<>> /\ DOMAIN handed[c] = {}
  <2>1. DOMAIN <<>> = {}
    OBVIOUS
  <2> QED
    BY <2>1
<1>4. IsSequence(<<>>)
  BY EmptySeq DEF IsSequence
<1>5. ClientTypeOK
  <2>1. <<>> \in Seq(Statuses) /\ <<>> \in Seq(Client)
    BY EmptySeq
  <2> QED
    BY <1>1, <1>2, <2>1 DEF ClientTypeOK
<1>6. TypeOK
  BY <1>3, <1>5 DEF TypeOK
<1>7. Histories
  BY <1>3, <1>4 DEF Histories
<1>8. ASSUME NEW c \in Client PROVE Exchange(c)
  <2>1. got[c] = <<>> /\ Len(got[c]) = 0 /\ next[c] = 1
    OBVIOUS
  <2> QED
    BY <1>3, <2>1 DEF Exchange, Answering
<1> QED
  BY <1>6, <1>7, <1>8 DEF ExchangeInv

---------------------------------------------------------------------------
\* What a request leads to: it is handed up under its number and answered with
\* the result, or answered without being handed up, or it ends the tracker.
HandedUp(c, payload, result) ==
  /\ handed' = [handed EXCEPT ![c] =
                  Append(@, [number |-> next[c], payload |-> payload, result |-> result])]
  /\ response' = Status(result) /\ server' = "write"

Answered(r) ==
  /\ handed' = handed /\ server' = "write"
  /\ response' \in Statuses
  /\ response' \in {"400", "404"} \/ r.command = "/"

Ended == handed' = handed /\ server' = "terminated" /\ response' = response

LEMMA RequestLeadsTo ==
  ASSUME ReadRequest
  PROVE  \/ \E payload : \E result \in Results(Current(serving).command) :
              HandedUp(serving, payload, result)
         \/ Answered(Current(serving))
         \/ Ended
<1> DEFINE r == Current(serving)
           Up2 == \E payload : \E result \in Results(r.command) : HandedUp(serving, payload, result)
<1>1. ProcessRequest(r)
  BY DEF ReadRequest
<1>2. ASSUME NEW payload, HandUp(r, payload) PROVE Up2
  BY <1>2 DEF HandUp, HandedUp, Respond
<1>3. CASE CreateGetResponse(r)
  <2>1. CASE r.command = "/"
    BY <1>3, <2>1 DEF CreateGetResponse, Respond, Answered, Statuses
  <2>2. CASE r.command # "/"
    BY <1>2, <1>3, <2>2 DEF CreateGetResponse, OnGetMessage
  <2> QED
    BY <2>1, <2>2
<1>4. CASE CreatePostResponse(r)
  <2>1. CASE Lines(r.header) = {}
    BY <1>4, <2>1 DEF CreatePostResponse, Ended
  <2>2. CASE Lines(r.header) # {} /\ RetrieveBody(r, memory') = <<>>
    BY <1>4, <2>2 DEF CreatePostResponse, Respond, Answered, Statuses
  <2>3. CASE Lines(r.header) # {} /\ RetrieveBody(r, memory') # <<>>
    BY <1>2, <1>4, <2>3 DEF CreatePostResponse
  <2> QED
    BY <2>1, <2>2, <2>3
<1>5. CASE Respond("400") /\ UNCHANGED handed
  BY <1>5 DEF Respond, Answered, Statuses
<1> QED
  BY <1>1, <1>3, <1>4, <1>5 DEF ProcessRequest

\* Whatever it leads to, "blocked" stays a truth value.
LEMMA ReadKeepsBlocked ==
  ASSUME ReadRequest, blocked \in BOOLEAN
  PROVE  blocked' \in BOOLEAN
<1> DEFINE r == Current(serving)
<1>1. ASSUME NEW payload, HandUp(r, payload) PROVE blocked' \in BOOLEAN
  BY <1>1 DEF HandUp
<1>2. \/ \E payload : HandUp(r, payload)
      \/ UNCHANGED blocked
  BY DEF ReadRequest, ProcessRequest, CreateGetResponse, OnGetMessage, CreatePostResponse
<1> QED
  BY <1>1, <1>2

\* The commands of a script have results that are among the known ones.
LEMMA ResultsAreKnown ==
  ASSUME NEW command, NEW result \in Results(command)
  PROVE  Status(result) \in Statuses
BY DEF Status, Statuses

\* Reading a request: the one client whose request it is goes on to its answer.
LEMMA ReadKeepsExchange ==
  ASSUME ExchangeInv, ReadRequest
  PROVE  ExchangeInv'
<1> DEFINE k == serving
           r == Current(k)
<1>0. /\ server = "read" /\ k \in Client /\ sent[k]
      /\ sent' = [sent EXCEPT ![k] = FALSE]
      /\ UNCHANGED <<script, next, phase, reply, got, backlog, serving>>
      /\ TypeOK /\ ClientTypeOK /\ Histories /\ DOMAIN handed = Client
  BY DEF ReadRequest, ExchangeInv, TypeOK, Histories
<1>00. blocked' \in BOOLEAN
  BY <1>0, ReadKeepsBlocked DEF TypeOK
<1>1. /\ phase[k] \in {"waiting", "closed"} /\ reply[k] = NoStatus
      /\ next[k] \in DOMAIN script[k] /\ next[k] <= Len(script[k])
      /\ \A i \in DOMAIN handed[k] : handed[k][i].number < next[k]
      /\ \A n \in 1 .. Len(got[k]) : n < next[k]
      /\ Len(got[k]) = next[k] - 1 /\ next[k] \in Nat
  <2>1. Exchange(k) /\ phase[k] \in {"out", "connected", "waiting", "closed"}
    BY <1>0 DEF ExchangeInv, ClientTypeOK
  <2>2. next[k] <= Len(script[k]) /\ Len(got[k]) = next[k] - 1
    BY <1>0, <2>1 DEF Exchange
  <2>3. next[k] \in DOMAIN script[k] /\ next[k] \in Nat
    BY <1>0, <2>2, ScriptLength
  <2> QED
    BY <1>0, <2>1, <2>2, <2>3 DEF Exchange
<1>2. /\ sent' \in [Client -> BOOLEAN] /\ ~sent'[k]
      /\ \A c \in Client : c # k => sent'[c] = sent[c]
  BY <1>0 DEF ClientTypeOK
<1>3. ClientTypeOK'
  BY <1>0, <1>2 DEF ClientTypeOK
<1>4. ASSUME handed' = handed, server' \in {"write", "terminated"}, response' \in Statuses \cup {NoStatus},
             server' = "write" => response' \in {"400", "404"} \/ r.command = "/"
      PROVE  ExchangeInv'
  <2>1. TypeOK'
    BY <1>0, <1>00, <1>3, <1>4 DEF TypeOK
  <2>2. Histories'
    BY <1>0, <1>4 DEF Histories
  <2>3. ASSUME NEW c \in Client PROVE Exchange(c)'
    <3>1. Exchange(c)
      BY DEF ExchangeInv
    <3>2. CASE c = k
      <4>1. \A i \in DOMAIN handed[k] : handed[k][i].number # next[k]
        <5>1. \A i \in DOMAIN handed[k] : handed[k][i].number \in Nat
          BY <1>0, ScriptLength DEF TypeOK
        <5> QED
          BY <1>1, <5>1
      <4>2. Answering(k)' => Outcome(k, next[k], response)'
        BY <1>0, <1>4, <4>1 DEF Answering, Outcome, Current
      <4> QED
        BY <1>0, <1>1, <1>2, <1>4, <3>1, <3>2, <4>2 DEF Exchange, Outcome, Answering
    <3>3. CASE c # k
      BY <1>0, <1>2, <1>4, <3>1, <3>3 DEF Exchange, Outcome, Answering
    <3> QED
      BY <3>2, <3>3
  <2> QED
    BY <2>1, <2>2, <2>3 DEF ExchangeInv
<1>5. ASSUME NEW payload, NEW result \in Results(r.command), HandedUp(k, payload, result)
      PROVE  ExchangeInv'
  <2> DEFINE e == [number |-> next[k], payload |-> payload, result |-> result]
             h == handed[k]
             new == Append(h, e)
  <2>1. /\ handed' = [handed EXCEPT ![k] = new] /\ server' = "write"
        /\ response' = Status(result) /\ response' \in Statuses
        /\ e.number = next[k] /\ e.result = result
    BY <1>5, ResultsAreKnown DEF HandedUp
  <2>2. /\ DOMAIN handed' = Client /\ handed'[k] = new
        /\ \A c \in Client : c # k => handed'[c] = handed[c]
    BY <1>0, <2>1
  <2>3. IsSequence(h)
    BY <1>0 DEF Histories
  <2> HIDE DEF e, h
  <2>4. /\ IsSequence(new) /\ Len(h) \in Nat
        /\ DOMAIN h = 1 .. Len(h) /\ DOMAIN new = 1 .. Len(h) + 1
        /\ \A i \in 1 .. Len(h) : new[i] = h[i]
        /\ new[Len(h) + 1] = e
    BY <2>3, AppendToSequence
  <2> HIDE DEF new
  <2>5. \A i \in DOMAIN new : i \in DOMAIN h \/ i = Len(h) + 1
    BY <2>4
  <2>6. TypeOK'
    <3>1. \A i \in DOMAIN new : /\ new[i].number \in DOMAIN script[k]
                                /\ new[i].result \in Results(script[k][new[i].number].command)
      BY <1>0, <1>1, <2>1, <2>4, <2>5 DEF TypeOK, Current, h
    <3> QED
      BY <1>0, <1>00, <1>3, <2>1, <2>2, <3>1 DEF TypeOK
  <2>7. Histories'
    BY <1>0, <2>2, <2>4 DEF Histories
  <2>8. ASSUME NEW c \in Client PROVE Exchange(c)'
    <3>1. Exchange(c)
      BY DEF ExchangeInv
    <3>2. CASE c = k
      <4>1. /\ \A i \in DOMAIN h : h[i].number < next[k] /\ h[i].number \in Nat
            /\ \A i \in DOMAIN h : i < Len(h) + 1
            /\ \A i, j \in DOMAIN h : i < j => h[i].number < h[j].number
        <5>1. \A i \in DOMAIN h : h[i].number \in Nat
          BY <1>0, ScriptLength DEF TypeOK, h
        <5> QED
          BY <1>1, <2>4, <3>1, <3>2, <5>1 DEF Exchange, h
      <4>2. \A i \in DOMAIN new : new[i].number <= next[k]
        BY <1>1, <2>1, <2>4, <2>5, <4>1
      <4>3. \A i, j \in DOMAIN new : i < j => new[i].number < new[j].number
        <5> SUFFICES ASSUME NEW i \in DOMAIN new, NEW j \in DOMAIN new, i < j
                     PROVE  new[i].number < new[j].number
          OBVIOUS
        <5>1. i \in DOMAIN h
          BY <2>4
        <5>2. CASE j \in DOMAIN h
          BY <2>4, <4>1, <5>1, <5>2
        <5>3. CASE j = Len(h) + 1
          BY <2>1, <2>4, <4>1, <5>1, <5>3
        <5> QED
          BY <2>5, <5>2, <5>3
      <4>4. Outcome(k, next[k], response)'
        <5>1. Len(h) + 1 \in DOMAIN new /\ new[Len(h) + 1].number = next[k]
              /\ response' = Status(new[Len(h) + 1].result)
          BY <2>1, <2>4
        <5> QED
          BY <1>0, <2>2, <5>1 DEF Outcome
      <4>5. ASSUME NEW n \in 1 .. Len(got[k]) PROVE Outcome(k, n, got[k][n])'
        <5>1. n < next[k] /\ Outcome(k, n, got[k][n])
          BY <1>1, <3>1, <3>2 DEF Exchange
        <5>2. CASE \E i \in DOMAIN h : h[i].number = n /\ got[k][n] = Status(h[i].result)
          <6>1. \E i \in DOMAIN new : new[i].number = n /\ got[k][n] = Status(new[i].result)
            BY <2>4, <5>2
          <6> QED
            BY <1>0, <2>2, <6>1 DEF Outcome
        <5>3. CASE /\ \A i \in DOMAIN h : h[i].number # n
                   /\ got[k][n] \in {"400", "404"} \/ script[k][n].command = "/"
          <6>1. \A i \in DOMAIN new : new[i].number # n
            BY <1>1, <2>1, <2>4, <2>5, <5>1, <5>3
          <6> QED
            BY <1>0, <2>2, <5>3, <6>1 DEF Outcome
        <5> QED
          BY <5>1, <5>2, <5>3 DEF Outcome, h
      <4> QED
        BY <1>0, <1>1, <1>2, <2>1, <2>2, <3>2, <4>2, <4>3, <4>4, <4>5 DEF Exchange, Answering
    <3>3. CASE c # k
      BY <1>0, <1>2, <2>1, <2>2, <3>1, <3>3 DEF Exchange, Outcome, Answering
    <3> QED
      BY <3>2, <3>3
  <2> QED
    BY <2>6, <2>7, <2>8 DEF ExchangeInv
<1>6. response \in Statuses \cup {NoStatus}
  BY <1>0 DEF TypeOK
<1> QED
  BY <1>4, <1>5, <1>6, RequestLeadsTo DEF Answered, Ended

\* A step of a program is about the program's own request: it is enough to look
\* at that one.
OwnStep(c) ==
  /\ UNCHANGED <<script, server, serving, memory, response, blocked, handed>>
  /\ \A d \in Client \ {c} : /\ next'[d] = next[d] /\ phase'[d] = phase[d] /\ sent'[d] = sent[d]
                             /\ reply'[d] = reply[d] /\ got'[d] = got[d]

LEMMA OwnStepKeepsExchange ==
  ASSUME ExchangeInv, NEW c \in Client, OwnStep(c), DOMAIN next' = Client,
         ClientTypeOK', Exchange(c)'
  PROVE  ExchangeInv'
<1>1. TypeOK'
  BY DEF OwnStep, ExchangeInv, TypeOK
<1>2. Histories'
  BY DEF OwnStep, ExchangeInv, Histories
<1>3. ASSUME NEW d \in Client, d # c PROVE Exchange(d)'
  <2>1. Exchange(d)
    BY DEF ExchangeInv
  <2>2. /\ script' = script /\ server' = server /\ serving' = serving
        /\ response' = response /\ handed' = handed
        /\ next'[d] = next[d] /\ phase'[d] = phase[d] /\ sent'[d] = sent[d]
        /\ reply'[d] = reply[d] /\ got'[d] = got[d]
    BY <1>3 DEF OwnStep
  <2> QED
    BY <2>1, <2>2 DEF Exchange, Outcome, Answering
<1> QED
  BY <1>1, <1>2, <1>3 DEF ExchangeInv

\* The steps of the programs.
LEMMA ClientsKeepExchange ==
  ASSUME ExchangeInv, ClientNext(Up), UNCHANGED <<server, serving, memory, response, blocked, handed>>
  PROVE  ExchangeInv'
<1> SUFFICES ASSUME NEW c \in Client,
                    \/ Connect(c, Up) \/ Send(c, Up) \/ Receive(c)
                    \/ Disconnect(c) \/ Fail(c, Up) \/ Vanish(c)
             PROVE  ExchangeInv'
  BY DEF ClientNext
<1>0. /\ next[c] \in Nat /\ Len(script[c]) \in Nat /\ Exchange(c) /\ ClientTypeOK
      /\ got[c] \in Seq(Statuses) /\ Len(got[c]) \in Nat
  BY ScriptLength DEF ExchangeInv, TypeOK, ClientTypeOK
<1>00. DOMAIN next = Client /\ Histories
  BY DEF ExchangeInv, Histories
<1>1. CASE Connect(c, Up)
  <2>1. OwnStep(c) /\ DOMAIN next' = Client
    BY <1>0, <1>00, <1>1 DEF Connect, OwnStep, ClientTypeOK
  <2>2. ClientTypeOK'
    <3>1. backlog' \in Seq(Client)
      BY <1>0, <1>1 DEF Connect, ClientTypeOK
    <3> QED
      BY <1>0, <1>1, <3>1 DEF Connect, ClientTypeOK
  <2>3. Exchange(c)'
    <3>1. phase[c] = "out" /\ phase'[c] \in {"connected", "closed"}
          /\ UNCHANGED <<script, next, sent, reply, got, server, serving, response, blocked, handed>>
      BY <1>0, <1>1 DEF Connect, ClientTypeOK
    <3> QED
      BY <1>0, <3>1 DEF Exchange, Outcome, Answering
  <2> QED
    BY <2>1, <2>2, <2>3, OwnStepKeepsExchange
<1>2. CASE Send(c, Up)
  <2>1. OwnStep(c) /\ DOMAIN next' = Client
    BY <1>0, <1>00, <1>2 DEF Send, OwnStep, ClientTypeOK
  <2>2. ClientTypeOK'
    BY <1>0, <1>2 DEF Send, ClientTypeOK
  <2>3. Exchange(c)'
    <3>1. /\ phase[c] = "connected" /\ phase'[c] = "waiting" /\ sent'[c] = TRUE
          /\ next[c] <= Len(script[c])
          /\ UNCHANGED <<script, next, reply, got, server, serving, response, blocked, handed>>
      BY <1>0, <1>2 DEF Send, ClientTypeOK
    <3> QED
      BY <1>0, <3>1 DEF Exchange, Outcome, Answering
  <2> QED
    BY <2>1, <2>2, <2>3, OwnStepKeepsExchange
<1>3. CASE Receive(c)
  <2>0. /\ phase[c] = "waiting" /\ phase'[c] = "connected" /\ reply[c] # NoStatus
        /\ reply'[c] = NoStatus /\ next'[c] = next[c] + 1 /\ got'[c] = Append(got[c], reply[c])
        /\ UNCHANGED <<script, sent, server, serving, response, blocked, handed>>
    <3>1. /\ phase' = [phase EXCEPT ![c] = "connected"] /\ DOMAIN phase = Client
          /\ reply' = [reply EXCEPT ![c] = NoStatus] /\ DOMAIN reply = Client
          /\ got' = [got EXCEPT ![c] = Append(got[c], reply[c])] /\ DOMAIN got = Client
      BY <1>0, <1>3 DEF Receive, ClientTypeOK
    <3>2. phase'[c] = "connected" /\ reply'[c] = NoStatus /\ got'[c] = Append(got[c], reply[c])
      BY <3>1
    <3>3. next'[c] = next[c] + 1
      BY <1>0, <1>00, <1>3 DEF Receive
    <3> QED
      BY <1>3, <3>2, <3>3 DEF Receive
  <2>1. OwnStep(c) /\ DOMAIN next' = Client
    BY <1>0, <1>00, <1>3 DEF Receive, OwnStep, ClientTypeOK
  <2>2. reply[c] \in Statuses /\ next[c] <= Len(script[c])
    BY <1>0, <2>0 DEF ClientTypeOK, Exchange
  <2>3. ClientTypeOK'
    <3>1. got' \in [Client -> Seq(Statuses)]
      BY <1>0, <1>3, <2>2 DEF Receive, ClientTypeOK
    <3>2. \A d \in Client : script'[d] \in Scripts[d] /\ next'[d] \in 1 .. Len(script'[d]) + 1
      <4>1. next'[c] \in 1 .. Len(script[c]) + 1
        BY <1>0, <2>0, <2>2
      <4>2. \A d \in Client : /\ script'[d] = script[d] /\ script[d] \in Scripts[d]
                              /\ next[d] \in 1 .. Len(script[d]) + 1
                              /\ d # c => next'[d] = next[d]
        BY <1>0, <2>0, <2>1 DEF OwnStep, ClientTypeOK
      <4> QED
        BY <4>1, <4>2
    <3> QED
      BY <1>0, <1>3, <3>1, <3>2 DEF Receive, ClientTypeOK
  <2>4. /\ Len(got'[c]) = Len(got[c]) + 1 /\ got'[c][Len(got[c]) + 1] = reply[c]
        /\ \A n \in 1 .. Len(got[c]) : got'[c][n] = got[c][n]
    BY <1>0, <2>0, <2>2
  <2>5. Len(got[c]) = next[c] - 1 /\ Outcome(c, next[c], reply[c]) /\ ~sent[c] /\ ~Answering(c)
    BY <1>0, <2>0 DEF Exchange
  <2>6. \A n \in 1 .. Len(got'[c]) : n \in 1 .. Len(got[c]) \/ n = next[c]
    BY <1>0, <2>4, <2>5
  <2>7. \A n \in 1 .. Len(got[c]) : Outcome(c, n, got[c][n])
    BY <1>0 DEF Exchange
  <2>8. got'[c][next[c]] = reply[c]
    BY <1>0, <2>4, <2>5
  <2>9. ASSUME NEW n \in 1 .. Len(got'[c]) PROVE Outcome(c, n, got[c][n])'
    <3>1. Outcome(c, n, got'[c][n])
      BY <2>4, <2>5, <2>6, <2>7, <2>8
    <3> QED
      BY <2>0, <3>1 DEF Outcome
  <2>10. \A i \in DOMAIN handed[c] : handed[c][i].number < next[c] + 1
    <3>1. \A i \in DOMAIN handed[c] : handed[c][i].number <= next[c] /\ handed[c][i].number \in Nat
      BY <1>0, ScriptLength DEF Exchange, ExchangeInv, TypeOK
    <3> QED
      BY <1>0, <3>1
  <2>11. \A i \in DOMAIN handed[c] : handed[c][i].number <= next[c] + 1
    <3>1. \A i \in DOMAIN handed[c] : handed[c][i].number \in Nat
      BY <1>0, ScriptLength DEF ExchangeInv, TypeOK
    <3> QED
      BY <1>0, <2>10, <3>1
  <2>12. \A i, j \in DOMAIN handed[c] : i < j => handed[c][i].number < handed[c][j].number
    BY <1>0 DEF Exchange
  <2>13. Len(got'[c]) = next'[c] - 1
    BY <1>0, <2>0, <2>4, <2>5
  <2>14. Exchange(c)'
    BY <2>0, <2>5, <2>9, <2>10, <2>11, <2>12, <2>13 DEF Exchange, Answering
  <2> QED
    BY <2>1, <2>3, <2>14, OwnStepKeepsExchange
<1>4. CASE Disconnect(c) \/ Fail(c, Up) \/ Vanish(c)
  <2>1. /\ phase[c] \in {"connected", "waiting"} /\ phase' = [phase EXCEPT ![c] = "closed"]
        /\ reply' = [reply EXCEPT ![c] = NoStatus]
        /\ UNCHANGED <<script, next, sent, got, backlog, server, serving, memory, response, blocked, handed>>
    <3>1. reply[c] = NoStatus => [reply EXCEPT ![c] = NoStatus] = reply
      BY <1>0 DEF ClientTypeOK
    <3>2. phase[c] = "connected" => reply[c] = NoStatus
      BY <1>0 DEF Exchange
    <3> QED
      BY <1>4, <3>1, <3>2 DEF Disconnect, Fail, Vanish
  <2>2. OwnStep(c) /\ DOMAIN next' = Client
    BY <1>0, <1>00, <2>1 DEF OwnStep, ClientTypeOK
  <2>3. ClientTypeOK'
    BY <1>0, <2>1 DEF ClientTypeOK
  <2>4. phase'[c] = "closed" /\ reply'[c] = NoStatus
    BY <1>0, <2>1 DEF ClientTypeOK
  <2>5. Exchange(c)'
    BY <1>0, <2>1, <2>4 DEF Exchange, Outcome, Answering
  <2> QED
    BY <2>2, <2>3, <2>5, OwnStepKeepsExchange
<1> QED
  BY <1>1, <1>2, <1>3, <1>4

\* Every step of the tracker and of the programs keeps the exchange in order.
LEMMA ExchangeStep == ExchangeInv /\ [Next]_vars => ExchangeInv'
<1> SUFFICES ASSUME ExchangeInv, [Next]_vars PROVE ExchangeInv'
  OBVIOUS
<1>1. CASE Accept
  <2>1. serving' \in Client /\ backlog' \in Seq(Client)
    BY <1>1 DEF Accept, ExchangeInv, TypeOK, ClientTypeOK
  <2>2. /\ server = "accept" /\ server' = "read"
        /\ UNCHANGED <<script, next, phase, sent, reply, got, response, blocked, handed>>
    BY <1>1 DEF Accept
  <2>3. TypeOK'
    <3>1. ClientTypeOK'
      BY <2>1, <2>2 DEF ExchangeInv, TypeOK, ClientTypeOK
    <3> QED
      BY <2>1, <2>2, <3>1, ClientAssumption DEF ExchangeInv, TypeOK
  <2>4. Histories'
    BY <2>2 DEF ExchangeInv, Histories
  <2>5. ASSUME NEW c \in Client PROVE Exchange(c)'
    <3>1. Exchange(c) /\ ~ Answering(c) /\ ~ Answering(c)'
      BY <2>2 DEF ExchangeInv, Answering
    <3>2. \A n, status : Outcome(c, n, status)' <=> Outcome(c, n, status)
      BY <2>2 DEF Outcome
    <3> QED
      BY <2>2, <3>1, <3>2 DEF Exchange
  <2> QED
    BY <2>3, <2>4, <2>5 DEF ExchangeInv
<1>2. CASE ReadRequest
  BY <1>2, ReadKeepsExchange
<1>3. CASE WriteResponse
  <2>0. PICK k \in Client : k = serving
    BY <1>3 DEF WriteResponse, ExchangeInv, TypeOK
  <2>1. /\ server = "write" /\ k # NoClient /\ ExchangeInv /\ ClientTypeOK
        /\ UNCHANGED <<script, next, phase, sent, got, backlog, memory, response, blocked, handed>>
        /\ \/ server' = "read" /\ serving' = k
           \/ server' = "accept" /\ serving' = NoClient
        /\ \/ phase[k] = "waiting" /\ reply' = [reply EXCEPT ![k] = response]
           \/ reply' = reply
    <3>1. server = "write" /\ k # NoClient /\ ExchangeInv /\ ClientTypeOK
      BY <1>3, ClientAssumption DEF WriteResponse, ExchangeInv, TypeOK
    <3>2. CASE phase[k] = "waiting"
      BY <1>3, <2>0, <3>1, <3>2 DEF WriteResponse
    <3>3. CASE phase[k] # "waiting"
      BY <1>3, <2>0, <3>1, <3>3 DEF WriteResponse
    <3> QED
      BY <3>2, <3>3
  <2>2. /\ Answering(k) /\ Exchange(k) /\ response \in Statuses \cup {NoStatus}
        /\ \A c \in Client : c # k => reply'[c] = reply[c]
        /\ reply'[k] = reply[k] \/ (phase[k] = "waiting" /\ reply'[k] = response)
        /\ \A c \in Client : ~Answering(c)'
    <3>1. Answering(k) /\ Exchange(k) /\ response \in Statuses \cup {NoStatus}
      BY <2>0, <2>1 DEF Answering, ExchangeInv, TypeOK
    <3>2. DOMAIN reply = Client
      BY <2>1 DEF ClientTypeOK
    <3>3. \A c \in Client : ~Answering(c)'
      BY <2>1 DEF Answering
    <3>4. CASE phase[k] = "waiting" /\ reply' = [reply EXCEPT ![k] = response]
      <4>1. reply'[k] = response
        BY <3>2, <3>4
      <4>2. \A c \in Client : c # k => reply'[c] = reply[c]
        BY <3>2, <3>4
      <4> QED
        BY <3>1, <3>3, <3>4, <4>1, <4>2
    <3>5. CASE reply' = reply
      BY <3>1, <3>3, <3>5
    <3> QED
      BY <2>1, <3>4, <3>5
  <2>3. ClientTypeOK'
    BY <2>1, <2>2 DEF ClientTypeOK
  <2>4. TypeOK' /\ Histories'
    BY <2>1, <2>3 DEF ExchangeInv, TypeOK, Histories
  <2>5. Exchange(k)'
    BY <2>1, <2>2 DEF Exchange, Outcome
  <2>6. ASSUME NEW c \in Client, c # k PROVE Exchange(c)'
    <3>1. Exchange(c) /\ reply'[c] = reply[c] /\ ~Answering(c)'
      BY <2>2, <2>6 DEF ExchangeInv
    <3> QED
      BY <2>1, <3>1 DEF Exchange, Outcome
  <2> QED
    BY <2>4, <2>5, <2>6 DEF ExchangeInv
<1>4. CASE ReadEnd
  <2> DEFINE k == serving
  <2>1. /\ k \in Client /\ phase[k] = "closed" /\ server' = "accept" /\ serving' = NoClient
        /\ sent' = [sent EXCEPT ![k] = FALSE]
        /\ UNCHANGED <<script, next, phase, reply, got, backlog, memory, response, blocked, handed>>
    BY <1>4 DEF ReadEnd, ExchangeInv, TypeOK
  <2>2. /\ sent' \in [Client -> BOOLEAN] /\ \A c \in Client : sent'[c] => sent[c]
        /\ \A c \in Client : ~Answering(c)'
    BY <2>1 DEF Answering, ExchangeInv, TypeOK, ClientTypeOK
  <2>3. TypeOK' /\ Histories'
    BY <2>1, <2>2 DEF ExchangeInv, TypeOK, ClientTypeOK, Histories
  <2>4. ASSUME NEW c \in Client PROVE Exchange(c)'
    <3>1. Exchange(c) /\ (sent'[c] => sent[c]) /\ ~Answering(c)'
      BY <2>2 DEF ExchangeInv
    <3> QED
      BY <2>1, <3>1 DEF Exchange, Outcome
  <2> QED
    BY <2>3, <2>4 DEF ExchangeInv
<1>5. CASE ClientNext(Up) /\ UNCHANGED <<server, serving, memory, response, blocked, handed>>
  BY <1>5, ClientsKeepExchange
<1>6. CASE Unblock \/ UNCHANGED vars
  <2>1. UNCHANGED <<clientVars, server, serving, memory, response, handed>>
    BY <1>6 DEF Unblock, vars
  <2>2. blocked' \in BOOLEAN
    BY <1>6 DEF Unblock, vars, ExchangeInv, TypeOK
  <2> QED
    BY <2>1, <2>2 DEF clientVars, ExchangeInv, TypeOK, ClientTypeOK, Histories, Exchange, Outcome, Answering
<1> QED
  BY <1>1, <1>2, <1>3, <1>4, <1>5, <1>6 DEF Next, ServerNext

LEMMA ExchangeAlways == Spec => []ExchangeInv
BY ExchangeInit, ExchangeStep, PTL DEF Spec

\* The variables of the programs, the server and the history keep their types.
THEOREM ConnectionTypeCorrect == Spec => []TypeOK
<1>1. ExchangeInv => TypeOK
  BY DEF ExchangeInv
<1> QED
  BY <1>1, ExchangeAlways, PTL

\* What a client reads is the outcome of the request it is waiting for, whoever
\* else is connected, vanishes or fails meanwhile.
THEOREM RepliesAreOwn == Spec => []ReplyIsOwn
<1>1. ExchangeInv => ReplyIsOwn
  <2> SUFFICES ASSUME ExchangeInv, NEW c \in Client, NEW n \in DOMAIN got[c]
               PROVE  Outcome(c, n, got[c][n])
    BY DEF ReplyIsOwn, Outcome
  <2>1. got[c] \in Seq(Statuses)
    BY DEF ExchangeInv, TypeOK, ClientTypeOK
  <2>2. n \in 1 .. Len(got[c])
    BY <2>1
  <2> QED
    BY <2>2 DEF ExchangeInv, Exchange
<1> QED
  BY <1>1, ExchangeAlways, PTL

---------------------------------------------------------------------------
(* The receive buffer.                                                     *)

\* The least of some numbers, and the only element of a set as its greatest.
LEMMA MinIsLeast ==
  ASSUME NEW S \in SUBSET Int, NEW m \in S, \A x \in S : m <= x
  PROVE  Min(S) = m
<1>1. m \in S /\ \A x \in S : m <= x
  OBVIOUS
<1>2. \A y \in S : (\A x \in S : y <= x) => y = m
  BY <1>1
<1> QED
  BY <1>1, <1>2 DEF Min

LEMMA MaxOfOne == \A m \in Int : Max({m}) = m
BY DEF Max

Token == UNION {{Wire(r)[j] : j \in DOMAIN Wire(r)} : r \in RequestsOf(Scripts)}

\* A request on the wire: its target, its header, an empty line and its body.
LEMMA WireShape ==
  ASSUME NEW r \in RequestsOf(Scripts)
  PROVE  LET p == r.width + Len(r.header)
         IN  /\ r.width \in Nat /\ Len(r.header) \in Nat /\ Len(r.body) \in Nat /\ p \in Nat
             /\ DOMAIN r.header = 1 .. Len(r.header) /\ DOMAIN r.body = 1 .. Len(r.body)
             /\ Wire(r) \in Seq(Token) /\ Len(Wire(r)) = p + 1 + Len(r.body)
             /\ \A i \in 1 .. r.width : Wire(r)[i] = <<"target">>
             /\ \A i \in 1 .. Len(r.header) : Wire(r)[r.width + i] = r.header[i]
             /\ Wire(r)[p + 1] = Blank
             /\ \A i \in 1 .. Len(r.body) : Wire(r)[p + 1 + i] = r.body[i]
<1> DEFINE h == r.header
           b == r.body
           n == r.width
           T == {h[i] : i \in DOMAIN h} \cup {b[i] : i \in DOMAIN b} \cup {Blank, <<"target">>}
           t == [i \in 1 .. n |-> <<"target">>]
           w == Wire(r)
<1>1. n \in Nat /\ IsSequence(h) /\ IsSequence(b)
  BY ScriptsAssumption
<1>2. /\ Len(h) \in Nat /\ DOMAIN h = 1 .. Len(h) /\ Len(b) \in Nat /\ DOMAIN b = 1 .. Len(b)
  BY <1>1, AppendToSequence
<1>3. h \in Seq(T)
  <2>1. h \in Seq({h[i] : i \in DOMAIN h})
    BY <1>1 DEF IsSequence
  <2>2. h = [i \in 1 .. Len(h) |-> h[i]]
    BY <2>1
  <2> QED
    BY <1>2, <2>2
<1>4. b \in Seq(T)
  <2>1. b \in Seq({b[i] : i \in DOMAIN b})
    BY <1>1 DEF IsSequence
  <2>2. b = [i \in 1 .. Len(b) |-> b[i]]
    BY <2>1
  <2> QED
    BY <1>2, <2>2
<1>5. t \in Seq(T) /\ Len(t) = n /\ \A i \in 1 .. n : t[i] = <<"target">>
  BY <1>1
<1>6. Blank \in T
  OBVIOUS
<1>7. w = ((t \o h) \o <<Blank>>) \o b
  BY DEF Wire
<1> HIDE DEF T, t, h, b, n, w
<1>8. /\ (t \o h) \in Seq(T) /\ Len(t \o h) = n + Len(h)
      /\ \A i \in 1 .. n : (t \o h)[i] = <<"target">>
      /\ \A i \in 1 .. Len(h) : (t \o h)[n + i] = h[i]
  <2>1. t \in Seq(T) /\ h \in Seq(T)
    BY <1>3, <1>5
  <2>2. /\ (t \o h) \in Seq(T) /\ Len(t \o h) = Len(t) + Len(h)
        /\ \A i \in 1 .. Len(t) : (t \o h)[i] = t[i]
        /\ \A i \in 1 .. Len(h) : (t \o h)[Len(t) + i] = h[i]
    BY <2>1
  <2> QED
    BY <1>5, <2>2
<1> DEFINE th == t \o h
           thb == th \o <<Blank>>
<1>9. /\ th \in Seq(T) /\ Len(th) = n + Len(h)
      /\ \A i \in 1 .. n : th[i] = <<"target">>
      /\ \A i \in 1 .. Len(h) : th[n + i] = h[i]
  BY <1>8
<1>10. w = thb \o b
  BY <1>7
<1> HIDE DEF th
<1>11. /\ thb \in Seq(T) /\ Len(thb) = n + Len(h) + 1
       /\ \A i \in 1 .. n + Len(h) : thb[i] = th[i]
       /\ thb[n + Len(h) + 1] = Blank
  BY <1>1, <1>2, <1>6, <1>9
<1> HIDE DEF thb
<1>12. /\ w \in Seq(T) /\ Len(w) = n + Len(h) + 1 + Len(b)
       /\ \A i \in 1 .. n + Len(h) + 1 : w[i] = thb[i]
       /\ \A i \in 1 .. Len(b) : w[n + Len(h) + 1 + i] = b[i]
  <2>1. thb \in Seq(T) /\ b \in Seq(T)
    BY <1>4, <1>11
  <2>2. /\ thb \o b \in Seq(T) /\ Len(thb \o b) = Len(thb) + Len(b)
        /\ \A i \in 1 .. Len(thb) : (thb \o b)[i] = thb[i]
        /\ \A i \in 1 .. Len(b) : (thb \o b)[Len(thb) + i] = b[i]
    BY <2>1
  <2> QED
    BY <1>10, <1>11, <2>2
<1>13. \A i \in 1 .. n : w[i] = <<"target">>
  <2> SUFFICES ASSUME NEW i \in 1 .. n PROVE w[i] = <<"target">>
    OBVIOUS
  <2>1. i \in 1 .. n + Len(h) /\ i \in 1 .. n + Len(h) + 1
    BY <1>1, <1>2
  <2> QED
    BY <1>9, <1>11, <1>12, <2>1
<1>14. \A i \in 1 .. Len(h) : w[n + i] = h[i]
  <2> SUFFICES ASSUME NEW i \in 1 .. Len(h) PROVE w[n + i] = h[i]
    OBVIOUS
  <2>1. n + i \in 1 .. n + Len(h) /\ n + i \in 1 .. n + Len(h) + 1
    BY <1>1, <1>2
  <2> QED
    BY <1>9, <1>11, <1>12, <2>1
<1>15. w[n + Len(h) + 1] = Blank
  <2>1. n + Len(h) + 1 \in 1 .. n + Len(h) + 1
    BY <1>1, <1>2
  <2> QED
    BY <1>11, <1>12, <2>1
<1>16. w \in Seq(Token)
  <2>1. w = [i \in 1 .. Len(w) |-> w[i]] /\ Len(w) \in Nat /\ DOMAIN w = 1 .. Len(w)
    BY <1>12
  <2>2. \A i \in 1 .. Len(w) : w[i] \in Token
    BY <2>1 DEF Token, w
  <2> QED
    BY <2>1, <2>2
<1> QED
  BY <1>1, <1>2, <1>12, <1>13, <1>14, <1>15, <1>16 DEF h, b, n, w

\* What was read covers the front of the block, the rest of the block stays.
LEMMA OverlayShape ==
  ASSUME NEW S, NEW piece \in Seq(S), NEW block \in Seq(S)
  PROVE  /\ Overlay(piece, block) \in Seq(S)
         /\ Len(Overlay(piece, block)) =
              IF Len(piece) >= Len(block) THEN Len(piece) ELSE Len(block)
         /\ \A i \in 1 .. Len(piece) : Overlay(piece, block)[i] = piece[i]
         /\ \A i \in 1 .. Len(block) : i > Len(piece) => Overlay(piece, block)[i] = block[i]
<1> DEFINE l == Len(piece)
           n == Len(block)
           rest == SubSeq(block, l + 1, n)
           all == piece \o rest
<1>1. l \in Nat /\ n \in Nat
  OBVIOUS
<1>2. /\ rest \in Seq(S) /\ Len(rest) = IF l >= n THEN 0 ELSE n - l
      /\ \A j \in 1 .. Len(rest) : rest[j] = block[l + j]
  BY <1>1
<1>3. Overlay(piece, block) = all
  BY DEF Overlay
<1> HIDE DEF rest
<1>4. /\ all \in Seq(S) /\ Len(all) = l + Len(rest)
      /\ \A i \in 1 .. l : all[i] = piece[i]
      /\ \A j \in 1 .. Len(rest) : all[l + j] = rest[j]
  BY <1>2
<1> HIDE DEF all, l, n
<1>5. ASSUME NEW i \in 1 .. n, i > l PROVE all[i] = block[i]
  <2>1. i - l \in 1 .. Len(rest) /\ l + (i - l) = i
    BY <1>1, <1>2, <1>5
  <2>2. all[l + (i - l)] = rest[i - l] /\ rest[i - l] = block[l + (i - l)]
    BY <1>2, <1>4, <2>1
  <2> QED
    BY <2>1, <2>2
<1>6. Len(all) = IF l >= n THEN l ELSE n
  BY <1>1, <1>2, <1>4
<1> QED
  BY <1>3, <1>4, <1>5, <1>6 DEF l, n

\* The end of a line of the header that announces the length of a body.
Announces(token) == token[1] = "Content-Length"

\* How far the Content-Length of a request is from its beginning.
LengthAt(r) == r.width + Len(r.header)

\* Every Content-Length in a block is where some request had its own, so that no
\* orderly request with a body is too short to overwrite it.
LengthsInPlace(block) ==
  \A j \in 1 .. Len(block) : Announces(block[j]) =>
    \E q \in RequestsOf(Scripts) : Lines(q.header) # {} /\ j = LengthAt(q)

BufferInv == memory \in Seq(Token) /\ Len(memory) <= ReadSize /\ LengthsInPlace(memory)

\* A piece of r announces r's length at its place, or nothing.
OnlyLengthOf(r, piece) ==
  \A i \in 1 .. Len(piece) : Announces(piece[i]) => Lines(r.header) # {} /\ i = LengthAt(r)

\* The Content-Length on the wire is where the header has it, nowhere else.
LEMMA LengthOnTheWire ==
  ASSUME Orderly(RequestsOf(Scripts)), NEW r \in RequestsOf(Scripts),
         NEW i \in 1 .. Len(Wire(r)), Announces(Wire(r)[i])
  PROVE  Lines(r.header) # {} /\ i = LengthAt(r)
<1> DEFINE n == r.width
           l == Len(r.header)
           b == Len(r.body)
           w == Wire(r)
<1>1. /\ n \in Nat /\ l \in Nat /\ b \in Nat
      /\ DOMAIN r.header = 1 .. l /\ DOMAIN r.body = 1 .. b
      /\ Len(w) = n + l + 1 + b
      /\ \A j \in 1 .. n : w[j] = <<"target">>
      /\ \A j \in 1 .. l : w[n + j] = r.header[j]
      /\ w[n + l + 1] = Blank
      /\ \A j \in 1 .. b : w[n + l + 1 + j] = r.body[j]
  BY WireShape
<1>2. /\ \A j \in Lines(r.header) : j = l
      /\ \A j \in 1 .. b : r.body[j] # Blank /\ ~Announces(r.body[j])
  BY <1>1 DEF Orderly, Announces
<1>3. ~Announces(<<"target">>) /\ ~Announces(Blank)
  BY DEF Announces, Blank
<1>4. Announces(w[i]) /\ i \in 1 .. Len(w)
  OBVIOUS
<1> HIDE DEF n, l, b, w
<1>5. i \notin 1 .. n /\ i # n + l + 1
  BY <1>1, <1>3, <1>4
<1>6. i <= n + l
  <2> SUFFICES ASSUME i > n + l + 1 PROVE FALSE
    BY <1>1, <1>4, <1>5
  <2>1. i - (n + l + 1) \in 1 .. b /\ n + l + 1 + (i - (n + l + 1)) = i
    BY <1>1, <1>4
  <2>2. w[n + l + 1 + (i - (n + l + 1))] = r.body[i - (n + l + 1)]
    BY <1>1, <2>1
  <2> QED
    BY <1>2, <1>4, <2>1, <2>2
<1>7. i - n \in 1 .. l /\ n + (i - n) = i
  BY <1>1, <1>4, <1>5, <1>6
<1>8. w[n + (i - n)] = r.header[i - n]
  BY <1>1, <1>7
<1>9. i - n \in Lines(r.header)
  BY <1>1, <1>4, <1>7, <1>8 DEF Lines, Announces
<1>10. i - n = l
  BY <1>2, <1>9
<1>11. i = n + l
  BY <1>1, <1>4, <1>10
<1> QED
  BY <1>9, <1>11 DEF LengthAt, n, l

\* A piece of a request laid over a block.
LEMMA OverlayInPlace ==
  ASSUME NEW r \in RequestsOf(Scripts), NEW piece \in Seq(Token), OnlyLengthOf(r, piece),
         NEW block \in Seq(Token), LengthsInPlace(block)
  PROVE  LengthsInPlace(Overlay(piece, block))
<1> DEFINE all == Overlay(piece, block)
           l == Len(piece)
           n == Len(block)
<1>1. /\ l \in Nat /\ n \in Nat /\ Len(all) = IF l >= n THEN l ELSE n
      /\ \A i \in 1 .. l : all[i] = piece[i]
      /\ \A i \in 1 .. n : i > l => all[i] = block[i]
  BY OverlayShape
<1>2. /\ \A i \in 1 .. l : Announces(piece[i]) => Lines(r.header) # {} /\ i = LengthAt(r)
      /\ \A j \in 1 .. n : Announces(block[j]) =>
           \E q \in RequestsOf(Scripts) : Lines(q.header) # {} /\ j = LengthAt(q)
  BY DEF OnlyLengthOf, LengthsInPlace
<1> HIDE DEF all, l, n
<1>3. ASSUME NEW j \in 1 .. Len(all), Announces(all[j])
      PROVE  \E q \in RequestsOf(Scripts) : Lines(q.header) # {} /\ j = LengthAt(q)
  <2>1. CASE j <= l
    <3>1. j \in 1 .. l /\ Announces(piece[j])
      BY <1>1, <1>3, <2>1
    <3> QED
      BY <1>2, <3>1
  <2>2. CASE j > l
    <3>1. j \in 1 .. n /\ Announces(block[j])
      BY <1>1, <1>3, <2>2
    <3> QED
      BY <1>2, <3>1
  <2>3. j <= l \/ j > l
    BY <1>1, <1>3
  <2> QED
    BY ONLY <2>1, <2>2, <2>3
<1>4. LengthsInPlace(all)
  BY <1>3 DEF LengthsInPlace
<1> QED
  BY <1>4 DEF all

\* Reading a request keeps the buffer in order.
LEMMA ReadKeepsBuffer ==
  ASSUME Orderly(RequestsOf(Scripts)), NEW r \in RequestsOf(Scripts), BufferInv,
         NEW new, new = MemoryAfter(r, memory)
  PROVE  /\ new \in Seq(Token) /\ Len(new) <= ReadSize /\ LengthsInPlace(new)
         /\ Short(r) => /\ Len(new) >= Len(Wire(r))
                        /\ \A i \in 1 .. Len(Wire(r)) : new[i] = Wire(r)[i]
                        /\ \A i \in 1 .. Len(new) : i > Len(Wire(r)) => new[i] = memory[i] /\ i <= Len(memory)
<1> DEFINE w == Wire(r)
           first == SubSeq(w, 1, ReadSize)
           second == SubSeq(w, ReadSize + 1, Len(w))
           once == Overlay(first, memory)
<1>1. /\ w \in Seq(Token) /\ Len(w) \in Nat /\ LengthAt(r) \in Nat
      /\ LengthAt(r) < Len(w) /\ LengthAt(r) + 1 <= ReadSize /\ Len(w) <= 2 * ReadSize
      /\ ReadSize \in Nat
  <2>1. HeaderSize(r) <= ReadSize /\ Len(w) <= 2 * ReadSize /\ ReadSize \in Nat
    BY SizesAssumption
  <2> QED
    BY <2>1, WireShape DEF LengthAt, HeaderSize
<1>2. /\ memory \in Seq(Token) /\ Len(memory) \in Nat /\ Len(memory) <= ReadSize
      /\ LengthsInPlace(memory)
  BY DEF BufferInv
<1>3. OnlyLengthOf(r, w)
  BY LengthOnTheWire DEF OnlyLengthOf
<1> HIDE DEF w
<1>4. CASE Len(w) <= ReadSize
  <2>1. new = Overlay(w, memory)
    BY <1>4 DEF MemoryAfter, w
  <2>2. LengthsInPlace(new)
    BY <1>1, <1>2, <1>3, <2>1, OverlayInPlace
  <2>3. /\ new \in Seq(Token)
        /\ Len(new) = IF Len(w) >= Len(memory) THEN Len(w) ELSE Len(memory)
        /\ \A i \in 1 .. Len(w) : new[i] = w[i]
        /\ \A i \in 1 .. Len(memory) : i > Len(w) => new[i] = memory[i]
    <3>1. w \in Seq(Token) /\ memory \in Seq(Token)
      BY <1>1, <1>2
    <3> HIDE DEF BufferInv
    <3> QED
      BY ONLY <2>1, <3>1, OverlayShape
  <2>4. Len(new) <= ReadSize /\ Len(new) >= Len(w) /\ Len(new) \in Nat
    BY <1>1, <1>2, <1>4, <2>3
  <2>5. \A i \in 1 .. Len(new) : i > Len(w) => new[i] = memory[i] /\ i <= Len(memory)
    BY <1>1, <1>2, <2>3
  <2> QED
    BY <2>2, <2>3, <2>4, <2>5 DEF w
<1>5. CASE Len(w) > ReadSize
  <2>1. new = Overlay(second, once) /\ ~Short(r)
    BY <1>1, <1>5 DEF MemoryAfter, Short, w
  <2>2. /\ first \in Seq(Token) /\ Len(first) = ReadSize
        /\ \A i \in 1 .. ReadSize : first[i] = w[i]
    BY <1>1, <1>5
  <2>3. /\ second \in Seq(Token) /\ Len(second) = Len(w) - ReadSize
        /\ \A i \in 1 .. Len(w) - ReadSize : second[i] = w[ReadSize + i]
    BY <1>1, <1>5
  <2> HIDE DEF first, second
  <2>4. OnlyLengthOf(r, first)
    <3> SUFFICES ASSUME NEW i \in 1 .. Len(first), Announces(first[i])
                 PROVE  Lines(r.header) # {} /\ i = LengthAt(r)
      BY DEF OnlyLengthOf
    <3>1. i \in 1 .. Len(w) /\ Announces(w[i])
      BY <1>1, <1>5, <2>2
    <3> QED
      BY <1>3, <3>1 DEF OnlyLengthOf
  <2>5. OnlyLengthOf(r, second)
    <3> SUFFICES ASSUME NEW i \in 1 .. Len(second), Announces(second[i]) PROVE FALSE
      BY DEF OnlyLengthOf
    <3>1. ReadSize + i \in 1 .. Len(w) /\ Announces(w[ReadSize + i])
      BY <1>1, <2>3
    <3>2. ReadSize + i = LengthAt(r)
      BY <1>3, <3>1 DEF OnlyLengthOf
    <3> QED
      BY <1>1, <2>3, <3>2
  <2>6. once \in Seq(Token) /\ Len(once) = ReadSize /\ LengthsInPlace(once)
    BY <1>1, <1>2, <2>2, <2>4, OverlayShape, OverlayInPlace
  <2> HIDE DEF once
  <2>7. LengthsInPlace(new)
    BY <2>1, <2>3, <2>5, <2>6, OverlayInPlace
  <2>8. new \in Seq(Token) /\ Len(new) = ReadSize
    BY <1>1, <1>5, <2>1, <2>3, <2>6, OverlayShape
  <2> QED
    BY <1>1, <2>1, <2>7, <2>8
<1>6. Len(w) <= ReadSize \/ Len(w) > ReadSize
  BY <1>1
<1> QED
  BY ONLY <1>4, <1>5, <1>6

\* The body of an orderly request that fits one read is found behind its own
\* Content-Length, whatever an older request has left behind it in the buffer.
LEMMA BodyIsFound ==
  ASSUME Orderly(RequestsOf(Scripts)), NEW r \in RequestsOf(Scripts), BufferInv,
         r.verb = "POST", Short(r), r.body # <<>>, Lines(r.header) # {}
  PROVE  RetrieveBody(r, MemoryAfter(r, memory)) = r.body
<1> DEFINE w == Wire(r)
           new == MemoryAfter(r, memory)
           b == Len(r.body)
           p == LengthAt(r)
           starts == {j \in DOMAIN new : j > Max(Lines(new)) /\ new[j] # Blank}
<1>1. /\ r.width \in Nat /\ Len(r.header) \in Nat /\ b \in Nat /\ p \in Nat
      /\ DOMAIN r.header = 1 .. Len(r.header) /\ DOMAIN r.body = 1 .. b
      /\ p = r.width + Len(r.header) /\ Len(w) = p + 1 + b
      /\ \A i \in 1 .. Len(r.header) : w[r.width + i] = r.header[i]
      /\ w[p + 1] = Blank
      /\ \A i \in 1 .. b : w[p + 1 + i] = r.body[i]
  BY WireShape DEF LengthAt
<1>2. /\ new \in Seq(Token) /\ Len(new) <= ReadSize /\ Len(new) \in Nat
      /\ Len(new) >= Len(w) /\ DOMAIN new = 1 .. Len(new)
      /\ \A i \in 1 .. Len(w) : new[i] = w[i]
      /\ \A i \in 1 .. Len(new) : i > Len(w) => new[i] = memory[i] /\ i <= Len(memory)
  BY ReadKeepsBuffer
<1>3. ReadSize \in Nat /\ MaxBuffer \in Nat /\ ReadSize < MaxBuffer
  BY SizesAssumption
<1>4. b >= 1
  <2>1. IsSequence(r.body)
    BY ScriptsAssumption
  <2>2. r.body \in Seq({r.body[i] : i \in DOMAIN r.body})
    BY <2>1 DEF IsSequence
  <2> QED
    BY <2>2
<1>5. Lines(new) = {p}
  <2>1. p \in Lines(new)
    <3>1. PICK i \in DOMAIN r.header : r.header[i][1] = "Content-Length"
      BY DEF Lines
    <3>2. i = Len(r.header)
      BY <3>1 DEF Orderly, Lines
    <3>3. r.width + i = p /\ p \in 1 .. Len(w) /\ p \in 1 .. Len(new)
      BY <1>1, <1>2, <3>1, <3>2
    <3>4. w[r.width + i] = r.header[i]
      BY <1>1, <3>1
    <3>5. new[p] = r.header[i]
      BY <1>2, <3>3, <3>4
    <3> QED
      BY <1>2, <3>1, <3>3, <3>5 DEF Lines
  <2>2. ASSUME NEW j \in Lines(new) PROVE j = p
    <3>1. j \in 1 .. Len(new) /\ Announces(new[j])
      BY <1>2 DEF Lines, Announces
    <3>2. CASE j <= Len(w)
      <4>1. j \in 1 .. Len(w) /\ Announces(w[j])
        BY <1>1, <1>2, <3>1, <3>2
      <4> QED
        BY <4>1, LengthOnTheWire
    \* A stale Content-Length would stand where the request itself reaches.
    <3>3. CASE j > Len(w)
      <4>1. memory[j] = new[j] /\ j \in 1 .. Len(memory)
        BY <1>1, <1>2, <3>1, <3>3 DEF BufferInv
      <4>2. PICK q \in RequestsOf(Scripts) : Lines(q.header) # {} /\ j = LengthAt(q)
        BY <3>1, <4>1 DEF BufferInv, LengthsInPlace
      <4>3. q.width + Len(q.header) <= Len(w)
        BY <4>2 DEF Orderly
      <4> QED
        BY <1>1, <3>1, <3>3, <4>2, <4>3 DEF LengthAt
    <3>4. j <= Len(w) \/ j > Len(w)
      BY <1>1, <3>1
    <3> QED
      BY ONLY <3>2, <3>3, <3>4
  <2> QED
    BY <2>1, <2>2
<1>6. Max(Lines(new)) = p
  BY <1>1, <1>5, MaxOfOne
<1>7. new[p + 1] = Blank
  <2>1. p + 1 \in 1 .. Len(w)
    BY <1>1
  <2> QED
    BY <1>1, <1>2, <2>1
<1>8. \A i \in 1 .. b : p + 1 + i \in 1 .. Len(new) /\ new[p + 1 + i] = r.body[i]
  <2> SUFFICES ASSUME NEW i \in 1 .. b
               PROVE  p + 1 + i \in 1 .. Len(new) /\ new[p + 1 + i] = r.body[i]
    OBVIOUS
  <2>1. p + 1 + i \in 1 .. Len(w) /\ p + 1 + i \in 1 .. Len(new)
    BY <1>1, <1>2
  <2> QED
    BY <1>1, <1>2, <2>1
<1>9. p + 2 \in starts /\ \A x \in starts : p + 2 <= x
  <2>1. 1 \in 1 .. b /\ p + 1 + 1 = p + 2
    BY <1>1, <1>4
  <2>2. p + 2 \in 1 .. Len(new) /\ new[p + 2] = r.body[1] /\ p + 2 > p
    BY <1>1, <1>8, <2>1
  <2>3. r.body[1] # Blank
    BY <1>1, <2>1 DEF Orderly
  <2>4. ASSUME NEW x \in starts PROVE p + 2 <= x
    <3>1. x \in 1 .. Len(new) /\ x > p /\ x # p + 1
      BY <1>2, <1>6, <1>7, <2>4
    <3> QED
      BY <1>1, <3>1
  <2> QED
    BY <1>2, <1>6, <2>2, <2>3, <2>4
<1>10. Min(starts) = p + 2
  <2>1. starts \in SUBSET Int
    BY <1>2
  <2> HIDE DEF starts
  <2> QED
    BY <1>9, <2>1, MinIsLeast
<1> DEFINE last == p + 1 + b
<1>11. last \in Nat /\ last <= Len(new) /\ p + 2 + b - 1 = last
  <2>1. b \in Nat /\ p \in Nat /\ Len(w) = p + 1 + b
    BY <1>1
  <2>2. Len(new) \in Nat /\ Len(new) >= Len(w)
    BY <1>2
  <2> HIDE DEF w, new, b, p
  <2> QED
    BY ONLY <2>1, <2>2
<1>12. Min({Len(new), last}) = last
  <2>1. {Len(new), last} \in SUBSET Int /\ last \in {Len(new), last}
        /\ \A x \in {Len(new), last} : last <= x
    BY <1>2, <1>11
  <2> HIDE DEF last
  <2> QED
    BY <2>1, MinIsLeast
<1>13. RetrieveBody(r, new) = SubSeq(new, p + 2, last)
  <2>1. ~ (b = 0 \/ b >= MaxBuffer \/ Len(new) <= b \/ Len(new) >= MaxBuffer)
    BY <1>1, <1>2, <1>3, <1>4
  <2>2. Lines(new) # {} /\ starts # {}
    BY <1>5, <1>9
  <2> HIDE DEF new
  <2> QED
    BY <1>10, <1>11, <1>12, <2>1, <2>2 DEF RetrieveBody
<1>14. SubSeq(new, p + 2, last) = r.body
  <2> DEFINE sub == SubSeq(new, p + 2, last)
  <2>0. p \in Nat /\ b \in Nat /\ b >= 1 /\ new \in Seq(Token) /\ last <= Len(new) /\ Len(new) \in Nat
    BY <1>1, <1>2, <1>4, <1>11
  <2>3. IsSequence(r.body)
    BY ScriptsAssumption
  <2>4. r.body = [i \in 1 .. b |-> r.body[i]]
    <3>1. r.body \in Seq({r.body[i] : i \in DOMAIN r.body})
      BY <2>3 DEF IsSequence
    <3> QED
      BY <3>1
  <2> HIDE DEF new, p, b
  <2>1. /\ sub \in Seq(Token) /\ Len(sub) = b
        /\ \A i \in 1 .. b : sub[i] = new[p + 1 + i]
    BY <2>0
  <2> HIDE DEF sub
  <2>2. \A i \in 1 .. b : sub[i] = r.body[i]
    BY <1>8, <2>1
  <2>5. sub = [i \in 1 .. b |-> sub[i]]
    BY <2>0, <2>1
  <2> QED
    BY <2>2, <2>4, <2>5 DEF sub
<1> QED
  BY <1>13, <1>14
---------------------------------------------------------------------------
(* What is handed up.                                                      *)

\* What is read is a request of the scripts.
LEMMA ReadIsRequest ==
  ASSUME ExchangeInv, ReadRequest
  PROVE  /\ serving \in Client /\ next[serving] \in DOMAIN script[serving]
         /\ Current(serving) \in RequestsOf(Scripts)
<1>1. /\ serving \in Client /\ sent[serving] /\ TypeOK /\ Exchange(serving)
  BY DEF ReadRequest, ExchangeInv, TypeOK
<1>2. next[serving] \in DOMAIN script[serving] /\ script[serving] \in Scripts[serving]
  BY <1>1, ScriptLength DEF Exchange, TypeOK, ClientTypeOK
<1>3. serving \in DOMAIN Scripts
  BY <1>1, ScriptsAssumption
<1> QED
  BY <1>1, <1>2, <1>3 DEF Current, RequestsOf

\* A request that is due is handed up, a short POST with the body it was sent with.
LEMMA DueIsHandedUp ==
  ASSUME Orderly(RequestsOf(Scripts)), ExchangeInv, BufferInv, ReadRequest
  PROVE  LET r == Current(serving)
         IN  \/ \E payload : \E result \in Results(r.command) :
                  /\ HandedUp(serving, payload, result)
                  /\ r.verb = "POST" /\ Short(r) => payload = r.body
             \/ Answered(r) /\ ~Due(r)
             \/ Ended
<1> DEFINE r == Current(serving)
           body == RetrieveBody(r, MemoryAfter(r, memory))
           Up2 == \E payload : \E result \in Results(r.command) :
                    /\ HandedUp(serving, payload, result)
                    /\ r.verb = "POST" /\ Short(r) => payload = r.body
<1>1. ProcessRequest(r) /\ memory' = MemoryAfter(r, memory) /\ r \in RequestsOf(Scripts)
  BY ReadIsRequest DEF ReadRequest
<1>2. ASSUME NEW payload, HandUp(r, payload), r.verb = "POST" /\ Short(r) => payload = r.body
      PROVE  Up2
  BY <1>2 DEF HandUp, HandedUp, Respond
<1>3. CASE r.verb = "GET"
  <2>1. CreateGetResponse(r) /\ r.verb # "POST"
    BY <1>1, <1>3 DEF ProcessRequest
  <2>2. CASE r.command = "/"
    BY <2>1, <2>2 DEF CreateGetResponse, Respond, Answered, Statuses, Due
  <2>3. CASE r.command # "/"
    BY <1>2, <2>1, <2>3 DEF CreateGetResponse, OnGetMessage
  <2> QED
    BY <2>2, <2>3
<1>4. CASE r.verb = "POST"
  <2>1. CreatePostResponse(r)
    BY <1>1, <1>4 DEF ProcessRequest
  <2>2. CASE Lines(r.header) = {}
    BY <2>1, <2>2 DEF CreatePostResponse, Ended
  <2>3. CASE Lines(r.header) # {} /\ body = <<>>
    <3>1. ~Due(r)
      BY <1>1, <1>4, <2>3, BodyIsFound DEF Due
    <3> QED
      BY <1>1, <2>1, <2>3, <3>1 DEF CreatePostResponse, Respond, Answered, Statuses
  <2>4. CASE Lines(r.header) # {} /\ body # <<>>
    <3>1. r.body # <<>>
      BY <2>4 DEF RetrieveBody
    <3>2. Short(r) => body = r.body
      BY <1>1, <1>4, <2>4, <3>1, BodyIsFound
    <3> QED
      BY <1>1, <1>2, <2>1, <2>4, <3>2 DEF CreatePostResponse
  <2> QED
    BY <2>2, <2>3, <2>4
<1>5. CASE r.verb \notin {"GET", "POST"}
  BY <1>1, <1>5 DEF ProcessRequest, Respond, Answered, Statuses, Due
<1> QED
  BY <1>3, <1>4, <1>5

\* The client's n-th request is handed up if it is due.
Handled(c, n) == Due(script[c][n]) => \E i \in DOMAIN handed[c] : handed[c][i].number = n

\* Whatever is answered has been handed up if it was due, and with its own body.
Handover(c) ==
  /\ \A i \in DOMAIN handed[c] :
       LET r == script[c][handed[c][i].number]
       IN  r.verb = "POST" /\ Short(r) => handed[c][i].payload = r.body
  /\ Answering(c) \/ reply[c] # NoStatus => Handled(c, next[c])
  /\ \A n \in 1 .. Len(got[c]) : Handled(c, n)

HandoverInv == BufferInv /\ \A c \in Client : Handover(c)

LEMMA HandoverInit == Init => HandoverInv
<1> SUFFICES ASSUME Init PROVE HandoverInv
  OBVIOUS
<1> USE DEF Init, ClientInit
<1>1. memory = <<>> /\ <<>> \in Seq(Token) /\ Len(<<>>) = 0
  BY EmptySeq
<1>2. BufferInv
  BY <1>1, SizesAssumption DEF BufferInv, LengthsInPlace
<1>3. ASSUME NEW c \in Client PROVE Handover(c)
  <2>1. got[c] = <<>> /\ Len(got[c]) = 0 /\ handed[c] = <<>> /\ DOMAIN handed[c] = {}
    OBVIOUS
  <2> QED
    BY <2>1 DEF Handover, Answering
<1> QED
  BY <1>2, <1>3 DEF HandoverInv

\* Reading a request keeps the buffer in order and hands up what is due.
LEMMA ReadKeepsHandover ==
  ASSUME Orderly(RequestsOf(Scripts)), ExchangeInv, HandoverInv, ReadRequest
  PROVE  HandoverInv'
<1> DEFINE r == Current(serving)
<1>0. PICK k \in Client : k = serving
  BY ReadIsRequest
<1>1. /\ r = script[k][next[k]] /\ r \in RequestsOf(Scripts)
      /\ memory' = MemoryAfter(r, memory) /\ serving' = k
      /\ UNCHANGED <<script, next, phase, reply, got, backlog>>
  BY <1>0, ReadIsRequest DEF ReadRequest, Current
<1>2. BufferInv'
  <2>1. BufferInv
    BY DEF HandoverInv
  <2>2. memory' \in Seq(Token) /\ Len(memory') <= ReadSize /\ LengthsInPlace(memory')
    BY <1>1, <2>1, ReadKeepsBuffer
  <2> QED
    BY <2>2 DEF BufferInv, LengthsInPlace
<1>3. reply[k] = NoStatus
  BY <1>0 DEF ReadRequest, ExchangeInv, Exchange
<1>4. \A c \in Client : Handover(c)
  BY DEF HandoverInv
<1>5. CASE handed' = handed /\ (server' = "write" => ~Due(r))
  <2>1. ASSUME NEW c \in Client PROVE Handover(c)'
    <3>1. CASE c = k
      BY <1>1, <1>3, <1>4, <1>5, <3>1 DEF Handover, Handled, Answering
    <3>2. CASE c # k
      <4>1. ~Answering(c)'
        BY <1>1, <3>2 DEF Answering
      <4> QED
        BY <1>1, <1>4, <1>5, <4>1 DEF Handover, Handled
    <3> QED
      BY <3>1, <3>2
  <2> QED
    BY <1>2, <2>1 DEF HandoverInv
<1>6. ASSUME NEW payload, NEW result, HandedUp(k, payload, result),
             r.verb = "POST" /\ Short(r) => payload = r.body
      PROVE  HandoverInv'
  <2> DEFINE e == [number |-> next[k], payload |-> payload, result |-> result]
             h == handed[k]
             new == Append(h, e)
  <2>1. Histories
    BY DEF ExchangeInv
  <2>2. /\ handed'[k] = new /\ \A c \in Client : c # k => handed'[c] = handed[c]
        /\ e.number = next[k] /\ e.payload = payload
    BY <1>6, <2>1 DEF HandedUp, Histories
  <2>3. IsSequence(h)
    BY <2>1 DEF Histories
  <2> HIDE DEF e, h
  <2>4. /\ Len(h) \in Nat /\ DOMAIN h = 1 .. Len(h) /\ DOMAIN new = 1 .. Len(h) + 1
        /\ \A i \in 1 .. Len(h) : new[i] = h[i]
        /\ new[Len(h) + 1] = e
    BY <2>3, AppendToSequence
  <2> HIDE DEF new
  <2>5. /\ \A i \in DOMAIN new : (i \in DOMAIN h /\ new[i] = h[i]) \/ new[i] = e
        /\ \A i \in DOMAIN h : i \in DOMAIN new /\ new[i] = h[i]
        /\ \E i \in DOMAIN new : new[i] = e
    BY <2>4
  <2>6. ASSUME NEW n, Handled(k, n) PROVE Handled(k, n)'
    <3>1. SUFFICES ASSUME Due(script[k][n]) PROVE \E i \in DOMAIN new : new[i].number = n
      BY <1>1, <2>2 DEF Handled
    <3>2. PICK i \in DOMAIN h : h[i].number = n
      BY <2>6, <3>1 DEF Handled, h
    <3> QED
      BY <2>5, <3>2
  <2>7. Handled(k, next[k])'
    <3>1. PICK i \in DOMAIN new : new[i] = e
      BY <2>5
    <3> QED
      BY <1>1, <2>2, <3>1 DEF Handled
  <2>8. \A i \in DOMAIN new : LET q == script[k][new[i].number]
                              IN  q.verb = "POST" /\ Short(q) => new[i].payload = q.body
    <3>1. \A i \in DOMAIN h : LET q == script[k][h[i].number]
                              IN  q.verb = "POST" /\ Short(q) => h[i].payload = q.body
      BY <1>4 DEF Handover, h
    <3> QED
      BY <1>1, <1>6, <2>2, <2>5, <3>1
  <2>9. Handover(k)'
    BY <1>1, <1>4, <2>2, <2>6, <2>7, <2>8 DEF Handover
  <2>10. ASSUME NEW c \in Client, c # k PROVE Handover(c)'
    <3>1. ~Answering(c)' /\ handed'[c] = handed[c]
      BY <1>1, <2>2, <2>10 DEF Answering
    <3> QED
      BY <1>1, <1>4, <3>1 DEF Handover, Handled
  <2> QED
    BY <1>2, <2>9, <2>10 DEF HandoverInv
<1>7. BufferInv
  BY DEF HandoverInv
<1>8. \/ \E payload : \E result \in Results(r.command) :
           /\ HandedUp(k, payload, result)
           /\ r.verb = "POST" /\ Short(r) => payload = r.body
      \/ Answered(r) /\ ~Due(r)
      \/ Ended
  BY <1>0, <1>7, DueIsHandedUp
<1>9. CASE (Answered(r) /\ ~Due(r)) \/ Ended
  BY <1>5, <1>9 DEF Answered, Ended
<1> QED
  BY <1>6, <1>8, <1>9

LEMMA HandoverStep ==
  ASSUME Orderly(RequestsOf(Scripts)), ExchangeInv, HandoverInv, [Next]_vars
  PROVE  HandoverInv'
<1>0. BufferInv /\ \A c \in Client : Handover(c)
  BY DEF HandoverInv
<1>1. CASE Accept
  <2>1. BufferInv'
    <3>1. memory' = memory \/ memory' = <<>>
      BY <1>1 DEF Accept
    <3>2. CASE memory' = memory
      BY <1>0, <3>2 DEF BufferInv, LengthsInPlace
    <3>3. CASE memory' = <<>>
      <4>1. <<>> \in Seq(Token) /\ Len(<<>>) = 0
        BY EmptySeq
      <4> QED
        BY <3>3, <4>1, SizesAssumption DEF BufferInv, LengthsInPlace
    <3> QED
      BY <3>1, <3>2, <3>3
  <2>2. ASSUME NEW c \in Client PROVE Handover(c)'
    BY <1>0, <1>1 DEF Accept, Handover, Handled, Answering
  <2> QED
    BY <2>1, <2>2 DEF HandoverInv
<1>2. CASE ReadRequest
  BY <1>2, ReadKeepsHandover
<1>3. CASE WriteResponse
  <2>0. PICK k \in Client : k = serving
    BY <1>3 DEF WriteResponse, ExchangeInv, TypeOK
  <2>1. /\ Answering(k) /\ server' # "write"
        /\ UNCHANGED <<script, next, got, memory, handed>>
        /\ \A c \in Client : c # k => reply'[c] = reply[c]
    <3>1. DOMAIN reply = Client
      BY DEF ExchangeInv, TypeOK, ClientTypeOK
    <3> QED
      BY <1>3, <2>0, <3>1 DEF WriteResponse, Answering
  <2>2. BufferInv'
    BY <1>0, <2>1 DEF BufferInv, LengthsInPlace
  <2>3. ASSUME NEW c \in Client PROVE Handover(c)'
    <3>1. Answering(c) \/ reply[c] # NoStatus => Handled(c, next[c])
      BY <1>0 DEF Handover
    <3>2. reply'[c] # NoStatus => Answering(c) \/ reply[c] # NoStatus
      BY <2>1
    <3> QED
      BY <1>0, <2>1, <3>1, <3>2 DEF Handover, Handled, Answering
  <2> QED
    BY <2>2, <2>3 DEF HandoverInv
<1>4. CASE ReadEnd
  <2>1. BufferInv'
    BY <1>0, <1>4 DEF ReadEnd, BufferInv, LengthsInPlace
  <2>2. ASSUME NEW c \in Client PROVE Handover(c)'
    BY <1>0, <1>4 DEF ReadEnd, Handover, Handled, Answering
  <2> QED
    BY <2>1, <2>2 DEF HandoverInv
<1>5. CASE ClientNext(Up) /\ UNCHANGED <<server, serving, memory, response, blocked, handed>>
  <2>1. BufferInv'
    BY <1>0, <1>5 DEF BufferInv, LengthsInPlace
  <2>2. PICK k \in Client : \/ Connect(k, Up) \/ Send(k, Up) \/ Receive(k)
                            \/ Disconnect(k) \/ Fail(k, Up) \/ Vanish(k)
    BY <1>5 DEF ClientNext
  <2>3. DOMAIN reply = Client /\ DOMAIN got = Client /\ DOMAIN next = Client
    BY DEF ExchangeInv, TypeOK, ClientTypeOK, Histories
  <2>4. CASE ~Receive(k)
    <3>1. /\ UNCHANGED <<script, next, got, server, serving, handed>>
          /\ \A c \in Client : reply'[c] # NoStatus => reply[c] # NoStatus
      BY <1>5, <2>2, <2>3, <2>4 DEF Connect, Send, Disconnect, Fail, Vanish
    <3>2. ASSUME NEW c \in Client PROVE Handover(c)'
      BY <1>0, <3>1 DEF Handover, Handled, Answering
    <3> QED
      BY <2>1, <3>2 DEF HandoverInv
  <2>5. CASE Receive(k)
    <3>1. /\ UNCHANGED <<script, server, serving, handed>>
          /\ reply[k] # NoStatus /\ reply'[k] = NoStatus /\ got'[k] = Append(got[k], reply[k])
          /\ \A c \in Client : c # k => /\ reply'[c] = reply[c] /\ got'[c] = got[c]
                                        /\ next'[c] = next[c]
      BY <1>5, <2>3, <2>5 DEF Receive
    <3>2. /\ got[k] \in Seq(Statuses) /\ reply[k] \in Statuses
          /\ Len(got[k]) = next[k] - 1 /\ ~Answering(k) /\ next[k] \in Nat
      BY <3>1, ScriptLength DEF ExchangeInv, TypeOK, ClientTypeOK, Exchange
    <3>3. \A n \in 1 .. Len(got'[k]) : n \in 1 .. Len(got[k]) \/ n = next[k]
      BY <3>1, <3>2
    <3>4. Handled(k, next[k]) /\ \A n \in 1 .. Len(got[k]) : Handled(k, n)
      BY <1>0, <3>1 DEF Handover
    <3>5. \A n \in 1 .. Len(got'[k]) : Handled(k, n)
      BY <3>3, <3>4
    <3>6. Handover(k)'
      BY <1>0, <3>1, <3>2, <3>5 DEF Handover, Handled, Answering
    <3>7. ASSUME NEW c \in Client, c # k PROVE Handover(c)'
      BY <1>0, <3>1, <3>7 DEF Handover, Handled, Answering
    <3> QED
      BY <2>1, <3>6, <3>7 DEF HandoverInv
  <2> QED
    BY <2>4, <2>5
<1>6. CASE Unblock \/ UNCHANGED vars
  <2>1. UNCHANGED <<script, next, reply, got, server, serving, memory, handed>>
    BY <1>6 DEF Unblock, vars, clientVars
  <2>2. BufferInv'
    BY <1>0, <2>1 DEF BufferInv, LengthsInPlace
  <2>3. ASSUME NEW c \in Client PROVE Handover(c)'
    BY <1>0, <2>1 DEF Handover, Handled, Answering
  <2> QED
    BY <2>2, <2>3 DEF HandoverInv
<1> QED
  BY <1>1, <1>2, <1>3, <1>4, <1>5, <1>6 DEF Next, ServerNext

LEMMA HandoverAlways ==
  ASSUME Orderly(RequestsOf(Scripts))
  PROVE  Spec => [](ExchangeInv /\ HandoverInv)
<1>1. ExchangeInv /\ HandoverInv /\ [Next]_vars => HandoverInv'
  BY HandoverStep
<1> QED
  BY <1>1, ExchangeAlways, HandoverInit, PTL DEF Spec

\* Whatever older requests left in the receive buffer, and whoever sent them, a
\* POST that fits one read is handed up with the body it was sent with.
THEOREM BodiesAreHandedUp ==
  ASSUME Orderly(RequestsOf(Scripts))
  PROVE  Spec => []PayloadIsBody
<1>1. HandoverInv => PayloadIsBody
  BY DEF HandoverInv, Handover, PayloadIsBody
<1> QED
  BY <1>1, HandoverAlways, PTL

\* No command is handed up twice or out of order, although clients vanish before
\* their replies, and none that is due is answered without being handed up.
THEOREM CommandsAreHandedOnce ==
  ASSUME Orderly(RequestsOf(Scripts))
  PROVE  Spec => []HandedOnce
<1>1. ExchangeInv /\ HandoverInv => HandedOnce
  <2> SUFFICES ASSUME ExchangeInv, HandoverInv, NEW c \in Client
               PROVE  /\ \A i, j \in DOMAIN handed[c] : i < j => handed[c][i].number < handed[c][j].number
                      /\ \A n \in DOMAIN got[c] : Handled(c, n)
    BY DEF HandedOnce, Handled
  <2>1. DOMAIN got[c] = 1 .. Len(got[c])
    BY DEF ExchangeInv, TypeOK, ClientTypeOK
  <2> QED
    BY <2>1 DEF ExchangeInv, Exchange, HandoverInv, Handover
<1> QED
  BY <1>1, HandoverAlways, PTL
=============================================================================
