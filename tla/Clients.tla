------------------------------- MODULE Clients -------------------------------
(***************************************************************************)
(* The client programs: http-client-command, which sends one request, and  *)
(* client-stress-test, whose main thread and whose 200 threads send many,  *)
(* each over a connection of its own and each waiting for a reply before   *)
(* the next request.  A program ends when its requests are answered, when  *)
(* the tracker is gone, or when somebody kills it.                         *)
(*                                                                         *)
(* Abstraction: a request is a record; on the wire it is a sequence of     *)
(* tokens, a token being a piece of the target, a header line, the empty   *)
(* line or a piece of the body.  What a socket holds is a flag (the        *)
(* request is unread) and a status (the reply is unread): a program has    *)
(* one request outstanding at most.                                        *)
(***************************************************************************)
EXTENDS Integers, Sequences

CONSTANTS
  Client,      \* the connections the programs open, one per program or thread
  Scripts      \* for each, the possible sequences of its requests

VARIABLES
  script,      \* the requests of each client
  next,        \* the number of the one it is at
  phase,       \* "out", "connected", "waiting" (in http::read), "closed"
  sent,        \* its request is in the tracker's socket, unread
  reply,       \* the status of the reply in its own socket, or NoStatus
  got,         \* the statuses of the replies it has read
  backlog      \* the connections not yet accepted, in order

clientVars == <<script, next, phase, sent, reply, got, backlog>>

NoStatus == "none"
Statuses == {"200", "400", "404", "500"}

---------------------------------------------------------------------------
(* Requests.                                                               *)

Field == <<"field">>
Blank == <<"blank">>
ContentLength(n) == <<"Content-Length", n>>
Text(x) == <<"text", x>>

\* Host, User-Agent and Content-Type are set in this order; prepare_payload adds
\* Content-Length behind them.  "width" is the length of the target.
Post(command, width, body) ==
  [verb |-> "POST", command |-> command, width |-> width,
   header |-> <<Field, ContentLength(Len(body))>>, body |-> body]
Get(command, width) ==
  [verb |-> "GET", command |-> command, width |-> width, header |-> <<Field>>, body |-> <<>>]

KeySent(key) == Post("keySent", 1, key)
IsHotKey(key) == Post("isHotKey", 1, key)
SetKeyReportBaseSize(size) == Post("setKeyReportBaseSize", 3, size)
TotalKeys == Get("totalKeys", 1)
GetTopHotKeys == Get("getTopHotKeys", 2)

\* The requests of the stress test's main thread: its keys are 13 or 12
\* characters, the size and the first key it asks for 2 and 3.
StressScript ==
  LET key == <<Text(1), Text(1)>>
      other == <<Text(2), Text(2)>>
      short == <<Text(3)>>
  IN  <<KeySent(key), KeySent(key), KeySent(key), SetKeyReportBaseSize(short),
        IsHotKey(short), KeySent(other), IsHotKey(other),
        GetTopHotKeys, TotalKeys, GetTopHotKeys>>

\* A thread of the stress test reports n keys of one length.
ThreadScript(n) == [i \in 1 .. n |-> KeySent(<<Text(i + 3), Text(0)>>)]

\* http-client-command sends the one request of its command line.
CommandScript(verb, command, width, body) ==
  <<IF verb = "GET" THEN Get(command, width) ELSE Post(command, width, body)>>

\* All the requests of the scripts.  (A sequence is one over its own elements.)
RequestsOf(scripts) ==
  UNION {UNION {{s[i] : i \in DOMAIN s} : s \in scripts[c]} : c \in DOMAIN scripts}
IsSequence(s) == s \in Seq({s[i] : i \in DOMAIN s})

ASSUME ScriptsAssumption ==
  /\ DOMAIN Scripts = Client
  /\ \A c \in Client : \A s \in Scripts[c] : IsSequence(s)
  /\ \A r \in RequestsOf(Scripts) :
       r.width \in Nat /\ IsSequence(r.header) /\ IsSequence(r.body)

Wire(r) == [i \in 1 .. r.width |-> <<"target">>] \o r.header \o <<Blank>> \o r.body
HeaderSize(r) == r.width + Len(r.header) + 1

---------------------------------------------------------------------------
(* The programs.  "up" says whether the tracker's process runs.            *)

ClientInit ==
  /\ script \in {s \in [Client -> UNION {Scripts[c] : c \in Client}] :
                   \A c \in Client : s[c] \in Scripts[c]}
  /\ next = [c \in Client |-> 1] /\ phase = [c \in Client |-> "out"]
  /\ sent = [c \in Client |-> FALSE] /\ reply = [c \in Client |-> NoStatus]
  /\ got = [c \in Client |-> <<>>] /\ backlog = <<>>

Current(c) == script[c][next[c]]

\* The kernel completes the connection; the tracker accepts it some time.
Connect(c, up) ==
  /\ phase[c] = "out"
  /\ phase' = [phase EXCEPT ![c] = IF up THEN "connected" ELSE "closed"]
  /\ backlog' = IF up THEN Append(backlog, c) ELSE backlog
  /\ UNCHANGED <<script, next, sent, reply, got>>

\* http::write: the request fits the socket, so this does not wait.
Send(c, up) ==
  /\ phase[c] = "connected" /\ up /\ next[c] <= Len(script[c])
  /\ phase' = [phase EXCEPT ![c] = "waiting"] /\ sent' = [sent EXCEPT ![c] = TRUE]
  /\ UNCHANGED <<script, next, reply, got, backlog>>

\* http::read returns; whatever the status, the program goes on.
Receive(c) ==
  /\ phase[c] = "waiting" /\ reply[c] # NoStatus
  /\ got' = [got EXCEPT ![c] = Append(@, reply[c])]
  /\ reply' = [reply EXCEPT ![c] = NoStatus]
  /\ next' = [next EXCEPT ![c] = @ + 1] /\ phase' = [phase EXCEPT ![c] = "connected"]
  /\ UNCHANGED <<script, sent, backlog>>

\* All requests are answered.
Disconnect(c) ==
  /\ phase[c] = "connected" /\ next[c] > Len(script[c])
  /\ phase' = [phase EXCEPT ![c] = "closed"]
  /\ UNCHANGED <<script, next, sent, reply, got, backlog>>

\* The tracker is gone: http::write or http::read throws, and the program ends.
Fail(c, up) ==
  /\ phase[c] \in {"connected", "waiting"} /\ ~up /\ reply[c] = NoStatus
  /\ phase' = [phase EXCEPT ![c] = "closed"]
  /\ UNCHANGED <<script, next, sent, reply, got, backlog>>

\* The program is killed: its socket is closed, an unread reply is lost.
Vanish(c) ==
  /\ phase[c] \in {"connected", "waiting"}
  /\ phase' = [phase EXCEPT ![c] = "closed"] /\ reply' = [reply EXCEPT ![c] = NoStatus]
  /\ UNCHANGED <<script, next, sent, got, backlog>>

ClientNext(up) ==
  \E c \in Client : \/ Connect(c, up) \/ Send(c, up) \/ Receive(c)
                    \/ Disconnect(c) \/ Fail(c, up) \/ Vanish(c)

ClientTypeOK ==
  /\ \A c \in Client : script[c] \in Scripts[c] /\ next[c] \in 1 .. Len(script[c]) + 1
  /\ phase \in [Client -> {"out", "connected", "waiting", "closed"}]
  /\ sent \in [Client -> BOOLEAN] /\ reply \in [Client -> Statuses \cup {NoStatus}]
  /\ got \in [Client -> Seq(Statuses)] /\ backlog \in Seq(Client)
=============================================================================
