--------------------------- MODULE MCHttpConnection ---------------------------
(* Scripts for the clients of HttpConnection.                              *)
EXTENDS HttpConnection

Letters(n) == [i \in 1 .. n |-> Text(9)]

\* The stress test's main thread, then one of its threads, and http-client-command
\* with every kind of reply, a restore, a key that needs two reads and one that is too long.
MCScripts ==
  [c \in {"main", "thread", "command"} |->
     CASE c = "main" -> {StressScript}
       [] c = "thread" -> {ThreadScript(1)}
       [] c = "command" ->
            {CommandScript("GET", "/", 1, <<>>), CommandScript("GET", "restore", 1, <<>>),
             CommandScript("POST", "unknown", 3, Letters(1)),
             CommandScript("POST", "keySent", 1, <<>>), CommandScript("POST", "keySent", 1, Letters(5)),
             CommandScript("POST", "keySent", 1, Letters(7)),
             CommandScript("POST", "keySent", 1, Letters(10)),
             <<[Post("keySent", 1, Letters(1)) EXCEPT !.verb = "PUT"]>>,
             <<[Post("keySent", 1, <<>>) EXCEPT !.header = <<Field>>]>>}]

ASSUME ProgramsAreOrderly == Orderly(RequestsOf(MCScripts))

\* A client that sends a header line behind Content-Length, as other programs do.
OtherScripts == [c \in {"plugin"} |->
  {<<TotalKeys, [KeySent(Letters(n)) EXCEPT !.header = <<Field, ContentLength(n), Field>>]>> : n \in 1 .. 3}]
=============================================================================
