--------------------------- MODULE MessageServer ---------------------------
(***************************************************************************)
(* MessageServer::onMessage, the Message it builds, what the map manager   *)
(* stores of it and what a backup and a restore make of that: the way of a *)
(* key's details, and of a report size, from the payload of a request to   *)
(* the answers.  Requests are handled one at a time; a message is applied  *)
(* later, by the consumer thread.                                          *)
(*                                                                         *)
(* Abstraction: a text is a sequence of tokens, words, numbers and commas. *)
(* The ranking is left to MapManager, all known keys are taken as ranked;  *)
(* the wording of replies is left out, but for the size one reply names.   *)
(***************************************************************************)
EXTENDS Integers, SequencesExt

CONSTANTS
  Word, Number,    \* the tokens of texts: model values, and naturals
  Comma,           \* payloadDelimiter and FIELD_SEPARATOR
  MaxPayload,      \* bound: the tokens of a payload
  MaxRequests,     \* bound: the requests handled
  Sizes,           \* the numbers given to /setTopHotKeys
  ReportSize,      \* N at the start (10 in tracker.cpp)
  MaxReportSize    \* M (20 in tracker.cpp)

\* Words, numbers and the comma are told apart; N starts within M.
ASSUME TokensAssumption ==
  /\ Number \subseteq Nat /\ Comma \notin Word
  /\ \A t \in Word \cup {Comma} : t \notin Nat
ASSUME LimitsAssumption ==
  /\ MaxPayload \in Nat /\ Sizes \subseteq Int
  /\ MaxReportSize \in Nat /\ ReportSize \in 0 .. MaxReportSize

Token == Word \cup Number \cup {Comma}
Payloads == BoundedSeq(Token, MaxPayload)

VARIABLES
  inbox,     \* the messages pushed and not yet applied
  keys,      \* m_pKeyMap: the details of the known keys
  base,      \* m_baseReportElementNumber
  keyFile,   \* the lines of keys.csv
  alive,     \* FALSE once an exception nobody catches has ended the process
  told,      \* history: the size the last successful reply to /setTopHotKeys
             \* named, or 0
  requests   \* how many requests were handled

vars == <<inbox, keys, base, keyFile, alive, told, requests>>

Init ==
  /\ inbox = <<>> /\ keys = <<>> /\ base = ReportSize
  /\ keyFile = {} /\ alive = TRUE /\ told = 0 /\ requests = 0

---------------------------------------------------------------------------
(* Texts.                                                                  *)

Commas(text) == {i \in DOMAIN text : text[i] = Comma}

\* find(delimiter): the first comma, 0 for npos.
Find(text) == IF Commas(text) = {} THEN 0 ELSE Min(Commas(text))

Before(text) == IF Find(text) = 0 THEN text ELSE SubSeq(text, 1, Find(text) - 1)
After(text) == IF Find(text) = 0 THEN <<>> ELSE SubSeq(text, Find(text) + 1, Len(text))

\* stoi and stoul read the number a text begins with, and throw if there is none.
IsNumber(text) == text # <<>> /\ text[1] \notin Word \cup {Comma}
Stoi(text) == text[1]

\* Mutant of Split: the key is what stands before the last comma.
SplitAtLast(data) ==
  LET end == IF Commas(data) = {} THEN Len(data) + 1 ELSE Max(Commas(data))
  IN  [key |-> SubSeq(data, 1, end - 1), url |-> SubSeq(data, end + 1, Len(data)), port |-> 0]

\* keySent splits its payload.  The second find starts from the beginning again
\* and meets the first comma: the url is all that follows it, and the port the
\* number that follows it, 0 if none does.
Split(data) ==
  [key |-> Before(data),
   url |-> After(data),
   port |-> IF IsNumber(After(data)) THEN Stoi(After(data)) ELSE 0]

---------------------------------------------------------------------------
(* Messages and the map manager.                                           *)

\* new Message(addKey, key, url, 0, port): the port lands in the 16 bits of
\* m_nshort, m_number keeps its default.
AddKeyMessage(parts) ==
  [cmd |-> "addKey", str1 |-> parts.key, str2 |-> parts.url,
   short |-> parts.port % 65536, number |-> 0]

SetRankingLengthMessage(num) ==
  [cmd |-> "setRankingLength", str1 |-> <<>>, str2 |-> <<>>,
   short |-> num % 65536, number |-> 0]

Known(k) == k \in DOMAIN keys

\* Mutant of Clamp: N may exceed M.
ClampNothing(n) == n

\* setTopKeyReportBaseSize: N never exceeds M.
Clamp(n) == Min({n, MaxReportSize})

\* The consumer thread applies a message: addKey stores the number as the port.
Consume ==
  /\ alive /\ inbox # <<>>
  /\ inbox' = Tail(inbox)
  /\ LET m == Head(inbox)
         details == [url |-> m.str2, port |-> m.number,
                     frequency |-> IF Known(m.str1) THEN keys[m.str1].frequency + 1 ELSE 1]
     IN  IF m.cmd = "addKey"
         THEN /\ keys' = [k \in DOMAIN keys \cup {m.str1} |->
                            IF k = m.str1 THEN details ELSE keys[k]]
              /\ UNCHANGED base
         ELSE base' = Clamp(m.short) /\ UNCHANGED keys
  /\ UNCHANGED <<keyFile, alive, told, requests>>

---------------------------------------------------------------------------
(* Requests.                                                               *)

Request == alive /\ requests < MaxRequests /\ requests' = requests + 1

KeySent(data) ==
  /\ Request
  /\ inbox' = Append(inbox, AddKeyMessage(Split(data)))
  /\ UNCHANGED <<keys, base, keyFile, alive, told>>

\* Mutant of SetTopHotKeys: zero is accepted.
SetTopHotKeysZero(num) ==
  /\ Request
  /\ IF num < 0 THEN UNCHANGED <<inbox, told>>
     ELSE inbox' = Append(inbox, SetRankingLengthMessage(num)) /\ told' = num
  /\ UNCHANGED <<keys, base, keyFile, alive>>

\* A number that is not positive is refused (as is one that is no int).
SetTopHotKeys(num) ==
  /\ Request
  /\ IF num <= 0 THEN UNCHANGED <<inbox, told>>
     ELSE inbox' = Append(inbox, SetRankingLengthMessage(num)) /\ told' = num
  /\ UNCHANGED <<keys, base, keyFile, alive>>

\* The line of a key in keys.csv: key,frequency,url,port.
Line(k) ==
  k \o <<Comma, keys[k].frequency, Comma>> \o keys[k].url \o <<Comma, keys[k].port>>

\* What a restore reads of a line: three fields up to a comma, then the rest.
\* A frequency or port that begins with no number throws.
Read(line) ==
  LET frequency == Before(After(line))
      url == Before(After(After(line)))
      port == After(After(After(line)))
  IN  [key |-> Before(line), frequency |-> frequency, url |-> url, port |-> port,
       throws |-> ~IsNumber(frequency) \/ ~IsNumber(port)]

Backup ==
  /\ alive /\ DOMAIN keys # {} /\ keyFile' = {Line(k) : k \in DOMAIN keys}
  /\ UNCHANGED <<inbox, keys, base, alive, told, requests>>

\* A line that throws ends the process; otherwise the lines become the map.
Restore ==
  /\ alive /\ keyFile # {}
  /\ LET lines == {Read(l) : l \in keyFile}
     IN  IF \E r \in lines : r.throws
         THEN alive' = FALSE /\ UNCHANGED keys
         ELSE /\ keys' = [k \in {r.key : r \in lines} |->
                            LET r == CHOOSE r \in lines : r.key = k
                            IN  [url |-> r.url, port |-> Stoi(r.port),
                                 frequency |-> Stoi(r.frequency)]]
              /\ UNCHANGED alive
  /\ UNCHANGED <<inbox, base, keyFile, told, requests>>

Next ==
  \/ (\E data \in Payloads : KeySent(data)) \/ (\E num \in Sizes : SetTopHotKeys(num))
  \/ Consume \/ Backup \/ Restore

Spec == Init /\ [][Next]_vars

---------------------------------------------------------------------------
TypeOK ==
  /\ keys \in [DOMAIN keys -> [url : Seq(Token), port : Nat, frequency : Nat]]
  /\ base \in 0 .. MaxReportSize
  /\ alive \in BOOLEAN

\* A backup loses no key and no count: whatever the payload was, the line of a
\* key begins with the key and its count as a restore reads them, and all of it
\* reads back when the url has no comma.
LinesReadBack ==
  \A k \in DOMAIN keys :
    LET r == Read(Line(k))
    IN  /\ r.key = k /\ r.frequency = <<keys[k].frequency>>
        /\ Commas(keys[k].url) = {} =>
             ~r.throws /\ r.url = keys[k].url /\ r.port = <<keys[k].port>>

\* N is what the last accepted request named, in 16 bits and up to M, as soon as
\* its message was applied; refused requests, backups and restores leave it.
SizeInForce ==
  inbox = <<>> => base = IF told = 0 THEN ReportSize ELSE Min({told % 65536, MaxReportSize})

\* "split inData in 3 components" (messageserver.cpp:55): of a payload
\* key,url,port the message carries the key, the url and the port.
SplitInThree ==
  [][\A k, u \in Word, p \in Number :
       KeySent(<<k, Comma, u, Comma, p>>) =>
         LET m == Last(inbox')
         IN  m.str1 = <<k>> /\ m.str2 = <<u>> /\ p \in {m.short, m.number}]_vars
============================================================================
