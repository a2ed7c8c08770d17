------------------------------ MODULE Mailbox ------------------------------
(***************************************************************************)
(* What a message queue with a consumer thread promises: every accepted    *)
(* message is taken at most once, in the order of acceptance, and once the *)
(* box is being closed at most one more is taken.  What was accepted and   *)
(* not taken by then is lost.  ThreadedMessageQueue implements this        *)
(* (property MailboxSpec of its runs).                                     *)
(***************************************************************************)
EXTENDS Naturals, Sequences

CONSTANT Message

VARIABLES sent,    \* the accepted messages, in order
          taken,   \* how many of them the consumer has taken
          state    \* "new", "open", "closing" (one more may be taken), "closed"

vars == <<sent, taken, state>>

Init == sent = <<>> /\ taken = 0 /\ state = "new"

Open == state = "new" /\ state' = "open" /\ UNCHANGED <<sent, taken>>

\* A message whose sender found the box open may still arrive later.
Send(m) == state # "new" /\ sent' = Append(sent, m) /\ UNCHANGED <<taken, state>>

\* The message itself may be the order to close the box.
Take ==
  /\ state \in {"open", "closing"} /\ taken < Len(sent)
  /\ taken' = taken + 1
  /\ state' \in IF state = "open" THEN {"open", "closed"} ELSE {"closed"}
  /\ UNCHANGED sent

Close ==
  /\ state \in {"open", "closing"}
  /\ state' \in IF state = "open" THEN {"closing", "closed"} ELSE {"closed"}
  /\ UNCHANGED <<sent, taken>>

Next == Open \/ (\E m \in Message : Send(m)) \/ Take \/ Close

Spec == Init /\ [][Next]_vars
============================================================================
