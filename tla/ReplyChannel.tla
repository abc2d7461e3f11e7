---------------------------- MODULE ReplyChannel ----------------------------
(***************************************************************************)
(* What the mailbox promises for replies: within a session of the mailbox  *)
(* the master gets every reply that was put on its way, once and in the    *)
(* order of their numbers, whatever was lost.  A session that ends takes   *)
(* its replies with it.                                                    *)
(***************************************************************************)
EXTENDS Naturals

VARIABLES
  up,                 \* a session is open
  waiting,            \* the numbers of the replies on their way
  got                 \* the last one the master has, or that went with a session

channel == <<up, waiting, got>>

Init == up = FALSE /\ waiting = {} /\ got = 0

Open  == ~up /\ up' = TRUE /\ UNCHANGED <<waiting, got>>
Close == up /\ up' = FALSE /\ waiting' = {} /\ got' \in Nat /\ got' >= got

\* A reply newer than any before.
Make ==
  /\ up /\ UNCHANGED <<up, got>>
  /\ \E k \in waiting' : waiting' = waiting \cup {k} /\ \A j \in waiting \cup {got} : j < k

\* The oldest that waits.
Get ==
  /\ up /\ got' \in waiting /\ \A j \in waiting : got' <= j
  /\ waiting' = waiting \ {got'} /\ UNCHANGED up

Next == Open \/ Close \/ Make \/ Get

Spec == Init /\ [][Next]_channel

=============================================================================
