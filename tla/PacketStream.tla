----------------------------- MODULE PacketStream -----------------------------
(***************************************************************************)
(* What a receiver of packets promises: it handles the packets of its peer *)
(* one after the other, each once, none left out, and never one after a    *)
(* packet it cannot accept, at which it closes the connection.             *)
(***************************************************************************)
EXTENDS Naturals, Sequences

CONSTANTS Kinds,  \* what a packet may be
          Good    \* of these, the acceptable ones

VARIABLES sent,     \* the packets the peer sent
          handled,  \* how many of them have been handled
          open      \* the receiver goes on

vars == <<sent, handled, open>>

Init == sent = <<>> /\ handled = 0 /\ open = TRUE

Send(k) ==
  /\ sent' = Append(sent, k)
  /\ UNCHANGED <<handled, open>>

(* Handle some packets, and close at one that is not good.                 *)
Handle ==
  /\ open
  /\ handled' \in handled..Len(sent)
  /\ \A i \in (handled + 1)..handled' : sent[i] \in Good
  /\ \/ handled' > handled /\ open' = TRUE
     \/ handled' < Len(sent) /\ sent[handled' + 1] \notin Good /\ open' = FALSE
  /\ UNCHANGED sent

(* The connection may be lost at any time.                                 *)
Lose ==
  /\ open /\ open' = FALSE
  /\ UNCHANGED <<sent, handled>>

Next == (\E k \in Kinds : Send(k)) \/ Handle \/ Lose

Spec == Init /\ [][Next]_vars

(* An acceptable packet is handled in the end.                             *)
FairSpec == Spec /\ WF_vars(Handle)
=============================================================================
