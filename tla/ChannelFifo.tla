---------------------------- MODULE ChannelFifo ----------------------------
(***************************************************************************)
(* What a Channel[TMsg] promises (lib/system/channels_builtin.edl, the     *)
(* documentation of send, recv, open and close): one first-in first-out    *)
(* queue that all senders and receivers share, bounded by maxItems when    *)
(* that is positive, which loses everything still pending when closed.     *)
(* Nothing of the ring buffer, the lock or the condition variable is seen. *)
(***************************************************************************)
EXTENDS Naturals, Sequences

CONSTANTS Senders, Receivers, MaxItems

VARIABLES maxItems,  \* the bound the channel was opened with
          queue,     \* messages sent and not yet received, oldest first
          nsent,     \* number of messages each sender has put in the queue
          got,       \* what each receiver has been handed, in order
          closed     \* has the channel been closed?

fvars == <<maxItems, queue, nsent, got, closed>>

\* A message is named by its sender and its place among that sender's sends.
Msg == Senders \X (Nat \ {0})

FInit == /\ maxItems \in MaxItems
         /\ queue = << >>
         /\ nsent = [s \in Senders |-> 0]
         /\ got = [r \in Receivers |-> << >>]
         /\ closed = FALSE

FSend(s) == /\ ~closed
            /\ maxItems > 0 => Len(queue) < maxItems
            /\ queue' = Append(queue, <<s, nsent[s] + 1>>)
            /\ nsent' = [nsent EXCEPT ![s] = @ + 1]
            /\ UNCHANGED <<maxItems, got, closed>>

FRecv(r) == /\ ~closed
            /\ queue # << >>
            /\ got' = [got EXCEPT ![r] = Append(@, Head(queue))]
            /\ queue' = Tail(queue)
            /\ UNCHANGED <<maxItems, nsent, closed>>

FClose == /\ ~closed
          /\ closed' = TRUE
          /\ queue' = << >>
          /\ UNCHANGED <<maxItems, nsent, got>>

FNext == \/ \E s \in Senders : FSend(s)
         \/ \E r \in Receivers : FRecv(r)
         \/ FClose

FSpec == FInit /\ [][FNext]_fvars
=============================================================================
