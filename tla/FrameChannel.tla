----------------------------- MODULE FrameChannel -----------------------------
(***************************************************************************)
(* What framing promises over a connection: the frames one end writes are  *)
(* handed over at the other end in order, unchanged, none twice and none   *)
(* left out.  TcpClient and TcpServer count on this channel when they send *)
(* and receive whole frames.                                               *)
(***************************************************************************)
EXTENDS Sequences, SequencesExt

CONSTANT Frames

VARIABLES sent,       \* the frames written, in order
          delivered   \* the frames handed over, in order

vars == <<sent, delivered>>

Init == sent = << >> /\ delivered = << >>

Write == /\ \E f \in Frames : sent' = Append(sent, f)
         /\ UNCHANGED delivered

\* One recv() may complete several frames.
Deliver == /\ delivered' # delivered
           /\ IsPrefix(delivered, delivered') /\ IsPrefix(delivered', sent)
           /\ UNCHANGED sent

Next == Write \/ Deliver

Spec == Init /\ [][Next]_vars
===============================================================================
