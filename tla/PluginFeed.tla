------------------------------ MODULE PluginFeed ------------------------------
(***************************************************************************)
(* What the reliable tier of plugin messages promises a member (abstract   *)
(* specification): the room orders its broadcasts, and each member's shell *)
(* sees an ascending subsequence of that order -- nothing twice, nothing   *)
(* out of order, nothing that was not broadcast.  Frames may be skipped.   *)
(***************************************************************************)
EXTENDS Naturals, Sequences

CONSTANT Clients

VARIABLES
  sent,  \* how many frames the room has broadcast
  seen   \* seen[c]: the sequence numbers handed to c's shell, in order

vars == <<sent, seen>>

Init == sent = 0 /\ seen = [c \in Clients |-> <<>>]

Publish == sent' = sent + 1 /\ UNCHANGED seen

LastSeen(c) == IF seen[c] = <<>> THEN 0 ELSE seen[c][Len(seen[c])]

(* One or several frames reach c's shell, in the room's order. *)
HandOver(c) ==
  /\ seen'[c] # seen[c]
  /\ Len(seen'[c]) > Len(seen[c])
  /\ SubSeq(seen'[c], 1, Len(seen[c])) = seen[c]
  /\ \A i \in Len(seen[c]) + 1 .. Len(seen'[c]) :
        /\ seen'[c][i] \in 1..sent
        /\ seen'[c][i] > IF i = Len(seen[c]) + 1 THEN LastSeen(c) ELSE seen'[c][i - 1]
  /\ \A d \in Clients \ {c} : seen'[d] = seen[d]
  /\ UNCHANGED sent

Next == Publish \/ \E c \in Clients : HandOver(c)

Spec == Init /\ [][Next]_vars

===============================================================================
