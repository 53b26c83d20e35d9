----------------------------- MODULE Forwarding -----------------------------
(***************************************************************************)
(* What the WinRM tunnel promises the client: its link to the remote host  *)
(* is brought up once; each connection is carried to the guest at most     *)
(* once, and only while the link stands; what is carried when the link     *)
(* falls ends with it, and what still waits then is never carried.         *)
(***************************************************************************)
CONSTANT Conns
VARIABLES link,   \* "before", "up" or "down"
          fwd     \* each connection: "waiting", "carried" or "over"
vars == <<link, fwd>>

Init == link = "before" /\ fwd = [c \in Conns |-> "waiting"]

Raise == link = "before" /\ link' = "up" /\ UNCHANGED fwd

Carry(c) == link = "up" /\ fwd[c] = "waiting" /\ fwd' = [fwd EXCEPT ![c] = "carried"] /\ UNCHANGED link

\* One connection ends, or all that wait in the queue are refused at once.
End(S) == link # "before" /\ fwd' = [c \in Conns |-> IF c \in S THEN "over" ELSE fwd[c]] /\ UNCHANGED link

Fall == link # "down" /\ link' = "down" /\ fwd' = [c \in Conns |-> IF fwd[c] = "carried" THEN "over" ELSE fwd[c]]

Next == Raise \/ Fall \/ (\E c \in Conns : Carry(c)) \/ \E S \in SUBSET Conns : End(S)

Spec == Init /\ [][Next]_vars
=============================================================================
