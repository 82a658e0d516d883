----------------------------- MODULE Exclusion -----------------------------
(***************************************************************************)
(* What a lock promises: at most one client is inside the protected        *)
(* function at a time, and only the one inside leaves it.                  *)
(***************************************************************************)
CONSTANT Clients
VARIABLE inside

Init == inside = {}

Enter(c) == inside = {} /\ inside' = {c}
Leave(c) == c \in inside /\ inside' = inside \ {c}

Next == \E c \in Clients : Enter(c) \/ Leave(c)

Spec == Init /\ [][Next]_inside
=============================================================================
