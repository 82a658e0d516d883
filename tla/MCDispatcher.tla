---------------------------- MODULE MCDispatcher ----------------------------
(***************************************************************************)
(* Instances of Dispatcher for TLC: three tasks, two of them of the same   *)
(* source.                                                                 *)
(***************************************************************************)
EXTENDS Dispatcher, TLC

CONSTANTS t1, t2, t3, n1, n2

MCTasks == {t1, t2, t3}
MCNodes == {n1, n2}

NamedPriority == t1 :> 0 @@ t2 :> 1 @@ t3 :> 3

MCCapacity == n1 :> 1 @@ n2 :> 2

\* With 12 bits, two bytes overflow as a dozen and more do with 64: the first
\* hash is negative and odd, the second positive.
MCUrl == t1 :> <<104, 117>> @@ t2 :> <<47, 120>> @@ t3 :> <<47, 120>>
=============================================================================
