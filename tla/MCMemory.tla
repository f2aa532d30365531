------------------------------ MODULE MCMemory ------------------------------
(* At first one item by hand, protected or not, beside a plain one. *)
EXTENDS Memory, TLC

CONSTANTS n1, n2, f1, f2

MCByHand ==
    {[n \in Names |-> CASE n = n1 -> [facts |-> {f1}, kept |-> kept]
                        [] n = n2 -> [facts |-> {f2}, kept |-> FALSE]
                        [] OTHER  -> None] : kept \in BOOLEAN}

=============================================================================
