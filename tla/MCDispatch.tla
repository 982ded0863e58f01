----------------------------- MODULE MCDispatch ------------------------------
(* A provider with a pool of two keys, and a keyless one in reserve. *)
EXTENDS Dispatch, TLC

CONSTANTS Pooled, Keyless, Key1, Key2

PoolOfTwo == Pooled :> {Key1, Key2} @@ Keyless :> {}
WithReserve == {<<Pooled, Keyless>>}

\* A table that is neither in force nor in use is gone, and its breakers with it.
Used(v) == v = table \/ \E r \in Requests : pc[r] # "idle" /\ req[r].table = v
View == <<table, ceiling, slots, free, permits, pc, req, spare,
          [v \in Tables |-> IF Used(v) THEN gate[v] ELSE [u \in Units |-> "up"]]>>

Symmetry == Permutations(Requests)
=============================================================================
