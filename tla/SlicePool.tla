------------------------------ MODULE SlicePool ------------------------------
(***************************************************************************)
(* internal/slicepool: a sync.Pool of byte slices, and the LazySlices that *)
(* hold one slice or none.  The users of a pool conjoin these operations   *)
(* with their own steps.                                                   *)
(***************************************************************************)
CONSTANTS
    User,      \* goroutines, each with one LazySlice at a time
    Slice,     \* the slices that exist
    Nil        \* LazySlice.slice of an empty one

VARIABLES
    pool,      \* the slices in the sync.Pool
    slice      \* LazySlice.slice of each goroutine

Held == {slice[u] : u \in User}

PoolInit == pool = {} /\ slice = [u \in User |-> Nil]

\* Pool.get: a slice of the pool, or a new one, which nobody has.
get(b) == b \in pool \/ b \in Slice \ (pool \cup Held)

\* Acquire would panic on a LazySlice that is not empty.
Acquire(u, b) ==
    /\ slice[u] = Nil
    /\ get(b)
    /\ pool' = pool \ {b}
    /\ slice' = [slice EXCEPT ![u] = b]

\* Release puts the slice back, if there is one.
Release(u) ==
    /\ pool' = IF slice[u] = Nil THEN pool ELSE pool \cup {slice[u]}
    /\ slice' = [slice EXCEPT ![u] = Nil]

\* The garbage collector empties the pool when it likes.
Collect ==
    /\ pool # {}
    /\ pool' = {}
    /\ UNCHANGED slice

=============================================================================
