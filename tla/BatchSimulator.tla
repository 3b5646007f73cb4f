--------------------------- MODULE BatchSimulator ---------------------------
(***************************************************************************)
(* What a distributed runtime promises its caller: it behaves as one       *)
(* simulator of all the lanes.  An operation that returns Ok has happened  *)
(* to every lane, once; one that returns Err leaves the state Lost, and    *)
(* only a checkpoint taken before brings it back.                          *)
(***************************************************************************)
EXTENDS Integers, Sequences

CONSTANTS
    TotalLanes,     \* number of lanes
    Inputs,         \* vectors a caller may pass to set_input
    MaxSteps        \* bound on the steps of one tick_many

Lost == [lost |-> TRUE]
Never == [never |-> TRUE]

VARIABLES
    mem,    \* [in, cnt] of all lanes, or Lost
    store,  \* the caller's latest checkpoint, Lost if taken in a lost state, or Never
    out     \* [values] the last read returned, or Lost, or Never

vars == <<mem, store, out>>

Zero == [l \in 1..TotalLanes |-> 0]

Init ==
    /\ mem = [in |-> Zero, cnt |-> Zero]
    /\ store = Never
    /\ out = Never

SetInput ==
    /\ mem # Lost
    /\ \E v \in Inputs :
          /\ Len(v) = TotalLanes
          /\ mem' = [mem EXCEPT !.in = v]
    /\ UNCHANGED <<store, out>>

Tick ==
    /\ mem # Lost
    /\ \E n \in 0..MaxSteps :
          mem' = [mem EXCEPT !.cnt = [l \in 1..TotalLanes |-> @[l] + n * mem.in[l]]]
    /\ UNCHANGED <<store, out>>

Read ==
    /\ out' = IF mem = Lost THEN Lost ELSE [values |-> mem.cnt]
    /\ UNCHANGED <<mem, store>>

Checkpoint ==
    /\ store' = mem
    /\ UNCHANGED <<mem, out>>

Restore ==
    /\ store # Never
    /\ mem' \in {store, Lost}
    /\ UNCHANGED <<store, out>>

Fail ==
    /\ mem' = Lost
    /\ UNCHANGED <<store, out>>

Next == SetInput \/ Tick \/ Read \/ Checkpoint \/ Restore \/ Fail

Spec == Init /\ [][Next]_vars
=============================================================================
