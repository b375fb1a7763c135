---------------------------- MODULE RegisterFile ----------------------------
(***************************************************************************)
(* What register allocation promises, whatever its policy: a value gets a   *)
(* register nobody holds, keeps that one register until it gives it back,   *)
(* and allocation fails only when every register is held.                   *)
(***************************************************************************)
CONSTANTS Value, Reg, None

VARIABLES
    held,      \* the register each value is in, or None
    exhausted  \* allocation has failed

Free == Reg \ {held[v] : v \in Value}

Init ==
    /\ held = [v \in Value |-> None]
    /\ exhausted = FALSE

Acquire(v) ==
    /\ held[v] = None
    /\ \E reg \in Free : held' = [held EXCEPT ![v] = reg]
    /\ UNCHANGED exhausted

Release(v) ==
    /\ held[v] # None
    /\ held' = [held EXCEPT ![v] = None]
    /\ UNCHANGED exhausted

Fail ==
    /\ Free = {}
    /\ exhausted' = TRUE
    /\ UNCHANGED held

Next ==
    \/ /\ ~exhausted
       /\ \E v \in Value : Acquire(v) \/ Release(v)
    \/ Fail

Spec == Init /\ [][Next]_<<held, exhausted>>
=============================================================================
