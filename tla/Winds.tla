------------------------------- MODULE Winds -------------------------------
(* The wind (or the loads) that a driver program gives the turbines.  A    *)
(* sample is known by the driver step and pass that set it, and by the     *)
(* process that did; between two driver steps samples are interpolated.    *)
EXTENDS Integers

Wind0  == [step |-> 0, pass |-> 0, life |-> 0]      \* before the first step
NoWind == [step |-> -1, pass |-> 0, life |-> 0]     \* never set by the driver

\* The k-th of n values from v0 (k = 0) to v1 (k = n).
Blend(v0, v1, k, n) ==
    IF k = n THEN [from |-> v1, to |-> v1, at |-> n] ELSE [from |-> v0, to |-> v1, at |-> k]

\* What a turbine sees that has its own wind.
OwnWind == [from |-> NoWind, to |-> NoWind, at |-> 0]

=============================================================================
