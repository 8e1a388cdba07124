---------------------------- MODULE CoupledSteps ----------------------------
(***************************************************************************)
(* What a coupled simulation promises the program that drives it: with     *)
(* every driver time step each turbine takes nSubsteps time steps, under the    *)
(* wind (or the loads) interpolated between the last driver step and this  *)
(* one, exactly once and in order, however often the driver repeats the    *)
(* step before it accepts it.  A restart returns all turbines to one       *)
(* earlier driver step.                                                    *)
(***************************************************************************)
EXTENDS Winds, Sequences

VARIABLES
    c,          \* the set-up: c.kind (one per turbine) and c.nSubsteps are used
    winds,      \* one wind for each driver step taken
    seen        \* per turbine, what each of its time steps was driven by

vars == <<c, winds, seen>>

\* Turbine t follows the driver unless it has its own wind (InflowWind).
Follows(t) == c.kind[t] /= "IfW"

Driven(t, v0, v1) ==
    [k \in 1..c.nSubsteps |-> IF Follows(t) THEN Blend(v0, v1, k, c.nSubsteps)
                                            ELSE OwnWind]

Latest(ws) == IF ws = <<>> THEN Wind0 ELSE ws[Len(ws)]

Init ==
    /\ winds = <<>>
    /\ seen = [t \in DOMAIN c.kind |-> <<>>]

\* One driver step, with whatever wind.
DriverStep ==
    /\ winds' = Append(winds, Latest(winds'))
    /\ seen' = [t \in DOMAIN seen |-> seen[t] \o Driven(t, Latest(winds), Latest(winds'))]
    /\ UNCHANGED c

GoBack ==
    \E k \in 0..Len(winds) :
        /\ winds' = SubSeq(winds, 1, k)
        /\ seen' = [t \in DOMAIN seen |-> SubSeq(seen[t], 1, k * c.nSubsteps)]
        /\ UNCHANGED c

Spec == Init /\ [][DriverStep \/ GoBack]_vars

=============================================================================
