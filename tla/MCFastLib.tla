----------------------------- MODULE MCFastLib -----------------------------
(* Processes with one or two objects; simulations whose length is and is    *)
(* not a multiple of the output step, and of the time step, their quotients *)
(* rounded up or not (alike when both steps are the same number); input     *)
(* files that abort on warnings, on severe and on fatal errors.             *)
EXTENDS FastLib

Pairs == {s \in SUBSET Kinds : Cardinality(s) \in 1..2}

Roundings   == [steps : BOOLEAN, rows : BOOLEAN]

ManyOutputs ==
    {c \in [T : {1, 2, 5, 6}, dt : {1, 2}, k : {1, 2, 3}, above : Roundings] :
        /\ c.k = 1 => c.above.steps = c.above.rows
        /\ c.above.steps => c.T % c.dt = 0            \* else it does not show
        /\ c.above.rows => c.T % (c.k * c.dt) = 0}

FastOnly    == {{"fast"}}
AllLevels   == {Warn, Severe, Fatal}
=============================================================================
