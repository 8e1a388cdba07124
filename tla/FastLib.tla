------------------------------ MODULE FastLib ------------------------------
(* FastLibAPI (fast.py): a whole OpenFAST simulation driven from Python,    *)
(* next to the objects of PyLibraries. sim calls FAST_Update once per time  *)
(* step and passes the row of output_values it is to fill; the row advances *)
(* when the step is an output step. FAST_Sizes stores the abort level of    *)
(* the input file in the attribute all classes share. The Fortran side      *)
(* (FAST_Library.f90) may report any level at every call.                   *)
EXTENDS PyLibraries, Sequences

\* A length, a time step, an output step of k time steps, and whether the
\* quotients T / dt and T / (k * dt) come out above their exact values.
ASSUME OutputsAssumption ==
    Outputs \subseteq [T : Nat, dt : Nat \ {0}, k : Nat \ {0},
                      above : [steps : BOOLEAN, rows : BOOLEAN]]

ASSUME MaxCallsAssumption == MaxCalls \in Nat

CeilDiv(a, b) == (a + b - 1) \div b

\* math.ceil of a quotient of doubles: one more than that of the exact quotient
\* when this is a whole number and the rounded one lies above it, as in
\* 630 / 0.35 = 1800.0000000000002. Any other rounding does not show.
CeilQuotient(a, b, above) ==
    CeilDiv(a, b) + IF above /\ a > 0 /\ a % b = 0 THEN 1 ELSE 0

\* Mutant: no row for the initial outputs.
total_output_steps_noStart(c) == CeilQuotient(c.T, c.k * c.dt, c.above.rows)

total_time_steps(c)   == CeilQuotient(c.T, c.dt, c.above.steps) + 1
total_output_steps(c) == CeilQuotient(c.T, c.k * c.dt, c.above.rows) + 1

\* round(dt_out / dt) is k: OpenFAST accepts an output step only when it is a
\* multiple of the time step but for rounding (FAST_Subs.f90:2154).
output_frequency(c)   == c.k

Unset == -1

----------------------------------------------------------------------------
\* Store of a method of FastLibAPI: its status is a local variable.
StoreFast(to, method, lev, v) ==
    Store("fast", to, method, lev, [v EXCEPT !.status = status[Class]])

fatal_error(lev, level) == lev >= level

fast_deinit(v) ==
    IF v.ended THEN v ELSE LibEnd([v EXCEPT !.ended = TRUE], None)

\* FAST_AllocateTurbines fails: nothing to end.
AllocateFails ==
    /\ Calls("fast", {"new"})
    /\ StoreFast("new", "init", Fatal, Raise(View("fast")))
    /\ UNCHANGED <<abort, sim>>

\* Mutant: the attribute is passed but not filled.
fast_init_cleared ==
    /\ Calls("fast", {"new"})
    /\ abort' = None
    /\ \E lev \in Levels : StoreFast("ready", "init", lev, [View("fast") EXCEPT !.live = TRUE])
    /\ \E c \in Outputs : sim' = [sim EXCEPT !.case = c, !.rows = <<Unset>>]

\* FAST_Sizes; the turbines stay allocated when it fails.
fast_init ==
    /\ Calls("fast", {"new"})
    /\ \E lev \in Levels, level \in FileLevels, c \in Outputs :
          LET v == [View("fast") EXCEPT !.live = TRUE] IN
          /\ abort' = level
          /\ StoreFast("ready", "init", lev, IF fatal_error(lev, level) THEN Raise(v) ELSE v)
          /\ sim' = IF fatal_error(lev, level) THEN sim
                    ELSE [case |-> c, i |-> 0, i_out |-> 0,
                          rows |-> [r \in 1..total_output_steps(c) |-> Unset]]

\* One call of the library from sim: a fatal status ends it and raises.
Step(lev, to) ==
    LET v == View("fast") IN
    StoreFast(to, "call", lev, IF fatal_error(lev, abort) THEN Raise(fast_deinit(v)) ELSE v)

\* FAST_Start fills the first row.
FAST_Start ==
    /\ Calls("fast", Ready)
    /\ \E lev \in Levels : Step(lev, "sim")
    /\ sim' = [sim EXCEPT !.i = 1, !.rows[1] = 0, !.i_out = 1]
    /\ UNCHANGED abort

\* Mutant: the row advances one step early.
FAST_Update_early ==
    /\ phase["fast"] = "sim" /\ sim.i < total_time_steps(sim.case)
    /\ sim.i_out < Len(sim.rows)
    /\ \E lev \in Levels, end_early \in BOOLEAN :
          Step(lev, IF end_early THEN "over" ELSE "sim")
    /\ sim' = [sim EXCEPT
                 !.i = @ + 1,
                 !.rows[sim.i_out + 1] = sim.i,
                 !.i_out = IF (sim.i + 1) % output_frequency(sim.case) = 0 THEN @ + 1 ELSE @]
    /\ UNCHANGED <<abort, calls>>

\* The loop: the step fills the row i_out, counted from 0, also when it fails.
FAST_Update ==
    /\ phase["fast"] = "sim" /\ sim.i < total_time_steps(sim.case)
    /\ sim.i_out < Len(sim.rows)
    /\ \E lev \in Levels, end_early \in BOOLEAN :
          Step(lev, IF end_early THEN "over" ELSE "sim")
    /\ sim' = [sim EXCEPT
                 !.i = @ + 1,
                 !.rows[sim.i_out + 1] = sim.i,
                 !.i_out = IF sim.i % output_frequency(sim.case) = 0 THEN @ + 1 ELSE @]
    /\ UNCHANGED <<abort, calls>>

\* The loop goes on past the last row: output_values[i_out] raises an IndexError
\* before the library is called, and sim ends nothing.
FAST_Update_pastRows ==
    /\ phase["fast"] = "sim" /\ sim.i < total_time_steps(sim.case)
    /\ sim.i_out >= Len(sim.rows)
    /\ StoreFast("raised", "index", None, Raise(View("fast")))
    /\ UNCHANGED <<abort, sim, calls>>

\* run: deinit follows the last step.
fast_finish ==
    /\ \/ phase["fast"] = "over"
       \/ phase["fast"] = "sim" /\ sim.i = total_time_steps(sim.case)
    /\ StoreFast("done", "end", None, fast_deinit(View("fast")))
    /\ UNCHANGED <<abort, sim, calls>>

\* The program ends the object, again or after an exception; not the one
\* whose turbines were never allocated.
deinit ==
    /\ Calls("fast", {"raised", "done"}) /\ (live["fast"] \/ ended["fast"])
    /\ StoreFast("done", "end", None, fast_deinit(View("fast")))
    /\ UNCHANGED <<abort, sim>>

\* FAST_HubPosition: reads; a fatal status raises and ends nothing.
get_hub_position ==
    /\ Calls("fast", Ready)
    /\ \E lev \in {None, Fatal} :
          StoreFast("ready", "hub", lev,
                    IF fatal_error(lev, abort) THEN Raise(View("fast")) ELSE View("fast"))
    /\ UNCHANGED <<abort, sim>>

Fast ==
    \/ AllocateFails \/ fast_init \/ FAST_Start \/ FAST_Update \/ FAST_Update_pastRows
    \/ fast_finish \/ deinit \/ get_hub_position

Next == Fast \/ Modules

Spec == Init /\ [][Next]_vars

----------------------------------------------------------------------------
(* Properties                                                               *)

\* Every variable has its type; the row to be filled is a row of the array or
\* the one after the last.
TypeOK ==
    /\ objs \subseteq Kinds
    /\ status \in [Kinds \cup {Class} -> Levels]
    /\ abort \in FileLevels \cup {Fatal}
    /\ ended \in [Kinds -> BOOLEAN]
    /\ live \in [Kinds -> BOOLEAN]
    /\ ends \in [Kinds -> Nat]
    /\ phase \in [Kinds -> Phases]
    /\ sim.i_out \in 0..Len(sim.rows)
    /\ calls \in 0..MaxCalls

FromLibrary == last.method \in {"call", "init", "hub"}

\* A method raises when the library reports a level at or above the abort
\* level of its class, whatever level an input file has put into the shared
\* attribute, and a fatal error always raises; a lower level stops the program
\* nowhere but in HydroDyn, whose comparison fails (hydrodyn.py:484).
ErrorsRaise ==
    FromLibrary =>
       /\ last.level = Fatal => last.raised
       /\ last.level >= Level(last.obj) => last.raised
       /\ last.raised /\ last.obj # "hydrodyn" => last.level >= Level(last.obj)

\* The methods that raise and leave the library as it is: FastLibAPI.init after
\* FAST_Sizes (fast.py:156) and get_hub_position (fast.py:283).
RaisesAtOnce == {<<"fast", "init">>, <<"fast", "hub">>}

\* When the library reports a fatal error the method has ended the library
\* before it raises, in every class but HydroDyn (hydrodyn.py:484), and in every
\* method of the others but the two of FastLibAPI that raise at once.
EndedOnRaise ==
    /\ FromLibrary /\ last.raised /\ last.obj # "hydrodyn"
    /\ <<last.obj, last.method>> \notin RaisesAtOnce
    => ~live[last.obj]

\* The classes that test their flag end the library once, however often the
\* program ends the object, and whether or not a failed call ended it before.
EndedOnce ==
    \A o \in Flagged : ends[o] <= 1

\* An object the program has ended leaves no data in the library, on every
\* path: after an error, a refused argument, an end that failed itself.
LibraryReleased == \A o \in objs : phase[o] = "done" => ~live[o]

\* The length is a whole number of output steps, and only one of the counts of
\* steps and rows was rounded up from a quotient above it: the loop has one step
\* more than the rows hold, or the rows one more than the loop fills.
WholeRows(c) == c.T > 0 /\ c.T % (c.k * c.dt) = 0

TooFewRows(c) == WholeRows(c) /\ c.above.steps /\ ~c.above.rows
RowToSpare(c) == WholeRows(c) /\ c.above.rows /\ ~c.above.steps

StepToCome == phase["fast"] = "sim" /\ sim.i < total_time_steps(sim.case)

\* Whatever the quotients are rounded to, sim passes a row past the end of
\* output_values in no other case than TooFewRows.
RowInBounds == StepToCome /\ ~TooFewRows(sim.case) => sim.i_out < Len(sim.rows)

\* What the comment at fast.py:260 promises of all cases: the rows, counted the
\* way the time steps are, suffice for them.
RowsSuffice == StepToCome => sim.i_out < Len(sim.rows)

\* Row r holds the outputs of time step r * dt_out / dt, though every step of
\* the interval before it was written there too; after the last step all rows
\* are filled and the last one holds that step, but for the case RowToSpare.
RowsAreSteps ==
    /\ \A r \in 1..Len(sim.rows) :
          r <= sim.i_out => sim.rows[r] = (r - 1) * output_frequency(sim.case)
    /\ sim.rows # <<>> /\ sim.i = total_time_steps(sim.case) /\ ~RowToSpare(sim.case)
       => /\ \A r \in 1..Len(sim.rows) : sim.rows[r] # Unset
          /\ sim.rows[Len(sim.rows)] = sim.i - 1
=============================================================================
