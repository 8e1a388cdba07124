-------------------------- MODULE MCCoupledDriver --------------------------
(* Set-ups for TLC: one and two turbines of every kind, one to three sub-   *)
(* steps and passes, four driver steps with restart files after one or two. *)
EXTENDS CoupledDriver

Kinds(k, which) == [1..k -> which]

Setups(kinds, tights, strongs, subs, iters, end, max, freqs, crashes) ==
    [kind : kinds, tight : tights, strong : strongs, nSubsteps : subs,
     nIter : iters, nt_end : {end}, n_TMax : {max}, restartFreq : freqs,
     crash : crashes]

AllKinds == {"ExtInfw", "ExtLd", "IfW"}

\* What FAST_Reset_SubStep_T can do: the repeats that do not need it, and
\* those of turbines with their own wind and loosely coupled modules.
Undisturbed ==
    Setups(Kinds(2, AllKinds), BOOLEAN, {TRUE}, {1}, {1, 3}, 3, 3, {2}, {"none"}) \cup
    Setups(Kinds(2, AllKinds), BOOLEAN, {TRUE}, {2, 3}, {1}, 3, 9, {2}, {"none"}) \cup
    Setups(Kinds(2, {"IfW"}), {FALSE}, {TRUE}, {2, 3}, {2, 3}, 3, 9, {2}, {"none"})

\* Turbines that follow the driver after a restart too; with two of them the
\* process does not end while it writes restart files.
Restarted ==
    Setups(Kinds(2, {"ExtLd", "IfW"}), {TRUE}, {TRUE}, {1}, {2}, 4, 4, {1, 2}, {"between"}) \cup
    Setups(Kinds(2, {"ExtLd", "IfW"}), {TRUE}, {TRUE}, {2}, {1}, 4, 8, {1, 2}, {"between"}) \cup
    Setups(Kinds(1, {"ExtLd"}), {TRUE}, {TRUE}, {1}, {2}, 4, 4, {1, 2}, {"any"}) \cup
    Setups(Kinds(1, {"ExtLd"}), {TRUE}, {TRUE}, {2}, {1}, 4, 8, {1, 2}, {"any"}) \cup
    Setups(Kinds(1, {"IfW"}), {FALSE}, {TRUE}, {2}, {2}, 4, 8, {1, 2}, {"any"})

\* The inflow of a turbine that is not set up again, repeats that fail, a
\* driver that goes on after the end of the simulation, the classic mode.
Irregular ==
    Setups(Kinds(2, {"ExtInfw"}), {TRUE}, {TRUE}, {2}, {1}, 3, 6, {1}, {"between"}) \cup
    Setups(Kinds(2, {"ExtInfw", "IfW"}), {FALSE}, {TRUE}, {2}, {2}, 3, 6, {1}, {"between"}) \cup
    Setups(Kinds(2, AllKinds), {FALSE}, {TRUE}, {1}, {1, 2}, 4, 2, {9}, {"none"}) \cup
    Setups(Kinds(2, AllKinds), {FALSE}, {TRUE}, {2}, {1}, 3, 3, {9}, {"none"}) \cup
    Setups(Kinds(2, AllKinds), {TRUE}, {FALSE}, {1, 3}, {1}, 3, 9, {9}, {"none"})

\* Restart files of a driver that goes on past the end, and of the classic mode.
Overrun ==
    Setups(Kinds(2, {"ExtLd", "IfW"}), {TRUE}, {TRUE}, {1}, {2}, 4, 2, {1, 2}, {"between"}) \cup
    Setups(Kinds(2, {"ExtLd", "IfW"}), {TRUE}, {TRUE}, {2}, {1}, 4, 5, {1, 2}, {"between"}) \cup
    Setups(Kinds(2, {"ExtLd"}), {TRUE}, {FALSE}, {2, 3}, {1, 2}, 4, 5, {1, 2}, {"between"}) \cup
    Setups(Kinds(1, {"IfW"}), {FALSE}, {FALSE}, {3}, {1}, 4, 9, {1, 2}, {"any"})

\* Sub-steps past the end that are taken back: the driver steps end on it, across
\* it by one or two sub-steps, or begin after it.
TakenBack ==
    Setups(Kinds(2, {"IfW"}), {FALSE}, {TRUE}, {2}, {2, 3}, 4, 4, {1, 9}, {"between"}) \cup
    Setups(Kinds(1, {"IfW"}), BOOLEAN, {TRUE}, {2, 3}, {2}, 3, 5, {1, 2}, {"any"}) \cup
    Setups(Kinds(1, {"IfW"}), {FALSE}, {TRUE}, {3}, {2}, 3, 1, {1}, {"none"})

Regular == Undisturbed \cup Restarted
All == Regular \cup Irregular \cup Overrun \cup TakenBack

\* The set-ups of the documentation's statements.
Repeating  == Setups(Kinds(1, {"ExtInfw"}), {FALSE}, {TRUE}, {2}, {2}, 2, 4, {9}, {"none"})
Restarting == Setups(Kinds(1, {"ExtInfw"}), {FALSE}, {TRUE}, {1}, {1}, 3, 3, {1}, {"between"})
PastEnd    == Setups(Kinds(1, {"IfW"}), {FALSE}, {TRUE}, {2}, {2}, 3, 4, {9}, {"none"})
=============================================================================
