# OpenFAST in TLA+

OpenFAST simulates wind turbines by coupling modules of physics (structure,
aerodynamics, hydrodynamics, control, ...).  This directory specifies the part
of it that is *not* numerics, in four places:

* the glue code that decides which module is advanced when, when a time step is
  repeated, when a Jacobian is rebuilt, when data may be reused, and what
  survives the end of a process (`SolverStep`, `CoupledDriver`);
* the Python classes that drive the compiled libraries and decide what an error
  ends and raises (`FastLib`);
* the scripts that run the regression tests side by side in one build tree
  (`RegressionCase`);
* the package that writes and reads the input decks all of these start from
  (`Deck`).

Mistakes there do not crash; they show up as slightly wrong results, as a test
that passes on the wrong file, or as a deck that says something else than the
program that wrote it.

Paths below are relative to the repository's root; `FAST_*.f90` without a
path are in `modules/openfast-library/src`, the C++ files in
`glue-codes/openfast-cpp/src`.  (`PROJECT.json` writes `src/` before each.)

## 1. The system

| Component | State it keeps | Operations | Interacts with |
|---|---|---|---|
| Coupled solver (`FAST_Solver.f90`) | lists of modules, Jacobian, two countdowns until it is rebuilt, accelerations of tightly coupled (TC) modules | `FAST_SolverInit`, `FAST_SolverStep0`, `FAST_SolverStep` | every module through `FAST_UpdateStates`, `FAST_CalcOutput`, `FAST_SolveInput`; called by the glue code |
| Turbine glue (`FAST_Subs.f90`, `FAST_Funcs.f90`) | per module: inputs at 2 or 3 times, input times, states `STATE_CURR`, `STATE_PRED` and saved copies; `t_global` | `FAST_Prework_T`, `FAST_UpdateStates_T`, `FAST_AdvanceToNextTimeStep_T`, `FAST_Store_/Reset_SubStep_T`, checkpoints | solver below; library or Fortran driver above |
| Library (`FAST_Library.f90`) | array of turbines, **one** `n_t_global`, `n_TMax_m1`, data shared with an external flow or loads solver | `FAST_CFD_*`, `FAST_CreateCheckpoint`, `FAST_ExtInfw_Restart`, `FAST_Start`, `FAST_Update` | C++ driver, Simulink, Python |
| C++ driver (`OpenFAST.cpp`, `FAST_Prog.cpp`) | `nt_global`, `ntStart`, `firstPass_`, per turbine `inflowType` and a ring of velocities or loads; restart files | `init`, `solution0`, `prework`, `update_states_driver_time_step`, `advance_to_next_driver_time_step`, `step` | library; the CFD program that sets velocities |
| Fortran driver (`glue-codes/openfast/src/FAST_Prog.f90`) | turbines, `n_t_global`, restart step | time loop, checkpoint, restart, linearization | glue code |
| pyOpenFAST (`glue-codes/python/pyOpenFAST`) | per object: status buffer, flag that it has ended; for all classes **one** `abort_error_level`; rows of `output_values` | `fast_init`, `sim`, `deinit`, and per class `*_init`, `*_calcOutput`, `*_updateStates`, `*_end` | library and C bindings of the modules; a Python program that may hold several objects |
| C++ wrapper (`FastLibAPI.cpp`) | row counter, output arrays | `fast_init`, `fast_run`, `fast_update` | library |
| Regression scripts (`reg_tests`) | the build tree: shared turbine data, case directories, outputs | `execute*RegressionCase.py`, under `ctest` | every driver program; each other, through the tree |
| openfast_io | `fst_vt`, the dictionaries of a deck; the files of a run directory | `InputReader_OpenFAST.execute`, `InputWriter_OpenFAST.execute` | programs that edit decks; the file system |
| ModGlue (`FAST_ModGlue.f90`) | trim controller, rotations compared, operating points | `ModGlue_CalcSteady`, `ModGlue_Linearize_OP` | solver, Fortran driver |
| Mappings (`FAST_Mapping.f90`) | list of transfers between meshes, "ready" flags | `FAST_InputSolve` | solver |
| FAST.Farm (`glue-codes/fast-farm/src`) | turbines, wakes, ambient wind | parallel `FARM_UpdateStates`, `FARM_CalcOutput` | library's turbine routines |
| Controller interface (`BladedInterface.f90`) | record shared with the controller, time of its last call | call at its own interval, save, restore | ServoDyn, glue code's reset |
| Modules of physics | continuous and discrete states | `UpdateStates`, `CalcOutput` | solver |
| Registry, other Python tools | none at run time | generate types, convert files | - |

### What is hard

* **Two nested loops that steer each other.**  `FAST_SolverStep` has a
  convergence loop in a correction loop.  When the inner one fails it may
  raise the outer one's limit and force the Jacobian to be rebuilt, by setting
  a countdown that the *next* inner loop reads.  Every call in both may fail
  and return early, with some modules advanced and some not.
* **A Jacobian with two lifetimes**, one in calls, one in iterations, that
  outlives steps, repeated steps and roll-backs.
* **Repeated steps.**  A CFD driver repeats a step until it accepts it.  A
  pass without sub-steps starts again from `STATE_CURR`; one with sub-steps
  is taken back by `Reset`, which must restore all that
  `Prework` and `UpdateStates` changed.
* **Counters kept in several places**: `FAST_Prog`'s `nt`, `nt_global`,
  the library's `n_t_global` that the call for the *last* turbine moves for
  all of them, each turbine's `t_global`, and the length of its history.
* **Restart files of two kinds** (the library's checkpoints, the driver's
  records that name them), written one turbine after the other, and a process
  that may end at any point between two of them.

* **Tests that share directories.**  `ctest -j` runs scripts side by side;
  each looks whether turbine data is there and then copies or uses it.  A test
  that was timed out leaves a directory that later ones take for whole, and
  outputs and baselines that a later comparison may take for new.
* **Files found by position.**  Writer and reader of a deck agree on every line
  of 27 kinds of files without any keyword.  Decks are written over older
  ones, and a program may end while it writes.
* **Ending a library once.**  A failed call, a `with` block, the program and
  a destructor may each end an object; a check inside the end can call the end
  again; and the level at which a class gives up is shared with the others.

Nothing runs concurrently inside one process except loops of FAST.Farm.  The
full list of hazards, with the line where each one bites and the property that
covers it, is in `PROJECT.json`; those no property covers say why.

### What makes each component correct

* Solver: it ends; a step that did not converge is reported; no Jacobian
  older than the input file allows is used; each module's states are advanced
  exactly once per correction; outputs returned belong to the states returned.
* Turbine glue: a step uses states, accelerations, inputs and times of one
  trajectory only, whatever was repeated or taken back before.
* Library and driver: all clocks agree at driver steps; turbines are not
  stepped past the end of the simulation; every accepted driver step has been seen exactly once
  and in order; there is always a consistent place to restart from, and a
  restart loses at most what the interval between restart files says.
* pyOpenFAST: an error at or above the abort level raises, with the library
  ended (two methods and one class apart: see 5); the library is ended once and holds
  nothing afterwards; every output step has its row.
* Regression scripts: a test that passes has compared what its own attempt
  wrote; nothing but contested directories is found half copied; a failure is reported.
* openfast_io: what was written reads back as it was; a whole main file means
  a whole deck; what is read is of one writer; reading ends.
* Fortran driver, FAST.Farm, controller (not modelled): a checkpoint is
  complete or refused; farm and turbine times agree at exchanges; the
  controller is called once per interval.

## 2. The modules

| Module | Models | Kind |
|---|---|---|
| `SolverStep` | `FAST_SolverInit` (lists, intervals), `FAST_SolverStep`, `BuildJacobianTC`'s countdowns | state machine, one action per section of the routine |
| `MCSolverStep` | parameter sets for TLC | instance |
| `SolverStep_proofs` | theorems about `SolverStep` | proofs |
| `TurbineGlue` | one turbine between time steps, and the routines it is moved with | operators on a record |
| `Winds` | samples of wind or loads and their interpolation | operators |
| `CoupledSteps` | what a coupled simulation promises the CFD program | abstract specification |
| `CoupledDriver` | `FAST_Prog.cpp`, class `OpenFAST`, `FAST_CFD_*`, restart files; extends `TurbineGlue` | state machine, one action per library call for one turbine |
| `MCCoupledDriver` | set-ups for TLC | instance |
| `CoupledDriver_proofs` | theorems about `CoupledDriver` | proofs |
| `CoupledRefinement_proofs` | `CoupledDriver` implements `CoupledSteps` | proof |
| `PyLibraries` | status, flags and errors of all classes of pyOpenFAST; the methods of the classes for single modules | operators on a record, one action per method |
| `FastLib` | `fast.py`: initialisation, `sim`, `deinit`; extends `PyLibraries` | state machine |
| `MCFastLib` | processes, lengths and output steps for TLC | instance |
| `FastLib_proofs` | theorems about `FastLib` | proofs |
| `RegressionScripts` | every `execute*RegressionCase.py` as a sequence of instructions, exit statuses | operators |
| `RegressionCase` | scripts under `ctest`, the build tree, timeouts; extends `RegressionScripts` | state machine, one action per instruction or part of one |
| `MCRegressionCase` | scripts and pairs of them for TLC | instance |
| `RegressionCase_proofs`, `RegressionInputs_proofs` | theorems about `RegressionCase` | proofs |
| `DeckLayout` | how the lines of a file are described | operators |
| `DeckWriter`, `DeckReader` | per kind of file, the sections `FAST_writer` writes and `FAST_reader` reads | operators |
| `Deck` | programs that write, are killed, and read; extends both | state machine |
| `MCDeck` | decks and pairs of them for TLC | instance |
| `Deck_proofs`, `DeckReading_proofs` | theorems about `Deck`: its writers, its readers | proofs |

`SolverStep` is the inside of `TurbineGlue`'s `UpdateStates_T`: the first shows
that a call of `FAST_SolverStep` from given states returns a consistent
prediction or an error, the second takes it as one step and asks whether what
it is given is right.

### SolverStep

Variables carry the routine's names (`CorrIter`, `NumCorrections`, `ConvIter`,
`TotalIter`, `ConvUJac`, `NumUJac`, `ConvError`, `ErrStat`,
`UJacIterRemain`, `UJacStepsRemain`).  `n` is the argument `n_t_global`.
Three are observers of data that the code holds in arrays: `updates` counts
`FAST_UpdateStates` per module in the present correction, `fresh` is the set of
modules whose outputs were computed from their present states and inputs, and
`jac` is the age of the factored Jacobian.  `lastConv` is how the latest convergence
loop ended, which the code knows by where it is.

`pc` is a place in the routine:

    while --Predict--> opt2 --Option2--> opt1 --Option1--> calc
      calc --CalcOutputs--> check --NothingToSolve------------> post
                                  --DivergedFatal-------------> failed
                                  --DivergedRetry/DivergedWarn-> post
                                  --IterationsLeft--> rhs --FormRHS--> jacobian
      jacobian --KeepJacobian/BuildJacobianTC--> solve --SolveUpdate--> test
      test --Converged--> post,  test --ApplyUpdate--> calc
      post --PostSolve--> while --Return--> done

Every call may return any level in `CallErr`.  `Try` is `SetErrStat` with
`if (Failed()) return`: it keeps the worst level and leaves the routine from
`AbortErrLev` up.  A loop over modules that fails has done an arbitrary part of
them (`Done`): the order within a list is abstracted, so this is a superset of
what the code can do.  The caller may call again for the next step, for the
same one, or for an earlier one (`BeginStep`), as the library interface does.

Abstracted: numbers.  An update's size is a free choice of small or large.
Hence nothing here says that Newton's method converges; it says what the code
does whether it does or not.

### TurbineGlue and CoupledDriver

A turbine's state is the *trace* of the time steps that led to it: for each,
the wind it saw, the pass that asked for it, and whether all it started from
was of one trajectory (`Clean`: length of the trace, times and contents of the
earlier inputs, TC accelerations).  Inputs are known by the trace they belong
to.  A slot that is not restored, a time that is off by one, or accelerations
of an abandoned pass make a step unclean for ever after.

`CoupledDriver` composes turbines, library and driver.  Actions and code:

| Action | Code |
|---|---|
| `Solution0` | `OpenFAST::solution0` |
| `StartPass`, `EndStep`, `End` | `main` of `FAST_Prog.cpp`: the velocity of the coming pass (each sample is unique), both coupling modes |
| `Store`, `Reset`, `ResetFails` | `FAST_CFD_Store_SubStep`, `FAST_CFD_Reset_SubStep` |
| `Prework`, `UpdateStates`, `AdvanceToNextTimeStep` | the library calls of these names, with `send_data_to_openfast` before an update, and `SkipCall` past the end |
| `PassDone`, `Output`, `EndOutput` | `update_states_driver_time_step`, `advance_to_next_driver_time_step`, `step` |
| `Checkpoint`, `Record` | `FAST_CreateCheckpoint`, `writeRestartFile` |
| `Stops` | `checkError` throws and nobody catches, or the process is killed |
| `Restart` | `init` with `trueRestart` |

`Stepping` tells apart the two orders in which the code calls the library: for
all turbines one operation (no sub-steps), or for one turbine all operations
(sub-steps, classic mode).

`CoupledSteps` is what all this is for: `seen`, per turbine, grows with each
driver step by `nSubsteps` interpolated samples; nothing else happens except
going back to an earlier driver step.  The refinement maps `seen` to the winds
in the first `nt_global` entries of the trace in `STATE_CURR`, so library calls, repeated
passes, restart files and failures are all stuttering, the moment
`nt_global` grows is the driver's step, and a restart is a step back.  The
implementation may be ahead of `nt_global` inside a driver step: that is
the part a reader of the API does not see.

### PyLibraries and FastLib

One process, with at most one object per class.  `status` is the buffer that
the library writes its level to: a class attribute of
`OpenFASTInterfaceType`, except where a class has its own (`OwnStatus`);
`abort` is the shared `abort_error_level`, except where a class compares with a
level of its own (`OwnLevel`).  `ended` is the object's flag, `live` says that
the library holds data, `ends` counts the calls of its End routine, `phase` is
how far the program is in the documented order of calls, and `last` is an
observer: what the last method was told and whether it raised.

A method works on a `View` of its object and stores the result (`Store`).  The
classes differ in what `check_error` does, and the model keeps each as it is:

| Class | On a level at or above the abort level | Its end |
|---|---|---|
| `moordyn`, `inflowwind`, `aerodyn` | calls its own end, raises (`GuardedCheck`) | tests the flag, sets it, calls the library, checks |
| `hydrodyn` | compares with the `c_int` itself: any level raises a `TypeError`, nothing is ended (`HydroDynCheck`) | as above |
| `seastate`, `wavetank` | calls the library's End, not its own, raises (`DirectCheck`) | `seastate` tests its flag, then checks the last status every time; `wavetank` has no flag |
| `fast` | `deinit`, raises | once; its status is a local variable |

`sim` is modelled step by step, because a row is filled by every step of its
interval: `FAST_Start`, `FAST_Update` for each step, `fast_finish`; `sim.i` and
`sim.i_out` are the loop's variables, and `rows[r]` is the step whose outputs
row `r` holds.  Times are whole numbers of a unit, but the code divides doubles: `sim.case.above`
says of each of the quotients `t_max / dt` and `t_max / dt_out` whether it comes out above its exact value, which
`math.ceil` shows when that is a whole number (`CeilQuotient`; 630 / 0.35 is
1800.0000000000002).  No other rounding shows: a quotient that is not whole is
too far from the next whole number, and one that comes out below is rounded up to the exact one.  `output_frequency` is
`round(dt_out / dt)`, the exact ratio, as OpenFAST refuses an output step that
is not a multiple of the time step but for rounding (`FAST_Subs.f90:2154`).
`FAST_Update_pastRows` is the step that finds no row (`IndexError`).

### RegressionScripts and RegressionCase

A script is a sequence of instructions: validate, copy a shared directory
(`CopyIfAbsent` or `CopyOrMerge`), copy the case, delete old outputs, execute,
compare.  They differ in whether the baseline is copied with the case and under
which name, in how a return code becomes an exit status (eight bits are kept),
in whether a failure stops the script, and in whether old outputs are deleted.
Per test `pc` is the instruction and `phase` where it is within one; `tree` is
the build tree, each directory a plain file and a sub-directory that are
opened (`BeginPart`) and finished (`EndPart`) in two steps; `out` is the file
that is going to be compared, known by who wrote it.  A program that returns 0 has written it or not:
the scripts look at the code alone (`_runCase`), and `executeAerodynRegressionCase.py:121` knows
of a success without output.  Only the library of the Python interface hands its arrays over when it returns.
`seen` observes which directories an attempt has found torn, whether an execution was silent in this
sense, and what it has compared; `cut` which directories a timeout has left half copied.

The wave tank's test copies into `glue-codes/openfast/MHK_RM1_Floating_Tank-scaled`, the directory
of an OpenFAST case of its own (`CTestList.cmake:377`), as shared data.  `CheckDirectory` and what follows are separate steps, as nothing in the scripts locks the tree.
`TimeOut` may end a script anywhere; `Start` runs it again in what is left.

### DeckLayout, DeckWriter, DeckReader and Deck

A file is a sequence of sections, each with its number of lines as a function
of the contents (counts of rows, options that add a block); lists of output
channels go on to `END`.  `DeckWriter` and `DeckReader` say this for
each of 27 kinds of files and are written independently of each other from
the two sources; a file reads whole if what is expected is a prefix of what was written
(`Aligned`).  MoorDyn is read by its headings (`ReadsMoorDyn`).

`Deck` adds the files: which the writer writes and in what order (`WritePlan`, the steps of
`execute`, with those that raise), which the reader reads next because of what it has read
(`Nested`), how the files of blades are named and shared, what the writer drops
(`Stored`), and what is left of a file whose writer ends early.  `Cut` says what reading such
a file does: most values are missed at once and raise, lists are searched for
ever, some tables are simply shorter.  Of the lengths
at which a file may be cut, the model takes the least of those that read alike (`Least`).

`source`, `target`: which deck a program loads and which name it writes;
`pc`, `todo`: what it does next; `vt` is `fst_vt`, `wrote` what that was when
writing began; `disk` the run directory; `writer` an observer of who wrote a name last.
No two programs work on one name at the same time (`Alone`), but on two they do; the files
of structural controllers and torque tables keep the names they have in the
source, whatever the name of the deck.  The reader's operators take the place they
read from, a deck of the source (`SourceDeck`) or a name in the run directory (`Under`); what
a source deck loads as is therefore known from the constants alone (`Loaded`).

## 3. The runs

| Run | Asks | Result |
|---|---|---|
| `SolverSafety` | all safety of three consecutive calls of the routine; does the loop end, are rebuilds carried out | holds, 407,945 states |
| `CoupledSafety` | all safety of coupled simulations, regular and irregular; `CoupledSteps` implemented where the code can follow the driver; the process ends | holds, 40,823 states |
| `PyOpenFAST` | errors, ends and rows of pyOpenFAST | holds, 2,294,933 states |
| `RegressionTests` | fresh outputs, what scripts side by side find torn, failures reported, scripts end | holds, 198,551 states |
| `Deck` | decks read back, whole under a whole main file, of one writer; reading ends | holds, 27,358 states |
| `DocOneIteration`, `DocReset`, `DocOverstep`, `DocRestart`, `DocParallel`, `DocRoundTrip`, `DocOutputRows` | seven statements of the documentation, the comments and the tests | violated, see 5 |

Properties, and what each would look like if it failed:

* `CorrectionsBounded`: a step that goes on correcting itself for ever.
* `JacobianFresh`: updates computed from the Jacobian of another operating
  point, after a roll-back or a divergence.  Both countdowns, the test with
  `<=` and the retry's reset are needed for it.
* `NoSilentDivergence`, `WarnedAfterRebuilds`, `DivergenceIsReal`: a step that
  did not converge returned as if it had; a warning where a rebuild was due; a failure
  declared on a step that did converge.
* `UpdatedOnce`: a module's states advanced twice (or never) in a step, when it
  is in more than one list.  The lists depend on the coupling method,
  structural controllers and marine turbines; the code relies on tests of
  category bits to keep the loops apart.
* `OutputsMatchInputs`: outputs written for states that are not those kept.
* `RetryRebuilds`, `EveryCallReturns`: liveness of the same loops.
* `ClocksAgree`: turbines of one process at different times.
* `CleanSteps`: a repeated step that differs from the same step taken once.
* `NoOverstep`: arrays of the simulation's length overrun by a driver that goes on, repeats
  or restarts past the end.  It leaves out sub-steps that are taken back past the end
  (`TakenBackPastEnd`), where they are overrun: `NeverOverstep`, run `DocOverstep`.
* `SamplesAreHistory`: interpolation between samples of the wrong steps.
* `RestartPointExists`, `LossBounded`: no restart, or one that loses more than
  the user asked for, in the second life too.
* `Refines`, `ProcessEnds`: a turbine that has seen other winds than the driver
  gave it, a driver that never finishes.
* `ErrorsRaise`: an object that goes on after a fatal error because another
  one has changed the shared abort level, or gives up on a warning.
* `EndedOnRaise`, `EndedOnce`, `LibraryReleased`: a library that stays loaded
  after an exception, is ended twice, or is not ended because a check raised first.
  `EndedOnRaise` names the methods that do leave it loaded (`RaisesAtOnce`).
* `RowInBounds`, `RowsAreSteps`: an `IndexError` in the last interval, a row
  of the wrong step, a row never filled.  Each names the one rounding with which this
  happens (`TooFewRows`, `RowToSpare`); the first is also the finding `DocOutputRows`.
* `PassIsFresh`: a green test that compared the baseline with itself, or with
  last week's output.  It says when that does happen: after a silent execution, in the scripts that
  leave such a file in place (`Leftovers`).
* `InputsWhole`: a simulation on half a directory, other than one that two tests
  contest (`Contested`) or that a timeout has cut short (`cut`): the scripts look up, without a lock,
  what the configure step has filled, and rely on nobody writing there.
* `FailureReported`: a crash that becomes exit status 0.
* `EveryAttemptEnds`, `EveryReadEnds`: scripts that wait for each other, readers that
  look for a line that never comes.
* `RoundTrip`: one line more or less in one of the two programs, for any kind
  of file, with an older deck under the same name.
* `MainLast`, `ReadIsOneVersion`: a deck that is a mixture of two.

### Bounds

*Solver.*  `MaxCalls` is 3: the countdown of calls must pass an interval of
two time steps (2 calls) and be read in a third.  `NumCrctn` is 0 to 2,
`MaxConvIter` 0 to 3, `DT_UJac` covers 0, less than, equal to and more than
`DT` (up to 5/2 steps), so that either countdown can reach zero first.  Modules:
three sets in use, chosen so that between them each list holds a module that is
in no other and one that is in another.  `CallErr` has no error, a warning and
a fatal one; `AbortErrLev` is a warning, severe or fatal.

*Driver.*  One or two turbines (two are needed for the counter that only the
last one moves), one to three sub-steps and passes (three distinguish first, middle and last),
three or four driver steps (three samples of history and one to lose),
restart files after each or every second step, and two restarts.  A frequency
of 9 means that none are written.  Restart files are also written by drivers that go on past
`t_max` (two or five steps long, so that a driver step ends on it or across it) and
in the classic mode (`Overrun`).  `TakenBack` has drivers that repeat driver steps of two and three
sub-steps past the end, which they reach at the end of a driver step, inside one, or in the first.  `InterpOrder = 2` has three input slots, of
which linear interpolation uses the first two.

*PyOpenFAST.*  Processes hold one or two objects of the seven classes: an
object only affects another one through the two shared attributes, so that
pairs suffice.  `MaxCalls` is 5: initialise two objects, a call that fails, and two ends.
Lengths of 1, 2, 5 and 6, steps of 1 and 2, output steps of 1 to 3 steps:
lengths that are and are not multiples of either, shorter than one output step
too; both quotients rounded up or not wherever that shows (alike when both steps are the same number).  The steps inside `sim` are not counted as calls.  The proofs need none of these bounds.

*RegressionTests.*  Every script alone, run twice, so that the second attempt finds what the
first has left; five pairs that share nothing or only what is configured (`Quiet`), and six that race
(`Contesting`): two OpenFAST cases
(`_DummyTurbineData`, which the configure step does not copy), two linearised ones (`Ideal_Beam`,
`Damped_Beam`, and the merge into `5MW_Baseline`), a linearised one and HydroDyn (only the merge), two of
FAST.Farm, of the C++ driver and of the Python interface.  Of a pair each test runs once (but for the
two of AeroDyn): a second attempt finds the same directories as a second test does.  One test may be
timed out anywhere, and the other goes on in what it leaves.
Return codes are 0, 1 and -6 (an abort); code 128 is left out, as ten times 128
is 0 in eight bits and the test would pass: see 5.  `DocParallel` asks of cases of the glue code whether
they find anything torn.

*Deck.*  Fourteen decks, which between them have each of the 27 kinds of files, one for
all blades or one for each, the decks that the writer refuses, and
pairs such that the second overwrites a deck of other modules.  Two programs, one kill, at every
step of the writer.  `ROSCO` is installed and the file system ignores
case (`FoldsCase`), as otherwise those files are not read at all.

Set-ups that the passing runs leave out, and why:

* *Tightly coupled modules that repeat a sub-stepped driver step.*
  `CleanSteps` fails: `Reset` restores the modules' states but not the
  accelerations in `m_Glue%TC%StateCurr`, from which the next prediction
  starts.  It is a hazard and not a finding, as no document promises it
  and turbines coupled to an external solver stop before that
  (`DocReset`).
* *Two turbines and a process that ends while it writes restart files.*
  The turbines may be left at different steps; a restart accepts that and
  `ClocksAgree` fails.  With one turbine the runs let the process end anywhere.
* *External inflow with restarts, in the refinement*: see `DocRestart`.  All
  other properties include it; `Refines` is stated for the set-ups that `Followed` names.
* *A driver that repeats sub-stepped driver steps past `t_max`* (`TakenBackPastEnd`).  There the
  library has counted fewer steps than `Reset` takes off its counter, and turbines are
  stepped again beyond the end: `DocOverstep`.  `CoupledSafety` includes such set-ups; `NoOverstep` and
  `CleanSteps` say nothing of them, the other properties hold there too.
* *No passes (`n_iter = 0`)*.

A turbine of kind `IfW` stands for one all of whose modules
`FAST_Reset_SubStep_T` knows.

### Fairness

All specifications assume weak fairness of the program's own steps and of
nothing else.  `FAST_SolverStep` is one thread without locks or waits, and so
is a process of the driver; it goes on unless the operating system stops it.
Nobody is assumed to call the routine again, to kill the process, or to restart
it.  `ProcessEnds` needs fairness because driver steps and passes are
loops; `EveryCallReturns` because the correction loop moves its own limit.
Scripts run on processors of their own, so each of them has its own fairness; ctest is assumed
neither to start nor to time out anything.  In `Deck` only a program
that reads is fair; one that writes may stop at any step.  `FastLib` states no
liveness: its loop ends with its counter, and the program decides on everything else.

## 4. What is proved

### SolverStep

`SolverStep_proofs` proves for **all** parameter sets, modules, limits,
intervals, error levels and numbers of calls (assumption: `SolverAssumption`,
that parameters are of the types the input file gives them):

| Theorem | Property |
|---|---|
| `TypeCorrect` | `TypeOK` |
| `CorrectionLoopBounded` | `CorrectionsBounded` |
| `JacobianIsFresh` | `JacobianFresh` |
| `DivergenceNotSilent` | `NoSilentDivergence` |
| `DivergenceReal` | `DivergenceIsReal` |
| `StatesUpdatedOnce` | `UpdatedOnce` |
| `OutputsAreFresh` | `OutputsMatchInputs` |
| `WarningIsLastResort` | `WarnedAfterRebuilds` |

These are all the safety properties that `SolverSafety` checks; its two liveness properties stay with TLC.

None of these is inductive as it stands.  Each is strengthened by what holds at
the places of the routine in between:

* `RetryInv`: inside the loop, retries so far are bounded by `MaxConvUJac`, and
  the limit was raised at most once per retry.  It needs the fact that
  `MaxConvUJac` depends on `n`, which is fixed during a call.
* `IterInv`: iterations so far are at most `CorrIter` full convergence loops
  plus the present one.  The bound is a product of two variables; the lemma
  `MostGrows` isolates the arithmetic.
* `JacInv`: each countdown plus the corresponding age is at most
  the interval it was started from, at every place of a call that goes on,
  and a pending retry keeps its countdown expired until it is read.
* `OutcomeInv`: how the latest convergence loop ended explains where the
  routine is and what it will return; a retry always leaves a
  correction iteration to do.
* `WarnInv`: rebuilds have kept up with retries, except for one that the
  last retry may still be waiting for (`AwaitsRebuild`); `JacInv` says
  that this one cannot be skipped.
* `LargeInv`: if the loop goes on after the second iteration, the last
  update was large.
* `UpdateInv`, `FreshInv`: per place, which modules have been advanced and
  which have outputs that match.  They rest on lemmas about the lists
  (`ListsOfModules` and the disjointness of the two loops that update states).

Each is shown for `Init`, kept by every action (one step per action), and
carried to the property by `PTL`.

### CoupledDriver

`CoupledDriver_proofs` proves every safety property of `CoupledSafety`, and
`CoupledRefinement_proofs` the refinement, for **all** numbers of turbines, kinds of inflow, sub-steps, passes,
driver steps, intervals of restart files and processes (assumptions:
`DriverAssumption`, a set-up is of the types given; `InterpOrderAssumption`,
linear or quadratic interpolation):

| Theorem | Property | For set-ups |
|---|---|---|
| `TypeCorrect` | `TypeOK` | `Orderly` |
| `ClocksStayEqual` | `ClocksAgree` | `Orderly` |
| `NeverOversteps` | `NoOverstep` | `Together` |
| `StepsStayClean` | `CleanSteps` | `Orderly` and `Kept` |
| `SamplesStayHistory` | `SamplesAreHistory` | `Orderly` |
| `RestartPointStays` | `RestartPointExists` | `Orderly` |
| `LossStaysBounded` | `LossBounded` | `Orderly` |
| `DriverKeepsPromise` | `Refines` | `Orderly`; the mapping shows steps where `Followed` |

`Together` asks that the process does not end between the restart files of several turbines.
`Orderly` asks this and no driver step of several sub-steps that is taken back by `Reset` in a
simulation that goes past `t_max` (`~TakenBackPastEnd`).  `NeverOversteps` does without the second, because
`NoOverstep` excepts those set-ups itself; that they do overstep is `DocOverstep`.
`Kept` leaves out tightly coupled modules that repeat a sub-stepped driver step.  Without
these the properties that relate all turbines do not hold: see 3, "Set-ups that the passing
runs leave out".  Both coupling modes are included, and drivers that go on
past `t_max` with or without restart files: nothing is assumed of `t_end`
otherwise.

The invariant `IInv` says what is true at each place of the two orders in which the
library is called:

* `ClockInv`.  The library's counter is the number of steps it has been asked for
  (`Asked`: those of `nt_global` and those since, `Ahead`) as long as that is less than
  `n_TMax`.  At `n_TMax` it moves on once more, in a call that does nothing
  (`SkipCall`), so that the two agree there only between time steps (`Midway`); beyond, all
  that is known is that the counter has reached the end.  The bound `n_TMax + 1` is part
  of `CountInv`.
* `TurbineInv`.  A turbine is `Ready` for step `n` (clock, length of its trace,
  all inputs and their times belong to that trace), `Guessed` after `Prework`, or
  `Predicted` after `UpdateStates`, which may be repeated.  `Stage` says which of these
  turbine `t` is at each place of the two loops (turbines inside an operation, or
  operations inside a turbine), with those before `iTurb` one step further.  The turbine
  lemmas (`PreworkGuesses`, `UpdatePredicts`, `AdvanceReady`, `StoreStores`,
  `ResetReady`) move from one to the next.
* `StoredInv`: what Store has saved (`Stored`) is there at every place until a Reset may
  need it.  `SoundInv` carries length and cleanness of all four states, saved ones included,
  and is what is left of a turbine past the end.
* `CountInv`: `nt_global` against `nt`, exactly in the strong mode and as a bound in the
  classic one, and when `firstPass_` is the first pass.
* `FileInv`, `SyncInv`, `LossInv`: the `q`-th record is of driver step
  `q * restartFreq` and has its checkpoint; all turbines have equally many records, but for the
  ones being written; never a whole interval more than the records is done.  `DueFacts` is the
  arithmetic: the interval is tested from the start of the process, the record's
  place is counted from step 0, and they agree because every process starts at
  a multiple of the interval, which is part of `FileInv`.
  A checkpoint of a step past `n_TMax` is only known to be sound, and a record past it may
  name none.
* `HistoryInv`, `SampleInv`: in the strong mode, the ring of samples against the winds of the accepted
  steps, also in the records.

`IInv` is inductive (`InitEstablishes`; one lemma per action, gathered in `NextKeeps`).
Steps that touch neither files nor history share `ApartKeeps`.

The refinement needs to know, further, *which* winds a trace holds.  `WindInv`
adds this to `IInv`, for set-ups that are `Followed`:

* `PassInv`: in a pass, the steps of a trace beyond the first `nt_global` were taken
  under the winds of this pass (`OfThisPass`), so were the predicted states
  that an advance is going to accept (`Newest`); what an earlier pass has
  predicted is never among them, though it is still in `STATE_PRED`.
* `SavedInv`: what Reset goes back to is the accepted part of the trace (`Base`).
* `CheckpointInv`: so is, as long as its record is the last, each checkpoint
  that a restart may take; and `nt_global` counts the accepted driver steps.
* `InflowInv`: turbines that follow the driver do so after a restart too.

`NextFollows` shows that only `Output` and `Restart` change `Base`, `nt_global` or
`winds` (`Stays`); `OutputIsDriverStep` and `RestartIsGoBack` that these two are steps of
`CoupledSteps`, and every other step is a stutter (`StepMaps`).

### FastLib

`FastLib_proofs` proves all seven properties of
`PyOpenFAST`, for **all** sets of classes in a process, lengths, time steps, output steps,
abort levels and numbers of calls (assumptions: `FileLevelsAssumption`, an
input file sets one of the levels that `FAST_Input` accepts; `ProcessesAssumption`;
`OutputsAssumption`, lengths are natural, steps are positive, and the two quotients are rounded in
any way; `MaxCallsAssumption`):

| Theorem | Property |
|---|---|
| `SpecErrorsRaise` | `ErrorsRaise` |
| `SpecEndedOnRaise` | `EndedOnRaise` |
| `SpecEndedOnce` | `EndedOnce` |
| `SpecLibraryReleased` | `LibraryReleased` |
| `SpecRowInBounds` | `RowInBounds` |
| `SpecRowsAreSteps` | `RowsAreSteps` |
| `SpecTypeOK` | `TypeOK` |

The first four rest on `IInv`: an object still in use has not ended (`InUse`);
one that has ended or is done holds no data (`Empty`); the number of
ends is 1 exactly when the flag is set (`Counted`).  Without `InUse` a call on an ended object could fail, find
the flag set, and leave the library alive.  `StoreKeeps` reduces every
method to what it stores (`Sound`) and what the library reported (`Reported`);
`CheckSound` and `GuardedEndSound` show that for each kind of `check_error`.

The rows rest on `RowInv`: between steps `(i_out - 1) * k <= i - 1 < i_out * k`,
rows up to `i_out` hold multiples of `k`, and the row being filled holds the last step
unless its interval has just ended.  `NextAt` is the loop's step.  How the two numbers the
code computes separately, `ceil(T / dt) + 1` steps and `ceil(T / (k * dt)) + 1`
rows, compare is `LastRow`, from lemmas on rounding up (`CeilDivBounds`,
`CeilDivLeast`) and on remainders (`OnlyEnd`): they agree unless `T` is a whole number of output
steps and just one of the quotients came out above it (`TooFewRows`, `RowToSpare`).

### RegressionCase

`RegressionCase_proofs` and `RegressionInputs_proofs` prove all invariants of
`RegressionTests`, for **all** sets of tests, assignments of scripts to them,
return codes and numbers of attempts and timeouts (assumption: `RegressionAssumption`,
the types of these; every test runs one of `Scripts`):

| Theorem | Property | For set-ups |
|---|---|---|
| `TypeCorrect` | `TypeOK` | all |
| `FailuresReported` | `FailureReported` | `CodesReported` |
| `PassesAreFresh` | `PassIsFresh` | `OwnDirectories`, `CodesReported` |
| `InputsAreWhole` | `InputsWhole` | all |

`InputsWhole` has no hypothesis, and instead says which directories may be found torn:
those in `cut`, and those that are `Contested`, which two tests read and which either the configure step has not
copied or one of the two merges into.  The hypotheses of the others are there because the code does not keep the promise without
them, and TLC evaluates them for the set-ups it checks (`TestSuiteAssumption` in
`MCRegressionCase`):

* `OwnDirectories`: a case and its `_fastlib` twin do share one, and then
  each compares what the other wrote; and the wave tank's test copies into the directory of an
  OpenFAST case (`CTestList.cmake:377`), so that one of the two finds it there and skips its own files.
* `CodesReported`: a script reports ten times the return code of a program, of which
  eight bits are kept, so 128 becomes status 0.  The failure is lost,
  and the test passes without a comparison.

That a test has passed says nothing by itself of the order of its instructions,
so the proofs start from the scripts.  `ScriptsWellFormed` says that each of
them prepares, executes, and compares last (`Shape`), for every list of
directories and executions it is made with.  On it rest

* `TypeInv`, with what the other proofs need of `phase` and `todo`;
* `PhaseInv`: where within an instruction a test can be (a copy or a merge is
  of an instruction that looks for a directory);
* `Fresh`: a test that has executed something holds its own output in the file that
  is compared, or has failed and knows it, or was silent and holds one of its `Leftovers`
  (`OutputOK`: where nothing is left, because the outputs were deleted, there is nothing to compare);
  or, for the unsteady aerodynamics, it had only part of its inputs, which the property excepts.  A timeout
  and a new attempt start this anew in a directory that has an older output;
* `CopyInv`, of the directories that are neither contested nor cut (`Undisturbed`): one
  that nobody copies has no writers and is whole if it is there
  (`DirOK`); one that is being copied has a single writer, and what that one has
  finished is whole (`CopyOK`); what a test has looked for is still there when it
  executes, and nothing torn that it has found is of these (`SawOK`).  That two tests copy one of these
  at the same time would make it contested.

The actions of one test leave the others alone (`OthersState`, `OthersStep`, `SawOthers`), which
is where, for `PassIsFresh`, the directories of the cases being separate is used.

### Deck

`Deck_proofs` proves `MainLast`, as `DecksAreWhole`, for **all** sets of programs
and names, source decks and edits of them, numbers of kills, and pairs of programs
that write two names side by side.  It assumes `LoadedAsRead`: in what the
reader makes of a source deck every part is asked for by another one (a blade by AeroDyn, a
polar by its list of airfoils), apart from those `Elsewhere` names (below), and counts are natural.  `Loaded`
is a recursion of the reader over files, so this one fact is evaluated by TLC,
for the decks of `MCDeck` (`DecksAssumption`), and not proved.  It is what makes
the property true at all: the writer writes what the options ask for, not what
was read, and would pass over a part that nothing refers to.

The argument is in two halves:

* *The steps.*  `WritePlan` is the whole of `execute` as a sequence.  For each
  `write_*` routine a lemma says that every file it opens it closes, or it raises
  (`Plan`, `Matched`), and that it closes the file of every part it is responsible for
  (`Closes`): `ElastoDynPlan`, `AeroDynPlan`, and so on up to `ModulesPlan`.
  `WritePlanDue` adds the main file: opened and closed last.
* *The states.*  `MainLast` is not inductive: while a program writes, the deck is not
  whole.  `DeckInv` adds `TypeInv`, `Owned` (a program writes the name it owns),
  `Fresh` (one that is still loading has written nothing), and `Standing`: each
  file the deck needs is still to be closed, or whole on disk and of this program; and a main
  file of its own is on disk only when nothing but its close is left.  One lemma per action; a
  program that is killed or raises drops what it had to do,
  and `Standing` leaves `MainLast` because its main file is then not there or not whole.
  `FilesApart` keeps two programs apart that write two names; files
  that keep the name they have in the source (`KeepsName`), and wakes, controller inputs and
  ElastoDyn's blades, whose number or name is not the deck's, are outside the property (`Elsewhere`).

`DeckReading_proofs` proves `TypeOK`, as `DecksTyped`, for **all** of these too: whatever decks are
written over each other, side by side, cut short or killed, what a reader makes has one dictionary
for all blades of a kind or one for each, and every version in it is a program's or marked
`Incomplete`.  Its second hypothesis is `LoadedWritable`, again evaluated by TLC: the
blades of a loaded deck are of those two forms, the steps of its writer are on files of parts it has
(or the wake file that it may lack), and a file read to its end is not read short.  The invariant,
`ReadingInv`, has three parts beyond `DeckInv`:

* `BaseInv`: a program that has begun has its edited copy of what it loaded (`Origin`), each file
  of the run directory is a stored part of some program's dictionaries, as long or cut (`OnRecord`,
  `FileFrom`), and no two programs are busy under one name (`Apart`).  So a reader
  reads parts of decks that are as the reader makes them, of several programs perhaps.
* `Reads`: what is left to read (`todo`) and what has been read (`vt`) fit.  Every item is
  one the reader can have put there (`Items`), the files that lead to blades
  (`Roots`: ElastoDyn, AeroDyn, the main file for BeamDyn) are each to be read at most
  once, and while one is still to be read nothing of its blades has been (`Fit`).
  Without that, a second reading of AeroDyn could leave blade 1 beside one for all.
* `HasRead`: the dictionaries that decide what is read next have the fields
  that decide it, as numbers (`Typed`), since they come from files on record.

`NestedFit` shows for each of the reader's lists (`FromMain`, `EDBlades`, `ADBlades`, `BDBlades`,
`FromServoDyn`, ...) that putting it before what is left keeps this; `ReadReader` does the
reader's step, with the readings that are short, raise or hang.

It also proves the action property `ReadIsOneVersion`, as `DecksReadAsOne`.  This needs a third
hypothesis, `NoLeftovers`, again evaluated by TLC for the decks of `MCDeck`: a deck that is written
where another one was does not look for the controller's file, or for a file of BeamDyn, that only the
other one has.  Without it the property is false, since the reader takes these two
where they merely exist, and the writer removes nothing of an earlier deck.  The argument:

* `WholeInv`: while a program writes, each file under the name of its deck is still to be closed or on the disk
  as it was stored (`Pending`); once a write is whole, all of them are, until the next
  one of that name begins (`WholeDeck`).  Other programs write other names (`Apart`, `FilesApart`).
* `Presents`: so a name that was written whole shows its reader every file that a reader of that
  deck could ask for (`Sought`; `WritePlanDue` shows that the writer closes each of
  them), stored by the last writer and as long as it was to be; the two files that are looked for
  are there only if that deck has them (`WholePresents`: a file on record is of a
  program of that name, and `NoLeftovers` does the rest).
* `Genuine` and `GoodItems`: what has been read is equal to what the last writer stored, and
  what is left to read is sought by its deck, except the files that keep their names and the wake
  file.  `GenuineSays` reads off the switches, counts and names of blade files that survive `Stored` and
  `Kept`; for each list of the reader there is a lemma (`MainGood`, `EDBladesGood`, `ADBladesGood`,
  `BDBladesGood`, ...) that it stays within the deck; `ReadOn` does the step.  The names of
  blade files matter here: they are given anew on writing (`NewFiles`), and the reader decides by
  them how many it reads.

### Only model-checked

* Liveness, which is out of the prover's reach: `EveryReadEnds`,
  `EveryAttemptEnds`, `EveryCallReturns`, `RetryRebuilds`, `ProcessEnds`.
* Of `CoupledDriver` the set-ups that are not `Orderly` (`NoOverstep` apart), and `Refines` where
  not `Followed`, which says nothing there.
* Of `Deck`, `RoundTrip`: whether what one side writes is what the other
  expects is decided by selections and folds over layouts of any length,
  which is induction over data.

## 5. Where code and documentation differ

Findings, each with a run that shows it:

* `DocOneIteration`.  `solver.rst` lets the loop end on a small update; the
  code tests it only from the second iteration on, so with `MaxConvIter = 1`
  every step with a solve "diverges".
* `DocReset`.  `FAST_Reset_SubStep_T` has no case for `ExtInfw` and `ExtLd`:
  the second pass of a sub-stepped driver step ends the process for exactly the
  turbines the routine was written for.
* `DocOverstep`.  Past the end the library moves its counter once for all sub-steps
  that it skips, and `Reset` takes all of them off it; a driver step that is repeated there steps the
  turbine beyond `n_TMax`.  The comment at `FAST_Library.f90:1086` says why that must not be.
* `DocRestart`.  `trueRestart` never sets `inflowType`, so a turbine under
  external inflow does not follow the driver after a restart.
* `DocParallel`.  `regression_test.rst` runs tests in parallel; the scripts look for directories of turbine
  data and copy them without a lock.  The configure step has filled most of them before, but not
  `_DummyTurbineData`, which all OpenFAST cases read, nor what the linearised cases (`Ideal_Beam`, `Damped_Beam`), the C++
  driver's (`5MW_Baseline`) and those of the Python interface (`AOC` and others) read; and the scripts for
  linearised cases, FAST.Farm, the C++ driver and the Python interface write again the plain files of a
  directory that is there.  `InputsWhole` says that these directories, and those a timeout has left half copied, are all that is found torn.
* `DocRoundTrip`.  `write_MAP` writes one line type, however many there are.
* `DocOutputRows`.  `fast.py:260` counts the rows "the same as the total time steps": with `dt = 0.35`,
  `dt_out = 1.05`, `t_max = 630` the steps are rounded up from 1800.0000000000002 and the rows are
  not; the last step asks for `output_values[601]` of 601 rows (an `IndexError`), and the library stays loaded.

`Lossless` in `Deck` lists what else a deck loses or cannot be read with, each
excluded from `RoundTrip` by a condition of its own: channels at ElastoDyn's
nodes, tables of a polar that is not interpolated, one radius of unsteady
aerodynamics without the other, two joints for HydroDyn's outputs (written with blanks, split at commas), several
bodies with `NBodyMod = 1`, the name of MoorDyn's water kinematics (upper case).  Writing raises with ElastoDyn
blades that differ (`FAST_writer.py:620` adds a list to a string), with a polar whose missing column
is taken out by value (1247), with rods (a word formatted as a number), with currents of kind 2 (2816),
and with `Wake_Mod = 3` and unsteady aerodynamics (963).  ElastoDyn's blades are looked for from
the directory the program runs in.  Of two blades that differ only the first is kept.

Smaller ones in pyOpenFAST: `hydrodyn.py:484` compares a number with a
`c_int`, so every level raises a `TypeError` and the library is not ended;
`seastate.py:217` and `wavetanktesting.py:288` end the library without
noting it, and so end it twice.  `FastLibAPI.init` after a fatal `FAST_Sizes`
(`fast.py:156`) and `get_hub_position` (`fast.py:283`) raise and end nothing, so that turbines stay
allocated unless the program calls `deinit`; so does the `IndexError` of `sim`.  With `dt = 0.05`,
`dt_out = 0.35`, `t_max = 630` the number of rows, not of steps, is one too high, and the last row stays zero.

In openfast_io: a table of MoorDyn's non-linear stiffness is read until a line without words
(`FAST_reader.py:3658`), which the function that reads lines never returns, so a deck with such a table is never
loaded; `write_NonLinearEA` writes its rows without ends of lines.

In `reg_tests`: a case and its
`_fastlib` twin are two tests with one directory; a return code of 128 becomes
status 0; `rtestlib.py:102` uses `stat` without importing it.

Smaller ones in the glue code: `overview.rst` bounds the correction loop by
`MaxConvIter` (it is `NumCrctn`, plus retries) and puts each module in exactly one
category (several are in two lists); `solver.rst:275` has one forced rebuild of the Jacobian in a step, the
code up to three in the first one; it counts all mooring modules
as Option 1 (`MAP` and `FEAM` are Option 2); the comment "move to next step"
after a non-converged loop in `FAST_SolverStep` (the remaining corrections still
run); `cppapi/index.rst` says the strong mode makes two outer iterations (the
default is one), that a driver step is `n_substeps` time steps (the classic loop at `FAST_Prog.cpp:240` makes
one step less), and names keys `n_substeps` and `dt_fast` that
`FAST_Prog.cpp` does not read (`dt_driver` and `dt` are).

## 6. Not modelled, and the plan

Not modelled, as it is data or numerics: integration, mesh transfers, contents
of the Jacobian, linearised matrices, modules of physics, aero maps; values and formats
of numbers in decks, MoorDyn's tables of non-linear stiffness (no deck with one can be loaded: see
5), tables of output channels, files of wind, norms and
tolerances of comparisons, plots, visualisation; generated code.  Not modelled
although it has control of its own: the Fortran driver and its checkpoints,
`ModGlue_CalcSteady`, FAST.Farm, the controller interface, MPI distribution of
turbines, the C++ wrapper `FastLibAPI`, two objects of one pyOpenFAST class,
`manualRegressionTest.py`, ROSCO's `DISCON.IN`.  Hazards no property covers are in `PROJECT.json`
with a note.

What is left, in order:

1. `FortranDriver`: `FAST_Prog.f90`, `FAST_Solution_T`, checkpoints of all
   turbines in one file, restart.  Abstract specification: the simulation
   without interruptions.  Runs: two turbines, crashes while a file is written,
   a step that fails.
2. A proof of `Deck`'s `RoundTrip`, if the layouts can be stated without folds.
3. `SteadyState`: `ModGlue_CalcSteady`: rotations, comparisons with the
   previous one, forced linearization at the end.
4. `BladedCalls`: calls of the controller at its own interval, repeated steps,
   save and restore records; completes the Store/Reset hazards of `CoupledDriver`.
5. `FarmStep`: parallel turbine steps between exchanges of wakes.
6. `restartDriverInitFAST`, and BeamDyn's accelerations in `TurbineGlue`.

## 7. Running

    tlc -config SolverSafety.cfg MCSolverStep.tla
    tlc -config CoupledSafety.cfg MCCoupledDriver.tla
    tlc -config PyOpenFAST.cfg MCFastLib.tla
    tlc -config RegressionTests.cfg MCRegressionCase.tla
    tlc -config Deck.cfg MCDeck.tla
    tlapm SolverStep_proofs.tla
    tlapm CoupledDriver_proofs.tla
    tlapm CoupledRefinement_proofs.tla
    tlapm FastLib_proofs.tla
    tlapm RegressionCase_proofs.tla
    tlapm RegressionInputs_proofs.tla
    tlapm Deck_proofs.tla
    tlapm DeckReading_proofs.tla

and likewise for the other configurations (table in `PROJECT.json`).  All runs
finish within about two minutes.  Definitions such as `MayRetry_offByOne` are
deliberate mistakes, one for each property (`mutants` in `PROJECT.json`);
nothing else uses them.
