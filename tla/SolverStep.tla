----------------------------- MODULE SolverStep -----------------------------
(***************************************************************************)
(* FAST_SolverStep (FAST_Solver.f90): one call advances the coupled        *)
(* modules of a turbine from t_global to t_global_next.  An outer loop of  *)
(* correction iterations redoes the whole step from STATE_CURR; an inner   *)
(* loop of convergence iterations runs Newton's method on the tightly      *)
(* coupled (TC) and Option 1 modules, with a Jacobian that is reused until *)
(* one of two countdowns expires.  The routine is called again and again   *)
(* by the time loop, for the next step, for the same step (a driver that   *)
(* repeats it) or for an earlier one (after FAST_Reset_SubStep).           *)
(*                                                                         *)
(* Kept: every loop, counter, early return and error level.  Abstracted:   *)
(* the numbers.  The size of a Newton update is an arbitrary choice        *)
(* between "small" (< ConvTol) and "large"; a module's data is only known  *)
(* as "its outputs were computed from its present states and inputs".      *)
(* The order inside one list of modules is not kept.                       *)
(***************************************************************************)
EXTENDS Integers

CONSTANTS
    Params,     \* the sets of solver parameters an input file may give
    CallErr,    \* error levels that a call made by the routine may return
    MaxCalls    \* bound on the number of calls of the routine

\* ErrID_None .. ErrID_Fatal of NWTC_Base
ErrID   == 0..4
None    == 0
Warn    == 2
Severe  == 3
Fatal   == 4

Loose         == 1
TightFixed    == 2
TightAdaptive == 3

ModuleID == {"SrvD", "SED", "ED", "BD", "SD", "ExtPtfm", "IfW", "SeaSt", "AD",
             "ADsk", "ExtLd", "FEAM", "IceD", "IceF", "MAP", "SlD", "HD",
             "Orca", "MD", "ExtInfw"}

ParamType ==
    [mods : SUBSET ModuleID,        \* modules in use, one instance of each
     ModCoupling : {Loose, TightFixed, TightAdaptive},
     SrvDOpt1 : BOOLEAN,            \* ServoDyn has structural controllers
     MHK : BOOLEAN,                 \* marine turbine: AeroDyn has added mass
     NumCrctn : Nat, MaxConvIter : Nat,
     DT : Nat \ {0}, DT_UJac : Nat, \* in one common unit of time
     NumJ : Nat,                    \* rows of the Jacobian
     AbortErrLev : {Warn, Severe, Fatal}]

ASSUME SolverAssumption ==
    /\ Params \subseteq ParamType
    /\ CallErr \subseteq ErrID /\ None \in CallErr
    /\ MaxCalls \in Nat

-----------------------------------------------------------------------------
(* What FAST_SolverInit derives from the input file.                       *)

Huge == 2147483647

CeilDiv(a, b) == (a + b - 1) \div b

NStep_UJac(q) ==
    IF q.DT_UJac < q.DT \/ q.DT_UJac \div q.DT + 1 >= Huge
    THEN Huge ELSE CeilDiv(q.DT_UJac, q.DT)

NIter_UJac(q) ==
    IF q.DT_UJac < q.DT THEN CeilDiv(q.DT_UJac * q.MaxConvIter, q.DT) ELSE Huge

iModTC(q) ==
    IF q.ModCoupling = Loose THEN {}
    ELSE q.mods \cap {"ED", "BD", "SD", "ExtPtfm"}

iModOpt1(q) ==
    q.mods \cap
      ({"SED", "HD", "Orca", "MD"}
        \cup (IF q.SrvDOpt1 THEN {"SrvD"} ELSE {})
        \cup (IF q.MHK THEN {"AD"} ELSE {})
        \cup (IF q.ModCoupling = Loose THEN {"ED", "BD", "SD", "ExtPtfm"} ELSE {}))

iModOpt2(q) ==
    q.mods \cap
      ({"SrvD", "SED", "ED", "BD", "SD", "ExtPtfm", "IfW", "SeaSt", "ADsk",
        "ExtLd", "FEAM", "IceD", "IceF", "MAP", "SlD"}
        \cup (IF q.MHK THEN {} ELSE {"AD"}))

iModPost(q) == q.mods \cap {"SrvD", "ExtInfw"}

\* The modules combined into the Newton solve (m%Mod).
Solver(q) == iModTC(q) \cup iModOpt1(q)

\* The Category bits decide which loop updates a module's states.
UpdatedByOption2(q) == iModOpt2(q) \ iModTC(q)

UpdatedByOption1_all(q) == iModOpt1(q)

UpdatedByOption1(q) == iModOpt1(q) \ iModOpt2(q)

-----------------------------------------------------------------------------
VARIABLES
    p,               \* parameters, fixed for the simulation
    pc,              \* where the routine is
    n,               \* n_t_global of the present call
    calls,           \* calls made so far (bounded by MaxCalls)
    ErrStat, CorrIter, NumCorrections, ConvIter, TotalIter,
    ConvUJac, NumUJac,
    ConvError,       \* size of the last Newton update of this call
    UJacIterRemain, UJacStepsRemain,   \* the countdowns in Glue_TCMisc
    updates,         \* FAST_UpdateStates calls per module, this correction
    fresh,           \* modules whose outputs match their states and inputs
    jac,             \* the factored Jacobian: built yet, age in Newton
                     \* iterations and in calls since it was built
    lastConv         \* how the latest convergence loop of this call ended

counters == <<CorrIter, NumCorrections, TotalIter, ConvUJac, NumUJac>>
jacobian == <<UJacIterRemain, UJacStepsRemain, jac>>
vars == <<p, pc, n, calls, ErrStat, counters, ConvIter, ConvError, jacobian,
          updates, fresh, lastConv>>

MaxOf(a, b) == IF a >= b THEN a ELSE b

\* The test after every call.
Failed == ErrStat' >= p.AbortErrLev

MaxConvUJac == IF n = 0 THEN 3 ELSE 1

\* A call returns some error level; SetErrStat keeps the worst one and
\* "if (Failed()) return" ends the routine, else it goes on to `next`.
Try(next) == /\ \E e \in CallErr : ErrStat' = MaxOf(ErrStat, e)
             /\ pc' = IF Failed THEN "failed" ELSE next

\* A loop over the modules of S in which any call may fail: all of S is
\* done, or the part of it that came before the failure.
Done(S) == {D \in SUBSET S : ~Failed => D = S}

\* After FAST_SolverStep0.
Init ==
    /\ p \in Params
    /\ pc = "idle" /\ n = 0 /\ calls = 0
    /\ ErrStat = None
    /\ CorrIter = 0 /\ NumCorrections = p.NumCrctn
    /\ ConvIter = 0 /\ TotalIter = 0
    /\ ConvUJac = 0 /\ NumUJac = 0
    /\ ConvError = "undefined"
    /\ UJacIterRemain = 0 /\ UJacStepsRemain = 0
    /\ updates = [m \in p.mods |-> 0]
    /\ fresh = {}
    /\ jac = [built |-> FALSE, iters |-> 0, steps |-> 0]
    /\ lastConv = "none"

\* The time loop calls the routine for the first step, then for the next
\* step, for the same one again, or for one it went back to.
BeginStep ==
    /\ pc \in {"idle", "done"}
    /\ calls < MaxCalls
    /\ calls' = calls + 1
    /\ n' \in IF pc = "idle" THEN {0} ELSE 0..n + 1
    /\ UJacStepsRemain' = UJacStepsRemain - 1
    /\ jac' = [jac EXCEPT !.steps = @ + 1]
    /\ ErrStat' = None
    /\ CorrIter' = 0 /\ NumCorrections' = p.NumCrctn
    /\ TotalIter' = 0 /\ ConvUJac' = 0 /\ NumUJac' = 0
    /\ ConvIter' = 0
    /\ ConvError' = "undefined"
    /\ lastConv' = "none"
    /\ pc' = "while"
    /\ UNCHANGED <<p, UJacIterRemain, updates, fresh>>

\* Top of the correction loop: restart the TC modules from STATE_CURR and
\* predict their states.
Predict ==
    /\ pc = "while" /\ CorrIter <= NumCorrections
    /\ Try("opt2")
    /\ \E D \in Done(iModTC(p)) : fresh' = fresh \ D
    /\ updates' = [m \in p.mods |-> 0]
    /\ UNCHANGED <<p, n, calls, counters, ConvIter, ConvError, jacobian, lastConv>>

\* Option 2 modules, one after the other: solve for inputs, update states
\* unless the Newton solve does it, calculate outputs.
Option2 ==
    /\ pc = "opt2"
    /\ Try("opt1")
    /\ \E D \in Done(iModOpt2(p)) :
         /\ updates' = [m \in p.mods |->
               updates[m] + IF m \in D \cap UpdatedByOption2(p) THEN 1 ELSE 0]
         /\ fresh' = fresh \cup D
    /\ UNCHANGED <<p, n, calls, counters, ConvIter, ConvError, jacobian, lastConv>>

\* Option 1 modules: solve for inputs, update the states Option 2 has not;
\* then solve for the inputs of the TC modules.
Option1 ==
    /\ pc = "opt1"
    /\ Try("calc")
    /\ \E D \in Done(Solver(p)) :
         /\ updates' = [m \in p.mods |->
               updates[m] + IF m \in D \cap UpdatedByOption1(p) THEN 1 ELSE 0]
         /\ fresh' = fresh \ D
    /\ ConvIter' = 0
    /\ UNCHANGED <<p, n, calls, counters, ConvError, jacobian, lastConv>>

\* Top of a convergence iteration: outputs of all solver modules.
CalcOutputs ==
    /\ pc = "calc"
    /\ TotalIter' = TotalIter + 1
    /\ UJacIterRemain' = UJacIterRemain - 1
    /\ jac' = [jac EXCEPT !.iters = @ + 1]
    /\ Try("check")
    /\ \E D \in Done(Solver(p)) : fresh' = fresh \cup D
    /\ UNCHANGED <<p, n, calls, CorrIter, NumCorrections, ConvUJac, NumUJac,
                   ConvIter, ConvError, UJacStepsRemain, updates,
                   lastConv>>

\* Nothing to solve for: leave the convergence loop at once.
NothingToSolve ==
    /\ pc = "check" /\ p.NumJ = 0
    /\ pc' = "post" /\ lastConv' = "converged"
    /\ UNCHANGED <<p, n, calls, ErrStat, counters, ConvIter, ConvError, jacobian,
                   updates, fresh>>

IterationsLeft ==
    /\ pc = "check" /\ p.NumJ /= 0 /\ ConvIter < p.MaxConvIter
    /\ pc' = "rhs"
    /\ UNCHANGED <<p, n, calls, ErrStat, counters, ConvIter, ConvError, jacobian,
                   updates, fresh, lastConv>>

IterationLimit == pc = "check" /\ p.NumJ /= 0 /\ ConvIter >= p.MaxConvIter

\* No convergence: fatal when the Jacobian is not adaptive.
DivergedFatal ==
    /\ IterationLimit /\ p.ModCoupling \in {Loose, TightFixed}
    /\ ErrStat' = MaxOf(ErrStat, Fatal)
    /\ pc' = "failed" /\ lastConv' = "fatal"
    /\ UNCHANGED <<p, n, calls, counters, ConvIter, ConvError, jacobian, updates,
                   fresh>>

MayRetry_offByOne == ConvUJac <= MaxConvUJac

MayRetry == ConvUJac < MaxConvUJac

RetryCorrections_fixed == NumCorrections

RetryCorrections ==
    IF CorrIter = NumCorrections THEN NumCorrections + 1 ELSE NumCorrections

\* Mutant: the retry takes the corrections from the start, and the counter of
\* retries with them.
DivergedRetry_uncounted ==
    /\ IterationLimit /\ p.ModCoupling = TightAdaptive
    /\ MayRetry
    /\ UJacIterRemain' = 0
    /\ CorrIter' = 0 /\ NumCorrections' = p.NumCrctn
    /\ TotalIter' = 0 /\ ConvUJac' = 0 /\ NumUJac' = 0
    /\ pc' = "while" /\ lastConv' = "retry"
    /\ UNCHANGED <<p, n, calls, ErrStat, ConvIter, ConvError, UJacStepsRemain, jac,
                   updates, fresh>>

\* No convergence: have the Jacobian rebuilt and, if this was the last
\* correction iteration, allow one more.
DivergedRetry ==
    /\ IterationLimit /\ p.ModCoupling = TightAdaptive
    /\ MayRetry
    /\ UJacIterRemain' = 0
    /\ NumCorrections' = RetryCorrections
    /\ ConvUJac' = ConvUJac + 1
    /\ pc' = "post" /\ lastConv' = "retry"
    /\ UNCHANGED <<p, n, calls, ErrStat, CorrIter, TotalIter, NumUJac, ConvIter,
                   ConvError, UJacStepsRemain, jac, updates, fresh>>

\* No convergence, and the Jacobian has been rebuilt as often as allowed.
DivergedWarn ==
    /\ IterationLimit /\ p.ModCoupling = TightAdaptive
    /\ ~MayRetry
    /\ ErrStat' = MaxOf(ErrStat, Warn)
    /\ pc' = "post" /\ lastConv' = "warned"
    /\ UNCHANGED <<p, n, calls, counters, ConvIter, ConvError, jacobian, updates,
                   fresh>>

\* Right-hand side; then the Jacobian, if one of the countdowns is over.
\* BuildJacobianTC restarts the countdowns before anything in it can fail.
FormRHS ==
    /\ pc = "rhs"
    /\ Try("jacobian")
    /\ UNCHANGED <<p, n, calls, counters, ConvIter, ConvError, jacobian, updates,
                   fresh, lastConv>>

JacobianDue_strict == UJacIterRemain < 0 \/ UJacStepsRemain < 0

JacobianDue_stepsOnly == UJacStepsRemain <= 0

JacobianDue == UJacIterRemain <= 0 \/ UJacStepsRemain <= 0

KeepJacobian ==
    /\ pc = "jacobian" /\ ~JacobianDue
    /\ pc' = "solve"
    /\ UNCHANGED <<p, n, calls, ErrStat, counters, ConvIter, ConvError, jacobian,
                   updates, fresh, lastConv>>

BuildJacobianTC ==
    /\ pc = "jacobian" /\ JacobianDue
    /\ NumUJac' = NumUJac + 1
    /\ UJacIterRemain' = NIter_UJac(p)
    /\ UJacStepsRemain' = NStep_UJac(p)
    /\ Try("solve")
    /\ jac' = IF Failed THEN jac ELSE [built |-> TRUE, iters |-> 0, steps |-> 0]
    /\ UNCHANGED <<p, n, calls, CorrIter, NumCorrections, TotalIter, ConvUJac,
                   ConvIter, ConvError, updates, fresh, lastConv>>

\* Linear solve with the factored Jacobian: any size of update can result.
SolveUpdate ==
    /\ pc = "solve"
    /\ Try("test")
    /\ IF Failed THEN UNCHANGED ConvError ELSE ConvError' \in {"small", "large"}
    /\ UNCHANGED <<p, n, calls, counters, ConvIter, jacobian, updates, fresh, lastConv>>

UpdateAccepted_late == ConvIter > 1 /\ ConvError = "small"

\* At least one update is applied before one is found small enough.
UpdateAccepted == ConvIter > 0 /\ ConvError = "small"

Converged ==
    /\ pc = "test" /\ UpdateAccepted
    /\ pc' = "post" /\ lastConv' = "converged"
    /\ UNCHANGED <<p, n, calls, ErrStat, counters, ConvIter, ConvError, jacobian,
                   updates, fresh>>

ApplyUpdate_staleOutputs ==
    /\ pc = "test" /\ ~UpdateAccepted
    /\ Try("check")
    /\ \E D \in Done(Solver(p)) : fresh' = fresh \ D
    /\ ConvIter' = ConvIter + 1
    /\ UNCHANGED <<p, n, calls, counters, ConvError, jacobian, updates,
                   lastConv>>

\* Apply the update to the states and inputs of the solver modules.
ApplyUpdate ==
    /\ pc = "test" /\ ~UpdateAccepted
    /\ Try("calc")
    /\ \E D \in Done(Solver(p)) : fresh' = fresh \ D
    /\ ConvIter' = ConvIter + 1
    /\ UNCHANGED <<p, n, calls, counters, ConvError, jacobian, updates,
                   lastConv>>

\* End of a correction iteration: the input solves left for last.
PostSolve ==
    /\ pc = "post"
    /\ CorrIter' = CorrIter + 1
    /\ Try("while")
    /\ \E D \in Done(iModPost(p)) : fresh' = fresh \ D
    /\ UNCHANGED <<p, n, calls, NumCorrections, TotalIter, ConvUJac, NumUJac,
                   ConvIter, ConvError, jacobian, updates, lastConv>>

\* The loop is over: set the solver's output channels and return.
Return ==
    /\ pc = "while" /\ CorrIter > NumCorrections
    /\ pc' = "done"
    /\ UNCHANGED <<p, n, calls, ErrStat, counters, ConvIter, ConvError, jacobian,
                   updates, fresh, lastConv>>

\* The routine's own steps: everything but the caller's next call.
Routine ==
    \/ Predict \/ Option2 \/ Option1
    \/ CalcOutputs \/ NothingToSolve \/ IterationsLeft
    \/ DivergedFatal \/ DivergedRetry \/ DivergedWarn
    \/ FormRHS \/ KeepJacobian \/ BuildJacobianTC
    \/ SolveUpdate \/ Converged \/ ApplyUpdate
    \/ PostSolve \/ Return

\* A failed call ends the simulation, and so does the caller.
Over == /\ \/ pc = "failed"
           \/ pc = "done" /\ calls = MaxCalls
        /\ UNCHANGED vars

Next == BeginStep \/ Routine \/ Over

\* The routine runs on one thread that nothing blocks: it takes its next
\* step.  Nothing obliges the caller to call again.
Spec == Init /\ [][Next]_vars /\ WF_vars(Routine)

-----------------------------------------------------------------------------
(* Properties.                                                             *)

\* Type invariant: the counters of FAST_SolverStep and the two countdowns
\* are integers of the expected sign, sets hold modules in use.
TypeOK ==
    /\ p \in Params
    /\ pc \in {"idle", "while", "opt2", "opt1", "calc", "check", "rhs",
               "jacobian", "solve", "test", "post", "done", "failed"}
    /\ n \in Nat /\ calls \in 0..MaxCalls
    /\ ErrStat \in ErrID
    /\ CorrIter \in Nat /\ NumCorrections \in Nat
    /\ ConvIter \in Nat /\ TotalIter \in Nat
    /\ ConvUJac \in 0..3 /\ NumUJac \in Nat
    /\ ConvError \in {"undefined", "small", "large"}
    /\ UJacIterRemain \in Int /\ UJacStepsRemain \in Int
    /\ updates \in [p.mods -> Nat]
    /\ fresh \subseteq p.mods
    /\ jac \in [built : BOOLEAN, iters : Nat, steps : Nat]
    /\ lastConv \in {"none", "converged", "retry", "warned", "fatal"}

\* Retries extend the correction loop by a bounded amount, although the loop
\* moves its own limit: at most MaxConvUJac extra correction iterations, and
\* at most MaxConvIter + 1 convergence iterations in each.
CorrectionsBounded ==
    /\ NumCorrections <= p.NumCrctn + MaxConvUJac
    /\ CorrIter <= NumCorrections + 1
    /\ TotalIter <= (CorrIter + 1) * (p.MaxConvIter + 1)

\* No Newton update is computed with a Jacobian older than the input file
\* allows, in steps or in iterations, nor, after a correction that did not
\* converge, with the one that failed: across calls, repeats and roll-backs.
JacobianFresh ==
    pc = "solve" =>
        /\ jac.built
        /\ jac.iters = 0 \/ (jac.iters < NIter_UJac(p) /\ jac.steps < NStep_UJac(p))
        /\ lastConv = "retry" /\ ConvIter = 0 => jac.iters = 0

\* Divergence is never silent.  A normal return means that the last Newton
\* update was small, or that the warning was issued, which only the
\* adaptive method may do, and never right after a rebuild was requested.
NoSilentDivergence ==
    pc = "done" /\ p.NumJ /= 0 =>
        \/ lastConv = "converged" /\ ConvError = "small"
        \/ lastConv = "warned" /\ ErrStat >= Warn /\ p.ModCoupling = TightAdaptive

\* The warning is a last resort: each of the retries that precede it has
\* rebuilt the Jacobian.
WarnedAfterRebuilds ==
    lastConv = "warned" /\ p.MaxConvIter > 0 => NumUJac >= MaxConvUJac

\* In one correction iteration the states of a module that the Newton solve
\* does not own are advanced exactly once, whatever lists it is in, and the
\* states of a module it owns are not advanced by the module itself.
UpdatedOnce ==
    pc = "calc" => \A m \in iModOpt2(p) \cup Solver(p) :
                       updates[m] = IF m \in iModTC(p) THEN 0 ELSE 1

\* On a normal return the outputs of every solved module were computed from
\* the very states and inputs that the caller is about to commit (ServoDyn's
\* inputs are solved for last and used in the next step).
OutputsMatchInputs ==
    pc = "done" => (iModOpt2(p) \cup Solver(p)) \ iModPost(p) \subseteq fresh

\* A convergence failure is only declared when the last update was not
\* small, provided the input file allows a second iteration.
DivergenceIsReal ==
    p.MaxConvIter >= 2 =>
        ((pc = "post" /\ lastConv \in {"retry", "warned"}) \/ lastConv = "fatal"
            => ConvError = "large")

\* Every call returns, normally or with an abort-level error.
EveryCallReturns == (pc = "while") ~> (pc \in {"done", "failed"})

\* A rebuild that was requested after a divergence takes place.
RetryRebuilds ==
    (pc = "post" /\ lastConv = "retry" /\ p.MaxConvIter > 0) ~>
        ((pc = "solve" /\ jac.iters = 0) \/ pc = "failed")

(* What the documentation says and the code does not do.                   *)

\* solver.rst: the convergence loop exits on an update below ConvTol, so that
\* no failure is declared on one.
SmallUpdateConverges ==
    (pc = "post" /\ lastConv \in {"retry", "warned"}) \/ lastConv = "fatal"
        => ConvError /= "small"

=============================================================================
