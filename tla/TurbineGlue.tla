---------------------------- MODULE TurbineGlue ----------------------------
(***************************************************************************)
(* What the glue code (FAST_Subs.f90, FAST_Funcs.f90) keeps of one turbine *)
(* between time steps, and the routines a driver moves it with: Prework,   *)
(* UpdateStates, AdvanceToNextTimeStep, and Store/Reset for sub-stepping.  *)
(*                                                                         *)
(* Numbers are abstracted to their provenance.  A state is the trace of    *)
(* the steps that led to it; an input is known by the state it belongs to; *)
(* a time is a number of steps.  A step is clean when everything it starts *)
(* from belongs to one trajectory: states, accelerations of the tightly    *)
(* coupled modules, earlier inputs and their times.                        *)
(***************************************************************************)
EXTENDS Integers, Sequences

CONSTANT InterpOrder        \* 1 (linear) or 2 (quadratic)

ASSUME InterpOrderAssumption == InterpOrder \in {1, 2}

\* STATE_CURR .. STATE_SAVED_PRED
StateIndex == {"CURR", "PRED", "SAVED_CURR", "SAVED_PRED"}

\* Input(1:InterpOrder+1), and the saved ones at the negative indices.
Slots == 1..InterpOrder + 1

\* The first k steps of a trace; the run starts with equal inputs.
Past(h, k) == SubSeq(h, 1, IF k < 0 THEN 0 ELSE k)

FinalInput(h) == [of |-> h, final |-> TRUE]
Guess(h)      == [of |-> h, final |-> FALSE]

\* FAST_Solution0_T and FAST_InitIOarrays_SubStep_T.
Solution0_T ==
    [t_global   |-> 0,
     Input      |-> [j \in Slots \cup {-k : k \in Slots} |-> FinalInput(<<>>)],
     InputTimes |-> [j \in Slots |-> 1 - j],
     State      |-> [i \in StateIndex |-> <<>>],
     StateCurr  |-> <<>>,        \* accelerations of the TC solver at t_global
     StatePred  |-> <<>>]

\* FAST_ExtrapInterp for every module: extrapolate to t_global_next, move
\* the earlier inputs and their times one place up.
Prework_T(T, n) ==
    [T EXCEPT
       !.Input = [j \in DOMAIN @ |-> IF j = 1 THEN Guess(T.State["CURR"])
                                     ELSE IF j > 1 THEN @[j - 1] ELSE @[j]],
       !.InputTimes = [j \in Slots |-> IF j = 1 THEN n + 1 ELSE @[j - 1]]]

\* All that a step from t_global = n uses belongs to the trajectory of
\* STATE_CURR.
Clean(T, n, tight) ==
    LET h == T.State["CURR"] IN
    /\ Len(h) = n
    /\ \A j \in Slots : T.InputTimes[j] = n + 2 - j
    /\ \A j \in Slots \ {1} : T.Input[j] = FinalInput(Past(h, n + 2 - j))
    /\ tight => T.StateCurr = h

\* FAST_SolverStep: from STATE_CURR to STATE_PRED, with the external wind or
\* loads `vel`; also corrects the input at t_global_next.  `run` names the
\* pass of the driver that asks for the step.
UpdateStates_T(T, n, tight, vel, run) ==
    LET h == Append(T.State["CURR"],
                    [vel |-> vel, run |-> run, clean |-> Clean(T, n, tight)])
    IN [T EXCEPT !.State["PRED"] = h,
                 !.Input[1] = FinalInput(h),
                 !.StatePred = IF tight THEN h ELSE @]

AdvanceToNextTimeStep_T(T, n) ==
    [T EXCEPT !.StateCurr = T.StatePred,
              !.State["CURR"] = T.State["PRED"],
              !.t_global = n + 1]

Store_SubStep_T(T) ==
    [T EXCEPT !.Input = [j \in DOMAIN @ |-> IF j < 0 THEN @[-j] ELSE @[j]],
              !.State = [@ EXCEPT !["SAVED_CURR"] = T.State["CURR"],
                                  !["SAVED_PRED"] = T.State["PRED"]]]

Reset_SubStep_T_oneSlot(T, n) ==
    [T EXCEPT !.t_global = n,
              !.Input[1] = T.Input[-1],
              !.State = [@ EXCEPT !["CURR"] = T.State["SAVED_CURR"],
                                  !["PRED"] = T.State["SAVED_PRED"]],
              !.InputTimes = [j \in Slots |-> n + 1 - j]]

\* Back to the stored step.  The TC solver's own states are not stored.
Reset_SubStep_T(T, n) ==
    [T EXCEPT !.t_global = n,
              !.Input = [j \in DOMAIN @ |-> IF j > 0 THEN @[-j] ELSE @[j]],
              !.State = [@ EXCEPT !["CURR"] = T.State["SAVED_CURR"],
                                  !["PRED"] = T.State["SAVED_PRED"]],
              !.InputTimes = [j \in Slots |-> n + 1 - j]]

=============================================================================
