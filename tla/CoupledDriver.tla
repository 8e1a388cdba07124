--------------------------- MODULE CoupledDriver ---------------------------
(***************************************************************************)
(* The C++ driver of coupled simulations: FAST_Prog.cpp's main loop, the   *)
(* class OpenFAST (OpenFAST.cpp) and the FAST_CFD_* calls of FAST_Library, *)
(* which move the turbines of one process (TurbineGlue) together.  In the  *)
(* strong coupling mode a driver step is repeated nIter times before it is *)
(* accepted; it may be several OpenFAST steps long (sub-steps), and is     *)
(* then taken back by Store/Reset.  Restart files are written between      *)
(* driver steps, and a later process may start from them.                  *)
(*                                                                         *)
(* Each action is one library call for one turbine, or the driver's own    *)
(* work between two calls.  A call may fail at any point; checkError then  *)
(* ends the process.  The process may also be killed.                      *)
(***************************************************************************)
EXTENDS TurbineGlue, Winds

CONSTANTS
    Configs,    \* the set-ups to look at
    MaxLives    \* bound on the number of processes of one simulation

\* kind: where each turbine gets its wind or loads from.  crash: may the
\* process end at any point, only outside the writing of restart files, or
\* not at all.  n_TMax is n_TMax_m1 + 1.
ConfigType ==
    [kind : Seq({"ExtInfw", "ExtLd", "IfW"}) \ {<<>>},
     tight : BOOLEAN, strong : BOOLEAN,
     nSubsteps : Nat \ {0}, nIter : Nat \ {0}, nt_end : Nat, n_TMax : Nat,
     restartFreq : Nat \ {0},
     crash : {"any", "between", "none"}]

ASSUME DriverAssumption == Configs \subseteq ConfigType /\ MaxLives \in Nat

VARIABLES
    c,              \* the set-up
    pc, iTurb, iSub,
    nt, pass,       \* FAST_Prog: driver steps done, passes of the present one
    firstPass_, nt_global, ntStart,         \* members of class OpenFAST
    inflowType, vel,        \* per turbine: member; ring of velocities or loads
    n_t_global, T, ext,     \* the library: counter, turbines, external data
    chk, rst,       \* files per turbine: checkpoints, restart records
    winds,          \* history, strong mode: the wind of each driver step done
    life            \* process number

driver == <<nt, pass, firstPass_, nt_global, ntStart, inflowType, vel>>
library == <<n_t_global, T, ext>>
files == <<chk, rst>>
vars == <<c, pc, iTurb, iSub, driver, library, files, winds, life>>

Turbines == DOMAIN c.kind
NumTurbines == Len(c.kind)
States == {"NM2", "NM1", "N", "NP1"}

ThisPass == [step |-> nt + 1, pass |-> pass, life |-> life]

\* send_data_to_openfast and get_data_from_openfast do nothing otherwise.
Exchanges(t) == c.kind[t] = "ExtLd" \/ inflowType[t] = 2

\* Sub-steps go through step(ss_time), the classic mode through step().
Stepping == c.nSubsteps > 1 \/ ~c.strong

Init ==
    /\ c \in Configs
    /\ pc = "solution0" /\ iTurb = 1 /\ iSub = 1
    /\ nt = 0 /\ pass = 0 /\ firstPass_ = TRUE
    /\ nt_global = 0 /\ ntStart = 0 /\ n_t_global = 0
    /\ inflowType = [t \in Turbines |-> IF c.kind[t] = "ExtInfw" THEN 2
                                        ELSE IF c.kind[t] = "IfW" THEN 1 ELSE 0]
    /\ vel = [t \in Turbines |-> [s \in States |-> Wind0]]
    /\ T = [t \in Turbines |-> Solution0_T]
    /\ ext = [t \in Turbines |-> OwnWind]
    /\ chk = [t \in Turbines |-> {}] /\ rst = [t \in Turbines |-> <<>>]
    /\ winds = <<>> /\ life = 0

LastTurbine_zeroBased == iTurb - 1 = NumTurbines

\* The library's own test for the last turbine of a loop.
LastTurbine == iTurb = NumTurbines

\* The next turbine of a loop over the turbines, or what follows the loop.
NextTurbine(next) ==
    IF iTurb < NumTurbines THEN iTurb' = iTurb + 1 /\ pc' = pc
                           ELSE iTurb' = 1 /\ pc' = next

-----------------------------------------------------------------------------
(* FAST_Prog.cpp and what class OpenFAST does between library calls.       *)

SendData_zeroBased(k) ==
    ext' = [t \in Turbines |->
               IF Exchanges(t) THEN Blend(vel[t]["N"], vel[t]["NP1"], k - 1, c.nSubsteps)
                               ELSE ext[t]]

\* send_data_to_openfast at the k-th sub-step, or (k = nSubsteps) at the end
\* of the driver step.
SendData(k) ==
    ext' = [t \in Turbines |->
               IF Exchanges(t) THEN Blend(vel[t]["N"], vel[t]["NP1"], k, c.nSubsteps)
                               ELSE ext[t]]

\* solution0: create the restart files, start all turbines under the wind
\* that the driver has set.
Solution0 ==
    /\ pc = "solution0"
    /\ SendData(c.nSubsteps)
    /\ pc' = "main"
    /\ UNCHANGED <<c, iTurb, iSub, driver, n_t_global, T, files, winds, life>>

StartPass_shadowed ==
    /\ pc = "main" /\ nt < c.nt_end
    /\ pass' = 1
    /\ vel' = [t \in Turbines |-> [vel[t] EXCEPT !["NP1"] =
                  [step |-> nt + 1, pass |-> 1, life |-> life]]]
    /\ iTurb' = 1 /\ iSub' = 1
    /\ pc' = IF ~c.strong THEN IF c.nSubsteps = 1 THEN "endstep" ELSE "prework"
             ELSE IF c.nSubsteps = 1 THEN IF firstPass_ THEN "prework" ELSE "update"
             ELSE IF firstPass_ THEN "store" ELSE "reset"
    /\ UNCHANGED <<c, nt, firstPass_, nt_global, ntStart, inflowType, library,
                   files, winds, life>>

\* Main loop: set the wind of the next pass (setVelocity).  A first pass
\* begins with prework, a later one of a sub-stepped driver step with
\* Reset; step() of the classic mode is called nSubsteps - 1 times.
StartPass ==
    /\ pc = "main" /\ nt < c.nt_end
    /\ pass' = pass + 1
    /\ vel' = [t \in Turbines |-> [vel[t] EXCEPT !["NP1"] =
                  [step |-> nt + 1, pass |-> pass + 1, life |-> life]]]
    /\ iTurb' = 1 /\ iSub' = 1
    /\ pc' = IF ~c.strong THEN IF c.nSubsteps = 1 THEN "endstep" ELSE "prework"
             ELSE IF c.nSubsteps = 1 THEN IF firstPass_ THEN "prework" ELSE "update"
             ELSE IF firstPass_ THEN "store" ELSE "reset"
    /\ UNCHANGED <<c, nt, firstPass_, nt_global, ntStart, inflowType, library,
                   files, winds, life>>

\* End of update_states_driver_time_step.
PassDone ==
    /\ pc = "passdone"
    /\ firstPass_' = FALSE
    /\ pc' = IF pass < c.nIter THEN "main" ELSE IF Stepping THEN "output" ELSE "advance"
    /\ UNCHANGED <<c, iTurb, iSub, nt, pass, nt_global, ntStart, inflowType, vel,
                   library, files, winds, life>>

ShiftStates_late(v) ==
    [NM2 |-> v["N"], NM1 |-> v["N"], N |-> v["NP1"], NP1 |-> v["NP1"]]

\* set_state_from_state, oldest first.
ShiftStates(v) ==
    [NM2 |-> v["NM1"], NM1 |-> v["N"], N |-> v["NP1"], NP1 |-> v["NP1"]]

\* Rest of advance_to_next_driver_time_step, or of step().  FAST_CFD_Write-
\* Output changes nothing that is modelled.
Output ==
    /\ pc = "output"
    /\ IF c.strong
       THEN /\ nt_global' = nt_global + c.nSubsteps
            /\ vel' = [t \in Turbines |-> ShiftStates(vel[t])]
            /\ winds' = Append(winds, ThisPass)
            /\ firstPass_' = TRUE
       ELSE /\ nt_global' = nt_global + 1
            /\ UNCHANGED <<vel, winds, firstPass_>>
    /\ iTurb' = 1 /\ pc' = "checkpoint"
    /\ UNCHANGED <<c, iSub, nt, pass, ntStart, inflowType, library, files, life>>

\* After the checkpoints: the next call of step(), or the next driver step.
EndOutput ==
    /\ pc = "endoutput"
    /\ IF ~c.strong /\ iSub + 1 < c.nSubsteps
       THEN iSub' = iSub + 1 /\ pc' = "prework"
       ELSE iSub' = iSub /\ pc' = "endstep"
    /\ UNCHANGED <<c, iTurb, driver, library, files, winds, life>>

EndStep ==
    /\ pc = "endstep"
    /\ nt' = nt + 1 /\ pass' = 0
    /\ pc' = "main"
    /\ UNCHANGED <<c, iTurb, iSub, firstPass_, nt_global, ntStart, inflowType, vel,
                   library, files, winds, life>>

End ==
    /\ pc = "main" /\ nt >= c.nt_end
    /\ pc' = "ended"
    /\ UNCHANGED <<c, iTurb, iSub, driver, library, files, winds, life>>
-----------------------------------------------------------------------------
(* The FAST_CFD_ calls, one turbine at a time.                             *)

\* Past the end of the simulation a call does nothing, but the last turbine
\* moves the common counter on, once.
Finished_late == n_t_global > c.n_TMax

Finished == n_t_global > c.n_TMax - 1

SkipCall_everyTime ==
    /\ Finished
    /\ n_t_global' = IF LastTurbine THEN n_t_global + 1 ELSE n_t_global
    /\ UNCHANGED T

SkipCall ==
    /\ Finished
    /\ n_t_global' = IF LastTurbine /\ n_t_global = c.n_TMax THEN n_t_global + 1
                                                            ELSE n_t_global
    /\ UNCHANGED T

\* prework and Reset before a pass that has sub-steps.
Store ==
    /\ pc = "store"
    /\ T' = [T EXCEPT ![iTurb] = Store_SubStep_T(@)]
    /\ NextTurbine("prework")
    /\ UNCHANGED <<c, iSub, driver, n_t_global, ext, files, winds, life>>

\* FAST_Reset_SubStep_T knows no ExtInfw and no ExtLd module.
CanReset(t) == c.kind[t] = "IfW"

Reset ==
    /\ pc = "reset" /\ CanReset(iTurb)
    /\ T' = [T EXCEPT ![iTurb] = Reset_SubStep_T(@, n_t_global - c.nSubsteps)]
    /\ n_t_global' = IF LastTurbine THEN n_t_global - c.nSubsteps ELSE n_t_global
    /\ NextTurbine("prework")
    /\ UNCHANGED <<c, iSub, driver, ext, files, winds, life>>

ResetFails ==
    /\ pc = "reset" /\ ~CanReset(iTurb)
    /\ pc' = "down"
    /\ UNCHANGED <<c, iTurb, iSub, driver, library, files, winds, life>>

\* prework of a pass without sub-steps, or the first call of a step().
Prework ==
    /\ pc = "prework"
    /\ \/ SkipCall
       \/ /\ ~Finished
          /\ T' = [T EXCEPT ![iTurb] = Prework_T(@, n_t_global)]
          /\ UNCHANGED n_t_global
    /\ IF Stepping THEN iTurb' = iTurb /\ pc' = "update" ELSE NextTurbine("update")
    /\ UNCHANGED <<c, iSub, driver, ext, files, winds, life>>

UpdateStates ==
    /\ pc = "update"
    /\ SendData(IF c.strong THEN iSub ELSE c.nSubsteps)
    /\ \/ SkipCall
       \/ /\ ~Finished
          /\ T' = [T EXCEPT ![iTurb] = UpdateStates_T(@, n_t_global, c.tight,
                                           ext'[iTurb], ThisPass)]
          /\ UNCHANGED n_t_global
    /\ IF Stepping THEN iTurb' = iTurb /\ pc' = "advance" ELSE NextTurbine("passdone")
    /\ UNCHANGED <<c, iSub, driver, files, winds, life>>

MoreSubsteps == iSub < c.nSubsteps

\* The last call for a turbine in a step().
AdvanceToNextTimeStep ==
    /\ pc = "advance"
    /\ \/ SkipCall
       \/ /\ ~Finished
          /\ T' = [T EXCEPT ![iTurb] = AdvanceToNextTimeStep_T(@, n_t_global)]
          /\ n_t_global' = IF LastTurbine THEN n_t_global + 1 ELSE n_t_global
    /\ iTurb' = IF iTurb < NumTurbines THEN iTurb + 1 ELSE 1
    /\ iSub' = IF c.strong /\ iTurb = NumTurbines /\ MoreSubsteps THEN iSub + 1 ELSE iSub
    /\ pc' = IF ~Stepping THEN IF iTurb < NumTurbines THEN pc ELSE "output"
             ELSE IF iTurb < NumTurbines THEN "prework"
             ELSE IF ~c.strong THEN "output"
             ELSE IF MoreSubsteps THEN "prework" ELSE "passdone"
    /\ UNCHANGED <<c, driver, ext, files, winds, life>>

-----------------------------------------------------------------------------
(* Restart files.  Each turbine has checkpoints of the library, named by   *)
(* its counter, and one file of records of the driver; the last record     *)
(* names the checkpoint to start from.                                     *)

Due ==
    /\ (nt_global - ntStart) % (c.restartFreq * c.nSubsteps) = 0
    /\ nt_global /= ntStart

RecordIndex_sinceStart == ((nt_global - ntStart) \div c.nSubsteps) \div c.restartFreq

RecordIndex == (nt_global \div c.nSubsteps) \div c.restartFreq

Gap == [n |-> 0, vel |-> [s \in States |-> NoWind]]

\* writeRestartFile puts the time step, and the data of the turbine if the
\* driver exchanges any, at a place given by the number of the step.
WriteRecord ==
    LET old == rst[iTurb]
        new == [n |-> nt_global, vel |-> IF Exchanges(iTurb) THEN vel[iTurb] ELSE Gap.vel]
    IN rst' = [rst EXCEPT ![iTurb] =
           [k \in DOMAIN old \cup 1..RecordIndex |->
               IF k = RecordIndex THEN new ELSE IF k \in DOMAIN old THEN old[k] ELSE Gap]]

\* FAST_CreateCheckpoint.
WriteCheckpoint ==
    chk' = [chk EXCEPT ![iTurb] = {s \in @ : s.n /= n_t_global} \cup
               {[n |-> n_t_global, T |-> T[iTurb], ext |-> ext[iTurb]]}]

Checkpoint_recordFirst ==
    /\ pc = "checkpoint"
    /\ IF Due THEN WriteRecord /\ pc' = "record" /\ iTurb' = iTurb
              ELSE NextTurbine("endoutput") /\ UNCHANGED rst
    /\ UNCHANGED <<c, iSub, driver, library, chk, winds, life>>

Checkpoint ==
    /\ pc = "checkpoint"
    /\ IF Due THEN WriteCheckpoint /\ pc' = "record" /\ iTurb' = iTurb
              ELSE NextTurbine("endoutput") /\ UNCHANGED chk
    /\ UNCHANGED <<c, iSub, driver, library, rst, winds, life>>

Record ==
    /\ pc = "record"
    /\ WriteRecord
    /\ IF iTurb < NumTurbines THEN iTurb' = iTurb + 1 /\ pc' = "checkpoint"
                              ELSE iTurb' = 1 /\ pc' = "endoutput"
    /\ UNCHANGED <<c, iSub, driver, library, chk, winds, life>>

LastRecord(t) == rst[t][Len(rst[t])]

Restartable(t) == rst[t] /= <<>> /\ \E s \in chk[t] : s.n = LastRecord(t).n

Saved(t) == CHOOSE s \in chk[t] : s.n = LastRecord(t).n

\* init with trueRestart, one turbine after the other: each sets the common
\* counters, so those of the last one remain.  The user starts the main
\* loop at the time of the restart.
Restart ==
    /\ pc = "down" /\ life < MaxLives
    /\ \A t \in Turbines : Restartable(t)
    /\ life' = life + 1
    /\ T' = [t \in Turbines |-> Saved(t).T]
    /\ ext' = [t \in Turbines |-> Saved(t).ext]
    /\ vel' = [t \in Turbines |-> LastRecord(t).vel]
    /\ inflowType' = [t \in Turbines |-> 0]
    /\ n_t_global' = Saved(NumTurbines).n
    /\ nt_global' = n_t_global' /\ ntStart' = n_t_global'
    /\ nt' = nt_global' \div c.nSubsteps /\ pass' = 0 /\ firstPass_' = TRUE
    /\ winds' = IF c.strong THEN SubSeq(winds, 1, nt') ELSE winds
    /\ iTurb' = 1 /\ iSub' = 1 /\ pc' = "main"
    /\ UNCHANGED <<c, files>>

-----------------------------------------------------------------------------

\* A call fails and nobody catches the exception, or the process is killed.
Stops ==
    /\ pc \notin {"down", "ended"}
    /\ \/ c.crash = "any"
       \/ c.crash = "between" /\ pc \notin {"checkpoint", "record"}
    /\ pc' = "down"
    /\ UNCHANGED <<c, iTurb, iSub, driver, library, files, winds, life>>

Process ==
    \/ Solution0 \/ StartPass \/ PassDone \/ Output \/ EndOutput \/ EndStep \/ End
    \/ Store \/ Reset \/ ResetFails
    \/ Prework \/ UpdateStates \/ AdvanceToNextTimeStep
    \/ Checkpoint \/ Record

Over == pc \in {"ended", "down"} /\ UNCHANGED vars

Next == Process \/ Stops \/ Restart \/ Over

\* The process runs on by itself; nobody has to kill or to restart it.
Spec == Init /\ [][Next]_vars /\ WF_vars(Process)

-----------------------------------------------------------------------------
(* Properties.                                                             *)

\* A driver step that is taken back reaches past the end of the simulation. There
\* SkipCall moves the counter once, whatever the number of sub-steps that are
\* skipped, but Reset takes all of them off it: the library goes back to a step
\* before the one that Store has kept.
TakenBackPastEnd ==
    c.strong /\ c.nSubsteps > 1 /\ c.nIter > 1 /\ c.nt_end * c.nSubsteps > c.n_TMax

\* Type invariant: counters, traces and files are of the form described; the
\* library's counter passes the end of the simulation by one at the most.
TypeOK ==
    /\ c \in Configs
    /\ pc \in {"solution0", "main", "store", "reset", "prework", "update", "advance",
               "passdone", "output", "checkpoint", "record", "endoutput", "endstep",
               "ended", "down"}
    /\ iTurb \in Turbines /\ iSub \in 1..c.nSubsteps
    /\ nt \in 0..c.nt_end /\ pass \in 0..c.nIter /\ firstPass_ \in BOOLEAN
    /\ nt_global \in Nat /\ ntStart \in Nat
    /\ n_t_global \in (IF TakenBackPastEnd THEN -c.nSubsteps ELSE 0)..c.n_TMax + 1
    /\ inflowType \in [Turbines -> 0..2]
    /\ DOMAIN vel = Turbines /\ DOMAIN T = Turbines /\ DOMAIN ext = Turbines
    /\ \A t \in Turbines : DOMAIN rst[t] = 1..Len(rst[t])
    /\ \A t \in Turbines, s \in UNION {chk[u] : u \in Turbines} : s.n \in Nat
    /\ life \in 0..MaxLives

AtDriverStep == pc = "main" /\ pass = 0

Trace(t) == T[t].State["CURR"]

\* At each driver step, first or repeated, after a restart or not, the clocks
\* of FAST_Prog (in the strong mode), of class OpenFAST, of the library and of
\* every turbine show the same time; class OpenFAST's alone goes on past the
\* end of the simulation.
ClocksAgree ==
    AtDriverStep =>
        /\ c.strong => nt_global = nt * c.nSubsteps
        /\ nt_global <= c.n_TMax =>
              /\ n_t_global = nt_global
              /\ \A t \in Turbines : T[t].t_global = nt_global /\ Len(Trace(t)) = nt_global

\* No time step mixes trajectories: its states, its accelerations and all the
\* earlier inputs it extrapolates from, with their times, belong to one
\* history, whatever has been repeated, taken back or restarted before; but not
\* where the counter is taken back past the state.
CleanSteps ==
    TakenBackPastEnd \/ \A t \in Turbines : \A k \in DOMAIN Trace(t) : Trace(t)[k].clean

StepsWithinArrays == \A t \in Turbines : Len(T[t].State["PRED"]) <= c.n_TMax

\* However far the driver runs, repeats and restarts, no turbine is stepped beyond
\* n_TMax, for which the library's arrays are sized, unless sub-steps past the
\* end are taken back (TakenBackPastEnd).
NoOverstep == TakenBackPastEnd \/ StepsWithinArrays

\* At each driver step the driver's older samples are those of the last three
\* accepted steps: sub-steps and predictions interpolate between them.
SamplesAreHistory ==
    AtDriverStep /\ c.strong => \A t \in Turbines : Exchanges(t) =>
        LET Wind(k) == IF k < 1 THEN Wind0 ELSE winds[k] IN
        /\ vel[t]["N"] = Wind(nt) /\ vel[t]["NM1"] = Wind(nt - 1)
        /\ vel[t]["NM2"] = Wind(nt - 2)

\* At every moment the last record of each restart file names a checkpoint
\* that exists, of the same time step, with the turbine at that step; past the
\* end of the simulation there are records, but no checkpoints of their steps.
RestartPointExists ==
    \A t \in Turbines : rst[t] /= <<>> /\ LastRecord(t).n <= c.n_TMax =>
        /\ Restartable(t)
        /\ Saved(t).T.t_global = LastRecord(t).n
        /\ Len(Saved(t).T.State["CURR"]) = LastRecord(t).n

\* n_checkpoint: a restart in the strong mode gives up fewer finished driver
\* steps than that, in the second life as in the first.
LossBounded == [][c.strong /\ Restart => nt - nt' < c.restartFreq]_vars

\* The set-ups in which the code can follow the driver: the strong mode, within
\* the simulation, with repeats that Reset can take back and with turbines
\* whose inflow a restart sets up again (findings DocReset and DocRestart).
Followed ==
    /\ c.strong /\ c.nt_end * c.nSubsteps <= c.n_TMax
    /\ \A t \in Turbines : c.kind[t] = "ExtInfw" => c.crash = "none"
    /\ c.nSubsteps > 1 /\ c.nIter > 1
           => \A t \in Turbines : c.kind[t] = "IfW" /\ ~c.tight

\* In the other set-ups nothing is claimed, and the mapping shows no step.
Abstract == INSTANCE CoupledSteps WITH
    winds <- IF Followed THEN winds ELSE <<>>,
    seen <- [t \in Turbines |-> IF Followed THEN [k \in 1..nt_global |-> Trace(t)[k].vel]
                                            ELSE <<>>]

\* The driver keeps CoupledSteps's promise where it can: refinement.
Refines == Abstract!Spec

\* A process comes to an end: no pass, driver step or restart file is worked
\* on for ever.
ProcessEnds == (pc = "main") ~> (pc \in {"ended", "down"})

(* What the documentation says and the code does not do.                   *)

\* dev/cppapi: with Store and Reset the driver repeats a sub-stepped driver
\* step: if no call fails and nobody kills the process, it does not stop.
RepeatsSubsteps == c.crash = "none" => pc /= "down"

\* FAST_Library.f90:1086: past the end the library does not continue, "because we
\* might over-step some arrays that are allocated to the size of the simulation".
NeverOverstep == StepsWithinArrays

\* OpenFAST.H: a turbine of inflow type 2 takes the wind of the driver, in a
\* simulation that was restarted too.
FollowsDriver ==
    AtDriverStep /\ nt > 0 => \A t \in Turbines : c.kind[t] = "ExtInfw" =>
        Trace(t)[nt_global].vel.to = winds[nt]

=============================================================================
