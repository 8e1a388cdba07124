------------------------ MODULE CoupledDriver_proofs ------------------------
(***************************************************************************)
(* Theorems about CoupledDriver, for every set-up, number of turbines,     *)
(* sub-steps, passes and driver steps, and every frequency of restarts, in *)
(* the strong and the classic mode, also for a driver that goes on past    *)
(* the end of the simulation.                                              *)
(*                                                                         *)
(* The inductive invariant says at each place of the loops over turbines   *)
(* and sub-steps how far each turbine is (Stage), how the clocks of the    *)
(* driver and the library compare (ClockInv), what each turbine has        *)
(* stored, and what the restart files hold.                                *)
(***************************************************************************)
EXTENDS CoupledDriver, SequenceTheorems, TLAPS

\* Driver steps that are taken back by Reset.
Repeats == c.strong /\ c.nSubsteps > 1 /\ c.nIter > 1

\* The set-ups the theorems are about: with several turbines no end of the
\* process between their restart files, and no driver step that is both taken
\* back and past the simulation's end, where Reset misses the library's counter.
Together == NumTurbines > 1 => c.crash /= "any"

Orderly == Together /\ ~TakenBackPastEnd

\* Reset does not restore the accelerations of tightly coupled modules.
Kept == c.tight => ~Repeats
Tracked == Kept /\ c.tight

-----------------------------------------------------------------------------
(* Types.                                                                  *)

Sample == [step : Int, pass : Nat, life : Nat]
Seen == [from : Sample, to : Sample, at : Nat]
Step == [vel : Seen, run : Sample, clean : BOOLEAN]
Trajectory == Seq(Step)
InputType == [of : Trajectory, final : BOOLEAN]
AllSlots == Slots \cup {-k : k \in Slots}

TurbineType ==
    [t_global : Nat, Input : [AllSlots -> InputType], InputTimes : [Slots -> Int],
     State : [StateIndex -> Trajectory], StateCurr : Trajectory, StatePred : Trajectory]

CheckpointType == [n : Nat, T : TurbineType, ext : Seen]
RecordType == [n : Nat, vel : [States -> Sample]]

Places == {"solution0", "main", "store", "reset", "prework", "update", "advance",
           "passdone", "output", "checkpoint", "record", "endoutput", "endstep",
           "ended", "down"}

TypeInv ==
    /\ c \in Configs
    /\ pc \in Places
    /\ iTurb \in Turbines /\ iSub \in 1..c.nSubsteps
    /\ nt \in 0..c.nt_end /\ pass \in 0..c.nIter /\ firstPass_ \in BOOLEAN
    /\ nt_global \in Nat /\ ntStart \in Nat /\ n_t_global \in Nat
    /\ inflowType \in [Turbines -> 0..2]
    /\ vel \in [Turbines -> [States -> Sample]]
    /\ T \in [Turbines -> TurbineType]
    /\ ext \in [Turbines -> Seen]
    /\ chk \in [Turbines -> SUBSET CheckpointType]
    /\ rst \in [Turbines -> Seq(RecordType)]
    /\ winds \in Seq(Sample) /\ life \in 0..MaxLives

-----------------------------------------------------------------------------
(* How far a turbine is.                                                   *)

Curr(X) == X.State["CURR"]

\* Between two time steps.  tc: are accelerations of tightly coupled modules
\* those of the present state?
Ready(X, n, tc) ==
    /\ X.t_global = n /\ Len(Curr(X)) = n
    /\ \A j \in Slots : /\ X.InputTimes[j] = n + 1 - j
                        /\ X.Input[j] = FinalInput(Past(Curr(X), n + 1 - j))
    /\ tc => X.StateCurr = Curr(X)

\* After Prework: what a step starts from is of one trajectory.
Guessed(X, n, tc) == X.t_global = n /\ Clean(X, n, tc)

\* After UpdateStates, which may be repeated.
Predicted(X, n, tc) ==
    /\ Guessed(X, n, tc)
    /\ Len(X.State["PRED"]) = n + 1 /\ Curr(X) = Past(X.State["PRED"], n)
    /\ X.Input[1] = FinalInput(X.State["PRED"])
    /\ tc => X.StatePred = X.State["PRED"]

\* What Reset goes back to.
Stored(X, n) ==
    /\ Len(X.State["SAVED_CURR"]) = n
    /\ \A j \in Slots : X.Input[-j] = FinalInput(Past(X.State["SAVED_CURR"], n + 1 - j))

\* No state is longer than the simulation or comes from an unclean step.
Sound(X, max, kept) ==
    \A i \in StateIndex :
        /\ Len(X.State[i]) <= max
        /\ kept => \A k \in DOMAIN X.State[i] : X.State[i][k].clean

-----------------------------------------------------------------------------
(* The invariant.                                                          *)

\* From a pass's start to the advance to the next driver step.
InPass == pc \in {"store", "reset", "prework", "update", "advance", "passdone", "output"}

\* From there to the end of the driver step.
Filing == pc \in {"checkpoint", "record", "endoutput"}
After == Filing \/ pc = "endstep"

InStep == pc \in {"prework", "update", "advance"}
Repeated == pc = "main" /\ ~firstPass_
Gone == pc \in {"ended", "down"}

\* Calls of step() in the present driver step of the classic mode.
Calls == IF InPass THEN iSub - 1 ELSE IF After THEN iSub ELSE 0

CountInv ==
    /\ n_t_global <= c.n_TMax + 1
    /\ InPass \/ After => nt < c.nt_end
    /\ c.strong => /\ InPass \/ pc \in {"main", "solution0"} => nt_global = nt * c.nSubsteps
                   /\ After => nt_global = (nt + 1) * c.nSubsteps
    /\ ~c.strong => /\ firstPass_ /\ pc \notin {"store", "reset", "passdone"}
                    /\ ~Gone => nt_global <= nt * c.nSubsteps + Calls
    /\ After => firstPass_
    /\ pc \in {"main", "solution0"} => pass < c.nIter /\ (firstPass_ <=> pass = 0)
    /\ pc = "solution0" => pass = 0
    /\ InPass \/ Filing => pass >= 1
    /\ pc = "store" => c.nSubsteps > 1 /\ iSub = 1
    /\ pc = "reset" => c.nSubsteps > 1 /\ iSub = 1 /\ pass >= 2
    /\ pc \in {"passdone", "output", "endoutput"} => iTurb = 1

\* The time steps that the library has been asked for since nt_global.
Ahead ==
    IF InStep THEN IF c.strong THEN iSub - 1 ELSE 0
    ELSE IF pc = "output" THEN IF c.strong THEN c.nSubsteps ELSE 1
    ELSE IF Stepping /\ (pc \in {"reset", "passdone"} \/ Repeated) THEN c.nSubsteps
    ELSE 0

Asked == nt_global + Ahead

\* Turbines are at different places of a time step, or it may be repeated.
Midway == InStep \/ (~Stepping /\ (pc = "passdone" \/ Repeated))

\* The library's counter is the number of steps asked for, until the end of the
\* simulation; there it moves on once more, in a call that does nothing.
ClockInv ==
    ~Gone => /\ Asked < c.n_TMax => n_t_global = Asked
             /\ Asked >= c.n_TMax => n_t_global >= c.n_TMax
             /\ Asked = c.n_TMax /\ ~Midway => n_t_global = Asked

\* How far turbine t is in the present time step: ready to begin it, guessed,
\* predicted, or ready to begin the next one.
Stage(t) ==
    IF Stepping
    THEN IF ~InStep THEN "ready"
         ELSE IF t < iTurb THEN "next"
         ELSE IF t > iTurb \/ pc = "prework" THEN "ready"
         ELSE IF pc = "update" THEN "guessed" ELSE "predicted"
    ELSE IF pc = "prework" THEN IF t < iTurb THEN "guessed" ELSE "ready"
         ELSE IF pc = "update" THEN IF t < iTurb THEN "predicted" ELSE "guessed"
         ELSE IF pc = "advance" THEN IF t < iTurb THEN "next" ELSE "predicted"
         ELSE IF pc = "passdone" \/ Repeated THEN "predicted" ELSE "ready"

AtStage(X, stage, n) ==
    /\ stage = "ready" => Ready(X, n, Tracked)
    /\ stage = "guessed" => Guessed(X, n, Tracked)
    /\ stage = "predicted" => Predicted(X, n, Tracked)
    /\ stage = "next" => Ready(X, n + 1, Tracked)

\* Past the end nothing is known of the turbines but that they are sound.
TurbineInv ==
    LET n == n_t_global IN
    /\ pc /= "reset" /\ ~Gone => \A t \in Turbines :
           /\ n < c.n_TMax => AtStage(T[t], Stage(t), n)
           /\ n = c.n_TMax => Ready(T[t], n, Tracked)
    /\ pc = "reset" => \A t \in Turbines :
           Ready(T[t], IF t < iTurb THEN nt_global ELSE n, Tracked)

StoredInv ==
    Repeats => \A t \in Turbines :
        /\ pc = "store" /\ t < iTurb => Stored(T[t], nt_global)
        /\ InStep \/ pc \in {"reset", "passdone"} \/ Repeated => Stored(T[t], nt_global)

SoundInv == \A t \in Turbines : Sound(T[t], c.n_TMax, Kept)

\* Restart files.  A turbine has written its files of the present driver step.
Written(t) ==
    \/ pc \in {"endoutput", "endstep"}
    \/ pc \in {"checkpoint", "record"} /\ t < iTurb

Saves(t) == Len(rst[t])

\* A checkpoint of a step within the simulation has the turbine at that step.
FileInv ==
    /\ \A t \in Turbines : \A s \in chk[t] :
           /\ s.n <= c.n_TMax + 1 /\ Sound(s.T, c.n_TMax, Kept)
           /\ s.n <= c.n_TMax => Ready(s.T, s.n, Tracked)
    /\ \A t \in Turbines : rst[t] /= <<>> =>
        /\ LastRecord(t).n = (Saves(t) * c.restartFreq) * c.nSubsteps
        /\ LastRecord(t).n <= c.n_TMax => \E s \in chk[t] : s.n = LastRecord(t).n
    /\ \A t \in Turbines : Saves(t) * c.restartFreq <= c.nt_end
    /\ pc = "record" => /\ Due
                        /\ nt_global <= c.n_TMax => \E s \in chk[iTurb] : s.n = nt_global
    /\ \E j \in 0..c.nt_end : ntStart = (j * c.restartFreq) * c.nSubsteps
    /\ ~Gone => nt_global >= ntStart /\ (Filing => nt_global > ntStart)

\* All turbines have the same restart files, but for those being written.
Writing == pc \in {"checkpoint", "record"} /\ Due
Larger(i, j) == IF i < j THEN j ELSE i

SyncInv ==
    \A t, u \in Turbines :
        /\ (Writing => (t < iTurb <=> u < iTurb)) => Saves(t) = Saves(u)
        /\ Writing /\ t < iTurb /\ ~(u < iTurb) => Saves(t) = Larger(Saves(u), RecordIndex)

LossInv ==
    c.strong => \A t \in Turbines :
        /\ nt < (Saves(t) + 1) * c.restartFreq
        /\ Written(t) => nt + 1 < (Saves(t) + 1) * c.restartFreq

\* Samples of wind: the driver's and those of the last record.
WindAt(k) == IF k < 1 THEN Wind0 ELSE winds[k]

History(v, k) == v["N"] = WindAt(k) /\ v["NM1"] = WindAt(k - 1) /\ v["NM2"] = WindAt(k - 2)

HistoryInv ==
    LET done == IF After THEN nt + 1 ELSE nt IN
    c.strong =>
        /\ pc /= "down" => /\ Len(winds) = done
                           /\ \A t \in Turbines : Exchanges(t) => History(vel[t], done)
        /\ \A t \in Turbines : rst[t] /= <<>> =>
            /\ Saves(t) * c.restartFreq <= Len(winds)
            /\ c.kind[t] = "ExtLd" => History(LastRecord(t).vel, Saves(t) * c.restartFreq)

\* The newest sample is the one of the present pass.
Sampled == InPass \/ (~c.strong /\ Filing)
SampleInv == Sampled => \A t \in Turbines : vel[t]["NP1"] = ThisPass

IInv ==
    /\ TypeInv /\ CountInv /\ ClockInv /\ TurbineInv /\ StoredInv /\ SoundInv
    /\ FileInv /\ SyncInv /\ LossInv /\ HistoryInv /\ SampleInv

OrderlyIInv == Orderly /\ IInv

-----------------------------------------------------------------------------
(* Traces and turbines.                                                    *)

\* The past of a trace is a trace; one step more does not change it.
LEMMA PastOfTrajectory ==
  ASSUME NEW h \in Trajectory, NEW k \in Int, k <= Len(h)
  PROVE  /\ Past(h, k) \in Trajectory
         /\ Len(Past(h, k)) = IF k < 0 THEN 0 ELSE k
  BY SubSeqProperties DEF Past, Trajectory

LEMMA WholePast ==
  ASSUME NEW h \in Trajectory
  PROVE  Past(h, Len(h)) = h
  BY SubSeqFull DEF Past, Trajectory

LEMMA PastOfPast ==
  ASSUME NEW h \in Trajectory, NEW n \in Nat, n <= Len(h), NEW k \in Int, k <= n
  PROVE  Past(Past(h, n), k) = Past(h, k)
<1> DEFINE i == IF k < 0 THEN 0 ELSE k
<1>1. i \in 0..n
  OBVIOUS
<1>2. Past(Past(h, n), k) = SubSeq(SubSeq(h, 1, n), 1, i) /\ Past(h, k) = SubSeq(h, 1, i)
  BY DEF Past
<1>3. SubSeq(h, 1, n) \in Seq(Step) /\ Len(SubSeq(h, 1, n)) = n
  BY SubSeqProperties DEF Trajectory
<1>4. CASE i = 0
  BY <1>2, <1>3, <1>4, SubSeqEmpty DEF Trajectory
<1>5. CASE i >= 1
  <2>1. SubSeq(SubSeq(h, 1, n), 1, i) = SubSeq(h, 1 + 1 - 1, 1 + i - 1)
    BY <1>1, <1>5, SubSeqOfSubSeq DEF Trajectory
  <2> QED BY <1>1, <1>2, <2>1
<1> QED BY <1>1, <1>4, <1>5

LEMMA PastOfAppend ==
  ASSUME NEW h \in Trajectory, NEW e \in Step
  PROVE  /\ Append(h, e) \in Trajectory
         /\ Len(Append(h, e)) = Len(h) + 1
         /\ Past(Append(h, e), Len(h)) = h
<1>1. Append(h, e) \in Seq(Step) /\ Len(Append(h, e)) = Len(h) + 1
  BY AppendProperties DEF Trajectory
<1>2. SubSeq(Append(h, e), 1, Len(h)) = h
  BY <1>1, SubSeqProperties DEF Trajectory
<1> QED BY <1>1, <1>2 DEF Past, Trajectory

\* The slots of inputs, positive and negative.
LEMMA SlotFacts ==
  /\ Slots \subseteq Nat \ {0} /\ 1 \in Slots
  /\ \A j \in AllSlots : j \in Int /\ (j > 0 => j \in Slots) /\ (j <= 0 => -j \in Slots /\ j < 0)
  /\ \A j \in Slots : j \in AllSlots /\ -j \in AllSlots /\ (j > 1 => j - 1 \in Slots)
  BY InterpOrderAssumption DEF Slots, AllSlots

\* Fields of a turbine are replaced.
LEMMA SetFields ==
  ASSUME NEW X \in TurbineType
  PROVE  /\ \A v \in Nat : [X EXCEPT !.t_global = v] \in TurbineType
         /\ \A v \in [AllSlots -> InputType] : [X EXCEPT !.Input = v] \in TurbineType
         /\ \A v \in [Slots -> Int] : [X EXCEPT !.InputTimes = v] \in TurbineType
         /\ \A v \in [StateIndex -> Trajectory] : [X EXCEPT !.State = v] \in TurbineType
         /\ \A v \in Trajectory : /\ [X EXCEPT !.StateCurr = v] \in TurbineType
                                  /\ [X EXCEPT !.StatePred = v] \in TurbineType
  BY DEF TurbineType

\* Before the first step.
LEMMA Solution0Ready ==
  ASSUME NEW tc \in BOOLEAN, NEW kept \in BOOLEAN, NEW max \in Nat
  PROVE  /\ Solution0_T \in TurbineType
         /\ Ready(Solution0_T, 0, tc) /\ Sound(Solution0_T, max, kept)
<1> DEFINE X == Solution0_T
<1>1. <<>> \in Trajectory /\ Len(<<>>) = 0
  BY DEF Trajectory
<1>2. X \in TurbineType
  BY <1>1, SlotFacts DEF Solution0_T, TurbineType, AllSlots, FinalInput, InputType
<1>3. Past(<<>>, 0) = <<>> /\ \A k \in Int : k <= 0 => Past(<<>>, k) = <<>>
  BY SubSeqEmpty DEF Past
<1>4. Ready(X, 0, tc)
  BY <1>1, <1>3, SlotFacts DEF Solution0_T, Ready, Curr, StateIndex, AllSlots
<1>5. Sound(X, max, kept)
  BY <1>1 DEF Solution0_T, Sound, StateIndex
<1> QED BY <1>2, <1>4, <1>5

\* Prework: inputs and times move one place up, so that the earlier ones are
\* those of the steps before.
LEMMA PreworkGuesses ==
  ASSUME NEW X \in TurbineType, NEW n \in Nat, NEW tc \in BOOLEAN, Ready(X, n, tc),
         NEW kept \in BOOLEAN, NEW max \in Nat, Sound(X, max, kept)
  PROVE  /\ Prework_T(X, n) \in TurbineType
         /\ Guessed(Prework_T(X, n), n, tc) /\ Sound(Prework_T(X, n), max, kept)
         /\ \A m \in Nat : Stored(X, m) => Stored(Prework_T(X, n), m)
<1> DEFINE Y == Prework_T(X, n)
           h == X.State["CURR"]
<1>1. /\ Y.t_global = X.t_global /\ Y.State = X.State
      /\ Y.StateCurr = X.StateCurr /\ Y.StatePred = X.StatePred
      /\ Y.Input = [j \in AllSlots |-> IF j = 1 THEN Guess(h)
                                         ELSE IF j > 1 THEN X.Input[j - 1] ELSE X.Input[j]]
      /\ Y.InputTimes = [j \in Slots |-> IF j = 1 THEN n + 1 ELSE X.InputTimes[j - 1]]
  BY DEF Prework_T, TurbineType
<1>2. h \in Trajectory /\ Guess(h) \in InputType
  BY DEF TurbineType, StateIndex, Guess, InputType
<1>3. Y \in TurbineType
  <2>2. Y.Input \in [AllSlots -> InputType]
    BY <1>1, <1>2, SlotFacts DEF TurbineType
  <2>3. Y.InputTimes \in [Slots -> Int]
    BY <1>1, SlotFacts DEF TurbineType
  <2> HIDE DEF Y
  <2> DEFINE Z == [X EXCEPT !.Input = Y.Input]
  <2>4. Z \in TurbineType
    BY <2>2, SetFields
  <2>5. [Z EXCEPT !.InputTimes = Y.InputTimes] \in TurbineType
    BY <2>3, <2>4, SetFields
  <2>6. Y = [Z EXCEPT !.InputTimes = Y.InputTimes]
    BY <1>1 DEF Y, Prework_T, TurbineType
  <2> QED BY <2>5, <2>6
<1>4. Guessed(Y, n, tc)
  <2>1. Y.t_global = n /\ Len(Y.State["CURR"]) = n /\ (tc => Y.StateCurr = Y.State["CURR"])
    BY <1>1 DEF Ready, Curr
  <2>2. \A j \in Slots : Y.InputTimes[j] = n + 2 - j
    <3> SUFFICES ASSUME NEW j \in Slots PROVE Y.InputTimes[j] = n + 2 - j
      OBVIOUS
    <3>1. j = 1 \/ (j - 1 \in Slots /\ j \in Nat)
      BY SlotFacts
    <3>2. CASE j = 1
      BY <1>1, <3>2
    <3>3. CASE j /= 1
      <4>1. X.InputTimes[j - 1] = n + 1 - (j - 1)
        BY <3>1, <3>3 DEF Ready
      <4> QED BY <1>1, <3>1, <3>3, <4>1
    <3> QED BY <3>2, <3>3
  <2>3. \A j \in Slots \ {1} : Y.Input[j] = FinalInput(Past(h, n + 2 - j))
    <3> SUFFICES ASSUME NEW j \in Slots \ {1} PROVE Y.Input[j] = FinalInput(Past(h, n + 2 - j))
      OBVIOUS
    <3>1. j > 1 /\ j \in AllSlots /\ j - 1 \in Slots
      BY SlotFacts
    <3>2. Y.Input[j] = X.Input[j - 1]
      BY <1>1, <3>1
    <3>3. X.Input[j - 1] = FinalInput(Past(h, n + 1 - (j - 1)))
      BY <3>1 DEF Ready, Curr
    <3>4. n + 1 - (j - 1) = n + 2 - j
      BY <3>1, SlotFacts
    <3> QED BY <3>2, <3>3, <3>4
  <2> QED BY <1>1, <2>1, <2>2, <2>3 DEF Guessed, Clean
<1>5. Sound(Y, max, kept)
  BY <1>1 DEF Sound
<1>6. ASSUME NEW m \in Nat, Stored(X, m) PROVE Stored(Y, m)
  <2>1. \A j \in Slots : Y.Input[-j] = X.Input[-j]
    BY <1>1, SlotFacts
  <2> QED BY <1>1, <1>6, <2>1 DEF Stored
<1> QED BY <1>3, <1>4, <1>5, <1>6

\* UpdateStates: one step more, clean if what it starts from is; it may be
\* taken again from the same state.
LEMMA UpdatePredicts ==
  ASSUME NEW X \in TurbineType, NEW n \in Nat, NEW tc \in BOOLEAN, Guessed(X, n, tc),
         NEW kept \in BOOLEAN, NEW max \in Nat, Sound(X, max, kept), n < max,
         NEW tight \in BOOLEAN, tc => tight, kept => tc = tight,
         NEW v \in Seen, NEW run \in Sample
  PROVE  LET Y == UpdateStates_T(X, n, tight, v, run) IN
         /\ Y \in TurbineType
         /\ Predicted(Y, n, tc) /\ Sound(Y, max, kept)
         /\ \A m \in Nat : Stored(X, m) => Stored(Y, m)
<1> DEFINE Y == UpdateStates_T(X, n, tight, v, run)
           h == X.State["CURR"]
           e == [vel |-> v, run |-> run, clean |-> Clean(X, n, tight)]
           p == Append(h, e)
<1>1. /\ Y.t_global = X.t_global /\ Y.InputTimes = X.InputTimes
      /\ Y.State = [X.State EXCEPT !["PRED"] = p]
      /\ Y.StateCurr = X.StateCurr
      /\ Y.StatePred = IF tight THEN p ELSE X.StatePred
      /\ Y.Input = [X.Input EXCEPT ![1] = FinalInput(p)]
  BY DEF UpdateStates_T, TurbineType
<1>2. h \in Trajectory /\ Len(h) = n
  BY DEF TurbineType, StateIndex, Guessed, Clean
<1>3. e \in Step
  BY DEF Step, Clean
<1>4. /\ p \in Trajectory /\ Len(p) = n + 1 /\ Past(p, n) = h
      /\ FinalInput(p) \in InputType
  BY <1>2, <1>3, PastOfAppend DEF InputType, FinalInput
<1> HIDE DEF p, Y
<1>5. Y \in TurbineType
  <2> DEFINE Y1 == [X EXCEPT !.State = [X.State EXCEPT !["PRED"] = p]]
             Y2 == [Y1 EXCEPT !.Input = [X.Input EXCEPT ![1] = FinalInput(p)]]
             Y3 == [Y2 EXCEPT !.StatePred = IF tight THEN p ELSE X.StatePred]
  <2>1. /\ [X.State EXCEPT !["PRED"] = p] \in [StateIndex -> Trajectory]
        /\ [X.Input EXCEPT ![1] = FinalInput(p)] \in [AllSlots -> InputType]
        /\ (IF tight THEN p ELSE X.StatePred) \in Trajectory
    BY <1>4, SlotFacts DEF TurbineType, StateIndex
  <2>2. Y1 \in TurbineType
    BY <2>1, SetFields
  <2>3. Y2 \in TurbineType
    BY <2>1, <2>2, SetFields
  <2>4. Y3 \in TurbineType
    BY <2>1, <2>3, SetFields
  <2>5. Y = Y3
    BY DEF UpdateStates_T, TurbineType, Y, p
  <2> QED BY <2>4, <2>5
<1>6. Y.State["CURR"] = h /\ Y.State["PRED"] = p
  BY <1>1 DEF TurbineType, StateIndex
<1>7. Guessed(Y, n, tc)
  <2>1. \A j \in Slots \ {1} : Y.Input[j] = X.Input[j]
    BY <1>1
  <2>2. /\ Len(h) = n /\ (tc => X.StateCurr = h)
        /\ \A j \in Slots : X.InputTimes[j] = n + 2 - j
        /\ \A j \in Slots \ {1} : X.Input[j] = FinalInput(Past(h, n + 2 - j))
        /\ X.t_global = n
    BY DEF Guessed, Clean
  <2> QED BY <1>1, <1>6, <2>1, <2>2 DEF Guessed, Clean
<1>8. Predicted(Y, n, tc)
  <2>1. Y.Input[1] = FinalInput(p)
    BY <1>1, SlotFacts DEF TurbineType
  <2> QED BY <1>1, <1>4, <1>6, <1>7, <2>1 DEF Predicted, Curr
<1>9. Sound(Y, max, kept)
  <2>1. ASSUME NEW i \in StateIndex, i /= "PRED"
        PROVE  Y.State[i] = X.State[i]
    BY <1>1, <2>1 DEF TurbineType
  <2>2. ASSUME kept, NEW k \in DOMAIN p
        PROVE  p[k].clean
    <3>1. Clean(X, n, tight)
      BY <2>2 DEF Guessed
    <3>2. DOMAIN p = 1..n + 1 /\ DOMAIN h = 1..n
      BY <1>2, <1>4 DEF Trajectory
    <3>3. CASE k = n + 1
      BY <1>2, <1>3, <3>1, <3>3, AppendProperties DEF p, Trajectory
    <3>4. CASE k \in 1..n
      <4>1. p[k] = h[k]
        BY <1>2, <1>3, <3>4, AppendProperties DEF p, Trajectory
      <4> QED BY <2>2, <3>2, <3>4, <4>1 DEF Sound, StateIndex
    <3> QED BY <3>2, <3>3, <3>4
  <2> QED BY <1>4, <1>6, <2>1, <2>2 DEF Sound
<1>10. ASSUME NEW m \in Nat, Stored(X, m) PROVE Stored(Y, m)
  <2>1. \A j \in Slots : Y.Input[-j] = X.Input[-j]
    BY <1>1, SlotFacts DEF TurbineType
  <2>2. Y.State["SAVED_CURR"] = X.State["SAVED_CURR"]
    BY <1>1 DEF TurbineType, StateIndex
  <2> QED BY <1>10, <2>1, <2>2 DEF Stored
<1> QED BY <1>5, <1>8, <1>9, <1>10 DEF Y

\* AdvanceToNextTimeStep: the earlier inputs are still those of the steps
\* before.
LEMMA AdvanceReady ==
  ASSUME NEW X \in TurbineType, NEW n \in Nat, NEW tc \in BOOLEAN, Predicted(X, n, tc),
         NEW kept \in BOOLEAN, NEW max \in Nat, Sound(X, max, kept)
  PROVE  LET Y == AdvanceToNextTimeStep_T(X, n) IN
         /\ Y \in TurbineType
         /\ Ready(Y, n + 1, tc) /\ Sound(Y, max, kept)
         /\ \A m \in Nat : Stored(X, m) => Stored(Y, m)
<1> DEFINE Y == AdvanceToNextTimeStep_T(X, n)
           h == X.State["CURR"]
           p == X.State["PRED"]
<1>1. /\ Y.t_global = n + 1 /\ Y.InputTimes = X.InputTimes /\ Y.Input = X.Input
      /\ Y.State = [X.State EXCEPT !["CURR"] = p]
      /\ Y.StateCurr = X.StatePred /\ Y.StatePred = X.StatePred
  BY DEF AdvanceToNextTimeStep_T, TurbineType
<1>2. /\ h \in Trajectory /\ p \in Trajectory
      /\ Len(h) = n /\ Len(p) = n + 1 /\ h = Past(p, n)
  BY DEF TurbineType, StateIndex, Predicted, Guessed, Clean, Curr
<1>3. Y \in TurbineType
  <2> DEFINE Y1 == [X EXCEPT !.StateCurr = X.StatePred]
             Y2 == [Y1 EXCEPT !.State = [X.State EXCEPT !["CURR"] = p]]
             Y3 == [Y2 EXCEPT !.t_global = n + 1]
  <2>1. /\ [X.State EXCEPT !["CURR"] = p] \in [StateIndex -> Trajectory]
        /\ X.StatePred \in Trajectory
    BY <1>2 DEF TurbineType, StateIndex
  <2>2. Y1 \in TurbineType
    BY <2>1, SetFields
  <2>3. Y2 \in TurbineType
    BY <2>1, <2>2, SetFields
  <2>4. Y3 \in TurbineType
    <3>1. n + 1 \in Nat
      OBVIOUS
    <3> QED BY <2>3, <3>1, SetFields
  <2>5. Y = Y3
    BY DEF AdvanceToNextTimeStep_T, TurbineType
  <2> QED BY <2>4, <2>5
<1>4. Y.State["CURR"] = p /\ \A i \in StateIndex \ {"CURR"} : Y.State[i] = X.State[i]
  BY <1>1 DEF TurbineType, StateIndex
<1> HIDE DEF Y
<1>5. \A j \in Slots : Y.InputTimes[j] = n + 1 + 1 - j
  <2>1. \A j \in Slots : X.InputTimes[j] = n + 2 - j
    BY DEF Predicted, Guessed, Clean
  <2> QED BY <1>1, <2>1, SlotFacts
<1>6. ASSUME NEW j \in Slots
      PROVE  Y.Input[j] = FinalInput(Past(p, n + 1 + 1 - j))
  <2>1. CASE j = 1
    <3>1. Past(p, n + 1) = p
      BY <1>2, WholePast
    <3> QED BY <1>1, <2>1, <3>1 DEF Predicted
  <2>2. CASE j /= 1
    <3>1. n + 2 - j = n + 1 + 1 - j /\ n + 2 - j \in Int /\ n + 2 - j <= n
      BY <2>2, SlotFacts
    <3>2. X.Input[j] = FinalInput(Past(h, n + 2 - j))
      BY <2>2 DEF Predicted, Guessed, Clean
    <3>3. Past(h, n + 2 - j) = Past(p, n + 2 - j)
      BY <1>2, <3>1, PastOfPast
    <3> QED BY <1>1, <3>1, <3>2, <3>3
  <2> QED BY <2>1, <2>2
<1>7. Ready(Y, n + 1, tc)
  BY <1>1, <1>2, <1>4, <1>5, <1>6 DEF Ready, Curr, Predicted
<1>8. Sound(Y, max, kept)
  <2>1. \A i \in StateIndex : Y.State[i] = X.State[i] \/ Y.State[i] = X.State["PRED"]
    BY <1>4
  <2> QED BY <2>1 DEF Sound, StateIndex
<1>9. ASSUME NEW m \in Nat, Stored(X, m) PROVE Stored(Y, m)
  BY <1>1, <1>4, <1>9 DEF Stored, StateIndex
<1> QED BY <1>3, <1>7, <1>8, <1>9 DEF Y

\* Store keeps inputs and states of a turbine between two steps.
LEMMA StoreStores ==
  ASSUME NEW X \in TurbineType, NEW kept \in BOOLEAN, NEW max \in Nat, Sound(X, max, kept)
  PROVE  LET Y == Store_SubStep_T(X) IN
         /\ Y \in TurbineType /\ Sound(Y, max, kept)
         /\ \A n \in Nat, tc \in BOOLEAN : Ready(X, n, tc) => Ready(Y, n, tc) /\ Stored(Y, n)
<1> DEFINE Y == Store_SubStep_T(X)
           h == X.State["CURR"]
           I == [j \in AllSlots |-> IF j < 0 THEN X.Input[-j] ELSE X.Input[j]]
           S == [X.State EXCEPT !["SAVED_CURR"] = h, !["SAVED_PRED"] = X.State["PRED"]]
<1>1. /\ Y.t_global = X.t_global /\ Y.InputTimes = X.InputTimes
      /\ Y.StateCurr = X.StateCurr /\ Y.StatePred = X.StatePred
      /\ Y.Input = I /\ Y.State = S
  BY DEF Store_SubStep_T, TurbineType
<1>2. I \in [AllSlots -> InputType] /\ S \in [StateIndex -> Trajectory]
  BY SlotFacts DEF TurbineType, StateIndex
<1>3. ASSUME NEW j \in Slots PROVE I[j] = X.Input[j] /\ I[-j] = X.Input[j]
  <2>1. j \in Nat /\ j > 0 /\ j \in AllSlots /\ -j \in AllSlots /\ -(-j) = j
    BY SlotFacts
  <2> QED BY <2>1
<1>4. /\ S["CURR"] = h /\ S["SAVED_CURR"] = h
      /\ \A i \in StateIndex : S[i] = X.State[i] \/ S[i] = h \/ S[i] = X.State["PRED"]
  BY DEF TurbineType, StateIndex
<1>5. Y \in TurbineType
  <2> DEFINE Y1 == [X EXCEPT !.Input = I]
             Y2 == [Y1 EXCEPT !.State = S]
  <2>1. Y1 \in TurbineType
    BY <1>2, SetFields
  <2>2. Y2 \in TurbineType
    BY <1>2, <2>1, SetFields
  <2>3. Y = Y2
    BY DEF Store_SubStep_T, TurbineType
  <2> QED BY <2>2, <2>3
<1> HIDE DEF Y, I, S
<1>6. Sound(Y, max, kept)
  BY <1>1, <1>4 DEF Sound, StateIndex
<1>7. ASSUME NEW n \in Nat, NEW tc \in BOOLEAN, Ready(X, n, tc)
      PROVE  Ready(Y, n, tc) /\ Stored(Y, n)
  <2>1. Ready(Y, n, tc)
    BY <1>1, <1>3, <1>4, <1>7 DEF Ready, Curr
  <2>2. Stored(Y, n)
    BY <1>1, <1>3, <1>4, <1>7 DEF Stored, Ready, Curr
  <2> QED BY <2>1, <2>2
<1> QED BY <1>5, <1>6, <1>7 DEF Y

\* Reset goes back to what is stored; accelerations are not.
LEMMA ResetReady ==
  ASSUME NEW X \in TurbineType, NEW n \in Nat, Stored(X, n),
         NEW kept \in BOOLEAN, NEW max \in Nat, Sound(X, max, kept)
  PROVE  LET Y == Reset_SubStep_T(X, n) IN
         /\ Y \in TurbineType
         /\ Ready(Y, n, FALSE) /\ Sound(Y, max, kept) /\ Stored(Y, n)
<1> DEFINE Y == Reset_SubStep_T(X, n)
           I == [j \in AllSlots |-> IF j > 0 THEN X.Input[-j] ELSE X.Input[j]]
           S == [X.State EXCEPT !["CURR"] = X.State["SAVED_CURR"],
                                !["PRED"] = X.State["SAVED_PRED"]]
           N == [j \in Slots |-> n + 1 - j]
<1>1. /\ Y.t_global = n /\ Y.InputTimes = N
      /\ Y.Input = I /\ Y.State = S
  BY DEF Reset_SubStep_T, TurbineType
<1>2. /\ I \in [AllSlots -> InputType] /\ S \in [StateIndex -> Trajectory]
      /\ N \in [Slots -> Int]
  BY SlotFacts DEF TurbineType, StateIndex
<1>3. \A j \in Slots : I[j] = X.Input[-j] /\ I[-j] = X.Input[-j]
  BY SlotFacts
<1>4. /\ S["CURR"] = X.State["SAVED_CURR"] /\ S["SAVED_CURR"] = X.State["SAVED_CURR"]
      /\ \A i \in StateIndex : \/ S[i] = X.State[i] \/ S[i] = X.State["SAVED_CURR"]
                               \/ S[i] = X.State["SAVED_PRED"]
  BY DEF TurbineType, StateIndex
<1>5. Y \in TurbineType
  <2> DEFINE Y1 == [X EXCEPT !.t_global = n]
             Y2 == [Y1 EXCEPT !.Input = I]
             Y3 == [Y2 EXCEPT !.State = S]
             Y4 == [Y3 EXCEPT !.InputTimes = N]
  <2>1. Y1 \in TurbineType
    BY SetFields
  <2>2. Y2 \in TurbineType
    BY <1>2, <2>1, SetFields
  <2>3. Y3 \in TurbineType
    BY <1>2, <2>2, SetFields
  <2>4. Y4 \in TurbineType
    BY <1>2, <2>3, SetFields
  <2>5. Y = Y4
    BY DEF Reset_SubStep_T, TurbineType
  <2> QED BY <2>4, <2>5
<1>6. \A j \in Slots : N[j] = n + 1 - j
  OBVIOUS
<1> HIDE DEF Y, I, S, N
<1>7. Ready(Y, n, FALSE)
  BY <1>1, <1>3, <1>4, <1>6 DEF Ready, Curr, Stored
<1>8. Sound(Y, max, kept)
  BY <1>1, <1>4 DEF Sound, StateIndex
<1>9. Stored(Y, n)
  BY <1>1, <1>3, <1>4 DEF Stored
<1> QED BY <1>5, <1>7, <1>8, <1>9 DEF Y

-----------------------------------------------------------------------------
(* Facts used by several actions.                                          *)

\* The types of a set-up and of the counters.
Scalars ==
    /\ NumTurbines \in Nat \ {0} /\ Turbines = 1..NumTurbines
    /\ c.strong \in BOOLEAN /\ c.tight \in BOOLEAN
    /\ c.nSubsteps \in Nat \ {0} /\ c.nIter \in Nat \ {0} /\ c.restartFreq \in Nat \ {0}
    /\ c.nt_end \in Nat /\ c.n_TMax \in Nat
    /\ Kept \in BOOLEAN /\ Tracked \in BOOLEAN
    /\ Tracked => c.tight
    /\ Kept => Tracked = c.tight
    /\ iTurb \in 1..NumTurbines /\ iSub \in 1..c.nSubsteps
    /\ nt \in 0..c.nt_end /\ pass \in 0..c.nIter /\ firstPass_ \in BOOLEAN
    /\ nt_global \in Nat /\ ntStart \in Nat /\ n_t_global \in Nat

LEMMA SetUp ==
  ASSUME TypeInv
  PROVE  Scalars
<1>1. c \in ConfigType
  BY DriverAssumption DEF TypeInv
<1>2. c.kind \in Seq({"ExtInfw", "ExtLd", "IfW"}) /\ c.kind /= <<>>
  BY <1>1 DEF ConfigType
<1>3. NumTurbines \in Nat \ {0} /\ Turbines = 1..NumTurbines
  BY <1>2, EmptySeq DEF NumTurbines, Turbines
<1> QED BY <1>1, <1>3 DEF TypeInv, ConfigType, Kept, Tracked, Scalars

\* Parts of it, for leaves that need no more.
LEMMA TurbineRange ==
  ASSUME Scalars
  PROVE  /\ NumTurbines \in Nat \ {0} /\ Turbines = 1..NumTurbines
         /\ 1 \in Turbines /\ NumTurbines \in Turbines
         /\ iTurb \in Turbines /\ iTurb \in Nat
  BY DEF Scalars

LEMMA Numbers ==
  ASSUME Scalars
  PROVE  /\ c.nSubsteps \in Nat \ {0} /\ c.nIter \in Nat \ {0} /\ c.restartFreq \in Nat \ {0}
         /\ c.nt_end \in Nat /\ c.n_TMax \in Nat
         /\ nt \in Nat /\ nt <= c.nt_end
         /\ nt_global \in Nat /\ ntStart \in Nat /\ n_t_global \in Nat
  BY DEF Scalars

LEMMA Flags ==
  ASSUME Scalars
  PROVE  Kept \in BOOLEAN /\ Tracked \in BOOLEAN /\ (Kept => Tracked = c.tight)
  BY DEF Scalars

LEMMA ProductNat ==
  ASSUME NEW a \in Nat, NEW b \in Nat
  PROVE  a * b \in Nat
  OBVIOUS

LEMMA AskedNat ==
  ASSUME Scalars
  PROVE  Ahead \in Nat /\ Asked \in Nat
<1>1. c.nSubsteps \in Nat /\ nt_global \in Nat /\ iSub - 1 \in Nat
  BY DEF Scalars
<1>2. Ahead \in {iSub - 1, 0, c.nSubsteps, 1}
  BY DEF Ahead
<1> QED BY <1>1, <1>2 DEF Asked

\* A driver step that Reset may take back is within the simulation, and the
\* library's counter is the number of steps asked for.
LEMMA RepeatsClock ==
  ASSUME TypeInv, CountInv, ClockInv, Orderly, Repeats, nt < c.nt_end,
         InPass \/ pc = "main"
  PROVE  /\ n_t_global = Asked /\ nt_global + c.nSubsteps <= c.n_TMax
         /\ InStep => n_t_global < c.n_TMax
<1> DEFINE S == c.nSubsteps
<1>1. /\ S \in Nat \ {0} /\ nt \in Nat /\ c.nt_end \in Nat /\ c.n_TMax \in Nat
      /\ iSub \in 1..S /\ nt_global \in Nat
  BY SetUp DEF TypeInv, Scalars
<1>2. \A a, b \in Nat : a < b => (a + 1) * S <= b * S /\ (a + 1) * S = a * S + S
  BY <1>1
<1>3. nt_global = nt * S
  BY DEF CountInv, Repeats
<1> HIDE DEF S
<1>4. (nt + 1) * S <= c.nt_end * S /\ (nt + 1) * S = nt * S + S /\ nt * S \in Nat
  BY <1>1, <1>2
<1>5. c.nt_end * S \in Nat /\ c.nt_end * S <= c.n_TMax
  BY <1>1 DEF Orderly, TakenBackPastEnd, Repeats, S
<1>6. nt_global + S <= c.n_TMax
  BY <1>1, <1>3, <1>4, <1>5
<1>7. ~Gone /\ Stepping /\ c.strong
  BY DEF InPass, Gone, Stepping, Repeats
<1>8. CASE InStep
  <2>1. Asked = nt_global + (iSub - 1)
    BY <1>7, <1>8 DEF Asked, Ahead
  <2>2. Asked < c.n_TMax
    BY <1>1, <1>6, <2>1
  <2> QED BY <1>6, <1>7, <2>2 DEF ClockInv, S
<1>9. CASE ~InStep
  <2>1. Asked = nt_global + S \/ Asked = nt_global
    BY <1>1, <1>7, <1>9 DEF Asked, Ahead, S
  <2>2. Asked <= c.n_TMax /\ Asked \in Nat /\ ~Midway
    BY <1>1, <1>6, <1>7, <1>9, <2>1 DEF Midway
  <2> QED BY <1>1, <1>6, <1>7, <1>9, <2>2 DEF ClockInv, S
<1> QED BY <1>8, <1>9

\* Most steps leave the restart files, the driver steps done and their
\* samples alone, and are not taken while files are written.
Apart ==
    /\ c' = c /\ chk' = chk /\ rst' = rst /\ ntStart' = ntStart /\ nt_global' = nt_global
    /\ nt' = nt /\ winds' = winds /\ inflowType' = inflowType
    /\ \A t \in Turbines : \A s \in {"NM2", "NM1", "N"} : vel'[t][s] = vel[t][s]
    /\ ~Gone /\ ~Filing'
    /\ c.strong => /\ pc' = "endstep" => pc = "endoutput"
                   /\ Gone' \/ pc' = "endstep" \/ ~After
    /\ pc \in {"checkpoint", "record"} => pc' = "down" /\ c.crash = "any"
    /\ pc' = "ended" => pc = "main"
    /\ InPass' => \/ Sampled /\ vel' = vel /\ pass' = pass /\ life' = life
                  \/ \A t \in Turbines : vel'[t]["NP1"] = ThisPass'

LEMMA ApartKeeps ==
  ASSUME Orderly, IInv, Apart
  PROVE  FileInv' /\ SyncInv' /\ LossInv' /\ HistoryInv' /\ SampleInv'
<1> USE DEF IInv
<1>1. /\ Turbines' = Turbines /\ NumTurbines' = NumTurbines
      /\ Tracked' = Tracked /\ Kept' = Kept
      /\ \A t : Saves(t)' = Saves(t) /\ LastRecord(t)' = LastRecord(t)
                /\ (rst[t] /= <<>>)' = (rst[t] /= <<>>)
  BY DEF Apart, Turbines, NumTurbines, Tracked, Kept, Repeats, Saves, LastRecord
<1>2. FileInv'
  <2>1. \A t \in Turbines : \A s \in chk[t] :
           /\ s.n <= c.n_TMax + 1 /\ Sound(s.T, c.n_TMax, Kept)
           /\ s.n <= c.n_TMax => Ready(s.T, s.n, Tracked)
    BY DEF FileInv
  <2>2. (~Gone => nt_global >= ntStart /\ (Filing => nt_global > ntStart))'
    BY DEF FileInv, Apart
  <2>3. pc' /= "record"
    BY DEF Apart, Filing
  <2> QED BY <1>1, <2>1, <2>2, <2>3 DEF FileInv, Apart
<1>3. SyncInv'
  <2>1. CASE pc \in {"checkpoint", "record"}
    <3>1. NumTurbines = 1 /\ Turbines = {1}
      <4>1. ~(NumTurbines > 1)
        BY <2>1 DEF Apart, Orderly, Together
      <4> QED BY <4>1, SetUp, TurbineRange
    <3> QED BY <1>1, <2>1, <3>1 DEF SyncInv, Apart, Writing
  <2>2. CASE pc \notin {"checkpoint", "record"}
    BY <1>1, <2>2 DEF SyncInv, Apart, Writing, Filing
  <2> QED BY <2>1, <2>2
<1>4. LossInv'
  <2>1. c.strong => \A t \in Turbines : Written(t)' => Written(t)
    BY DEF Written, Apart, Filing
  <2> QED BY <1>1, <2>1 DEF LossInv, Apart
<1>5. HistoryInv'
  <2>1. c.strong /\ pc' /= "down" => (After' <=> After)
    BY DEF Apart, After, Filing, Gone
  <2>2. \A t \in Turbines : Exchanges(t)' = Exchanges(t)
    BY DEF Exchanges, Apart
  <2>3. \A k : WindAt(k)' = WindAt(k)
    BY DEF WindAt, Apart
  <2>4. ASSUME NEW t \in Turbines, NEW k, History(vel[t], k)
        PROVE  History(vel[t], k)'
    BY <2>3, <2>4 DEF History, Apart
  <2>5. \A t \in Turbines : \A k : History(LastRecord(t).vel, k)' = History(LastRecord(t).vel, k)
    BY <1>1, <2>3 DEF History
  <2>6. pc /= "down"
    BY DEF Apart, Gone
  <2> QED BY <1>1, <2>1, <2>2, <2>4, <2>5, <2>6 DEF HistoryInv, Apart
<1>6. SampleInv'
  BY <1>1 DEF Apart, SampleInv, Sampled, ThisPass
<1> QED BY <1>2, <1>3, <1>4, <1>5, <1>6

\* What is sent to the turbines is wind.
LEMMA SendType ==
  ASSUME TypeInv, NEW k \in Nat, SendData(k)
  PROVE  ext' \in [Turbines -> Seen]
<1>1. \A t \in Turbines : vel[t]["N"] \in Sample /\ vel[t]["NP1"] \in Sample /\ ext[t] \in Seen
  BY DEF TypeInv, States
<1>2. c.nSubsteps \in Nat
  BY SetUp DEF Scalars
<1>3. \A t \in Turbines : Blend(vel[t]["N"], vel[t]["NP1"], k, c.nSubsteps) \in Seen
  BY <1>1, <1>2 DEF Blend, Seen
<1> QED BY <1>1, <1>3 DEF SendData

\* The set-up stays what it is.
LEMMA SameSetUp ==
  ASSUME c' = c
  PROVE  /\ Turbines' = Turbines /\ NumTurbines' = NumTurbines
         /\ Tracked' = Tracked /\ Kept' = Kept /\ (Orderly <=> Orderly')
         /\ (Stepping' <=> Stepping) /\ (Repeats' <=> Repeats)
  BY DEF Turbines, NumTurbines, Tracked, Kept, Repeats, Orderly, Together, TakenBackPastEnd,
         Stepping

\* A turbine that moves or not is at the stage of its place.
LEMMA TurbinesStay ==
  ASSUME IInv, c' = c, T' = T, n_t_global' = n_t_global, pc' /= "reset",
         Gone' \/ (pc /= "reset" /\ ~Gone),
         \A t \in Turbines :
            \/ Gone' \/ Stage(t)' = Stage(t)
            \/ Stage(t) = "predicted" /\ Stage(t)' = "guessed"
  PROVE  TurbineInv' /\ SoundInv'
<1>1. Turbines' = Turbines /\ Tracked' = Tracked /\ Kept' = Kept
  BY SameSetUp
<1>2. ASSUME NEW t \in Turbines, ~Gone', AtStage(T[t], Stage(t), n_t_global)
      PROVE  AtStage(T[t], Stage(t), n_t_global)'
  BY <1>1, <1>2 DEF AtStage, Predicted
<1>3. TurbineInv'
  BY <1>1, <1>2 DEF IInv, TurbineInv
<1>4. SoundInv'
  BY <1>1 DEF IInv, SoundInv
<1> QED BY <1>3, <1>4

\* Between calls turbines are ready, up to the end of the simulation.
LEMMA ReadyThen ==
  ASSUME IInv, ~Gone, pc /= "reset", NEW t \in Turbines, Stage(t) = "ready",
         n_t_global <= c.n_TMax
  PROVE  Ready(T[t], n_t_global, Tracked)
<1>1. Scalars
  BY SetUp DEF IInv
<1>2. n_t_global < c.n_TMax \/ n_t_global = c.n_TMax
  BY <1>1, Numbers
<1> QED BY <1>2 DEF IInv, TurbineInv, AtStage

-----------------------------------------------------------------------------
(* The driver's own steps.                                                 *)

\* The clocks and the turbines do not move.
LEMMA ClockStays ==
  ASSUME ClockInv, c' = c, n_t_global' = n_t_global,
         Gone' \/ (~Gone /\ Asked' = Asked /\ (Midway => Midway'))
  PROVE  ClockInv'
  BY DEF ClockInv

LEMMA Solution0Keeps ==
  ASSUME Orderly, IInv, Solution0
  PROVE  IInv'
<1> TypeInv /\ CountInv /\ ClockInv /\ StoredInv /\ Scalars
  BY SetUp DEF IInv
<1>1. c' = c /\ pc = "solution0" /\ pc' = "main" /\ SendData(c.nSubsteps)
      /\ UNCHANGED <<iTurb, iSub, driver, n_t_global, T, files, winds, life>>
  BY DEF Solution0
<1> USE DEF driver, files
<1>2. TypeInv'
  BY <1>1, SendType, SameSetUp DEF TypeInv, Places, Scalars
<1>3. CountInv'
  BY <1>1 DEF CountInv, InPass, After, Filing, Calls, Gone
<1>4. ~Repeated /\ ~Repeated' /\ ~InStep /\ ~InStep' /\ ~Gone /\ ~Gone'
  BY <1>1 DEF CountInv, Repeated, InStep, Gone
<1>5. ClockInv'
  <2>1. Asked = nt_global /\ Asked' = nt_global
    BY <1>1, <1>4, Numbers DEF Asked, Ahead
  <2>2. ~Midway
    BY <1>1, <1>4 DEF Midway
  <2> QED BY <1>1, <1>4, <2>1, <2>2, ClockStays
<1>6. TurbineInv' /\ SoundInv'
  <2>1. \A t \in Turbines : Stage(t) = "ready" /\ Stage(t)' = "ready"
    BY <1>1, <1>4 DEF Stage
  <2> QED BY <1>1, <1>4, <2>1, TurbinesStay
<1>7. StoredInv'
  BY <1>1, <1>4 DEF StoredInv
<1>8. Apart
  BY <1>1, <1>4 DEF InPass, Apart, After, Filing, Gone
<1> QED BY <1>2, <1>3, <1>5, <1>6, <1>7, <1>8, ApartKeeps DEF IInv

LEMMA StartPassKeeps ==
  ASSUME Orderly, IInv, StartPass
  PROVE  IInv'
<1> TypeInv /\ CountInv /\ ClockInv /\ TurbineInv /\ StoredInv /\ SoundInv /\ Scalars
  BY SetUp DEF IInv
<1>1. /\ c' = c /\ pc = "main" /\ nt < c.nt_end /\ pass' = pass + 1
      /\ iTurb' = 1 /\ iSub' = 1
      /\ vel' = [t \in Turbines |-> [vel[t] EXCEPT !["NP1"] =
                    [step |-> nt + 1, pass |-> pass + 1, life |-> life]]]
      /\ UNCHANGED <<nt, firstPass_, nt_global, ntStart, inflowType, n_t_global, T, ext,
                     chk, rst, winds, life>>
  BY DEF StartPass, library, files
<1>2. /\ ~c.strong => pc' = IF c.nSubsteps = 1 THEN "endstep" ELSE "prework"
      /\ c.strong => pc' = IF c.nSubsteps = 1 THEN IF firstPass_ THEN "prework" ELSE "update"
                           ELSE IF firstPass_ THEN "store" ELSE "reset"
  BY DEF StartPass
<1>3. /\ pass < c.nIter /\ (firstPass_ <=> pass = 0) /\ ~Gone /\ ~Gone'
      /\ pc' \in {"prework", "update", "store", "reset", "endstep"}
      /\ ~c.strong => firstPass_
      /\ pc' = "endstep" => ~c.strong /\ c.nSubsteps = 1
  BY <1>1, <1>2 DEF CountInv, Gone, Scalars
<1>4. TypeInv'
  <2>1. vel' \in [Turbines -> [States -> Sample]]
    <3>1. [step |-> nt + 1, pass |-> pass + 1, life |-> life] \in Sample
      BY DriverAssumption DEF TypeInv, Sample, Scalars
    <3>2. \A t \in Turbines : vel[t] \in [States -> Sample]
      BY DEF TypeInv
    <3> QED BY <1>1, <3>1, <3>2
  <2>2. pc' \in Places
    BY <1>3 DEF Places
  <2>3. /\ iTurb' \in Turbines /\ iSub' \in 1..c.nSubsteps /\ pass' \in 0..c.nIter
        /\ Turbines' = Turbines
    <3>1. 1 \in Turbines /\ 1 \in 1..c.nSubsteps
      BY TurbineRange, Numbers
    <3>2. pass + 1 \in 0..c.nIter
      BY <1>3 DEF Scalars
    <3> QED BY <1>1, <3>1, <3>2, SameSetUp
  <2> QED BY <1>1, <2>1, <2>2, <2>3 DEF TypeInv
<1>5. CountInv'
  <2>1. /\ nt' * c'.nSubsteps = nt * c.nSubsteps /\ n_t_global' <= c'.n_TMax + 1
        /\ c.strong => nt_global' = nt' * c'.nSubsteps
        /\ ~c.strong => nt_global' <= nt * c.nSubsteps
    BY <1>1, <1>3 DEF CountInv, Calls, InPass, After, Filing, Scalars
  <2>2. /\ pc' \in {"main", "solution0"} => FALSE
        /\ c.strong => ~After'
        /\ pc' = "endstep" => firstPass_'
    BY <1>1, <1>3 DEF After, Filing
  <2>3. pass' >= 1
    BY <1>1 DEF Scalars
  <2>4. ~c.strong => nt_global' <= nt' * c'.nSubsteps + Calls'
    <3>1. ~c.strong => Calls' \in {0, 1}
      BY <1>1, <1>3 DEF Calls, InPass, After, Filing
    <3>2. nt * c.nSubsteps \in Nat /\ nt_global \in Nat
      BY Numbers, ProductNat
    <3> QED BY <1>1, <2>1, <3>1, <3>2
  <2>5. /\ pc' = "store" => c'.nSubsteps > 1 /\ iSub' = 1
        /\ pc' = "reset" => c'.nSubsteps > 1 /\ iSub' = 1 /\ pass' >= 2
        /\ ~c.strong => pc' \notin {"store", "reset", "passdone"}
    BY <1>1, <1>2, <1>3 DEF Scalars
  <2>6. pc' \notin {"passdone", "output", "endoutput"}
    BY <1>3
  <2> QED BY <1>1, <1>3, <2>1, <2>2, <2>3, <2>4, <2>5, <2>6 DEF CountInv
<1>6. ClockInv'
  <2>1. Asked' = Asked
    <3>1. CASE firstPass_
      BY <1>1, <1>2, <1>3, <3>1 DEF Asked, Ahead, InStep, Repeated, Stepping, Scalars
    <3>2. CASE ~firstPass_
      BY <1>1, <1>2, <1>3, <3>2 DEF Asked, Ahead, InStep, Repeated, Stepping, Scalars
    <3> QED BY <3>1, <3>2
  <2>2. Midway => Midway'
    BY <1>1, <1>2, <1>3 DEF Midway, InStep, Repeated, Stepping, Scalars
  <2> QED BY <1>1, <1>3, <2>1, <2>2, ClockStays
<1>7. TurbineInv' /\ SoundInv'
  <2>1. CASE pc' /= "reset"
    <3>1. ASSUME NEW t \in Turbines
          PROVE  \/ Stage(t)' = Stage(t)
                 \/ Stage(t) = "predicted" /\ Stage(t)' = "guessed"
      <4>1. t >= 1 /\ ~(t < iTurb')
        BY <1>1, TurbineRange
      <4>2. CASE firstPass_
        <5>1. Stage(t) = "ready"
          BY <1>1, <4>2 DEF Stage, InStep, Repeated
        <5>2. pc' \in {"prework", "store", "endstep"} /\ (pc' = "store" => Stepping)
          BY <1>2, <2>1, <4>2 DEF Stepping, Scalars
        <5>3. Stage(t)' = "ready"
          BY <1>1, <4>1, <5>2, SameSetUp DEF Stage, InStep, Repeated
        <5> QED BY <5>1, <5>3
      <4>3. CASE ~firstPass_
        <5>1. ~Stepping /\ pc' = "update"
          BY <1>2, <1>3, <2>1, <4>3 DEF Stepping, Scalars
        <5>2. Stage(t) = "predicted"
          BY <1>1, <4>3, <5>1 DEF Stage, InStep, Repeated
        <5>3. Stage(t)' = "guessed"
          BY <1>1, <4>1, <5>1, SameSetUp DEF Stage, InStep
        <5> QED BY <5>2, <5>3
      <4> QED BY <4>2, <4>3
    <3> QED BY <1>1, <1>3, <2>1, <3>1, TurbinesStay
  <2>2. CASE pc' = "reset"
    <3>1. c.strong /\ c.nSubsteps > 1 /\ ~firstPass_ /\ Stepping
      BY <1>2, <1>3, <2>2 DEF Stepping, Scalars
    <3>2. pass >= 1 /\ Repeats
      BY <1>3, <3>1 DEF Repeats, Scalars
    <3>3. n_t_global <= c.n_TMax
      <4>1. Asked = nt_global + c.nSubsteps
        BY <1>1, <3>1 DEF Asked, Ahead, InStep, Repeated
      <4> QED BY <1>1, <3>2, <4>1, RepeatsClock
    <3>4. \A t \in Turbines : Ready(T[t], n_t_global, Tracked)
      <4>1. \A t \in Turbines : Stage(t) = "ready"
        BY <1>1, <3>1 DEF Stage, InStep
      <4> QED BY <1>1, <1>3, <3>3, <4>1, ReadyThen
    <3>5. \A t \in Turbines : ~(t < iTurb')
      BY <1>1, TurbineRange
    <3>6. TurbineInv'
      BY <1>1, <1>3, <2>2, <3>4, <3>5, SameSetUp DEF TurbineInv
    <3> QED BY <1>1, <3>6, SameSetUp DEF SoundInv
  <2> QED BY <2>1, <2>2
<1>8. StoredInv'
  <2>1. SUFFICES ASSUME Repeats, NEW t \in Turbines
                 PROVE  /\ pc' = "store" /\ t < iTurb' => Stored(T[t], nt_global)
                        /\ InStep' \/ pc' = "reset" => Stored(T[t], nt_global)
    BY <1>1, <1>3, SameSetUp DEF StoredInv, Repeated
  <2>2. ~(t < iTurb')
    BY <1>1, TurbineRange
  <2>3. InStep' \/ pc' = "reset" => Repeated
    BY <1>1, <1>2, <2>1 DEF Repeats, Repeated, InStep, Scalars
  <2> QED BY <2>1, <2>2, <2>3 DEF StoredInv
<1>9. Apart
  <2>1. \A t \in Turbines : vel'[t]["NP1"] = ThisPass'
    <3>1. \A t \in Turbines : vel[t] \in [States -> Sample]
      BY DEF TypeInv
    <3>2. ThisPass' = [step |-> nt + 1, pass |-> pass + 1, life |-> life]
      BY <1>1 DEF ThisPass
    <3> QED BY <1>1, <3>1, <3>2 DEF States
  <2>2. \A t \in Turbines : \A s \in {"NM2", "NM1", "N"} : vel'[t][s] = vel[t][s]
    BY <1>1 DEF TypeInv, States
  <2> QED BY <1>1, <1>3, <2>1, <2>2 DEF InPass, Apart, After, Filing, Gone
<1> QED BY <1>4, <1>5, <1>6, <1>7, <1>8, <1>9, ApartKeeps DEF IInv

LEMMA PassDoneKeeps ==
  ASSUME Orderly, IInv, PassDone
  PROVE  IInv'
<1> TypeInv /\ CountInv /\ ClockInv /\ StoredInv /\ Scalars
  BY SetUp DEF IInv
<1>1. /\ c' = c /\ pc = "passdone" /\ firstPass_' = FALSE
      /\ UNCHANGED <<iTurb, iSub, nt, pass, nt_global, ntStart, inflowType, vel,
                     n_t_global, T, ext, chk, rst, winds, life>>
      /\ pc' = IF pass < c.nIter THEN "main" ELSE IF Stepping THEN "output" ELSE "advance"
  BY DEF PassDone, library, files
<1>2. /\ iTurb = 1 /\ pass >= 1 /\ nt < c.nt_end /\ c.strong
      /\ nt_global = nt * c.nSubsteps /\ ~Gone /\ ~Gone' /\ ~InStep
      /\ pc' \in {"main", "output", "advance"}
  BY <1>1 DEF CountInv, InPass, Gone, InStep
<1>3. TypeInv'
  BY <1>1, <1>2, SameSetUp DEF TypeInv, Places
<1>4. CountInv'
  <2>1. nt' * c'.nSubsteps = nt * c.nSubsteps /\ n_t_global' <= c'.n_TMax + 1
    BY <1>1 DEF CountInv
  <2>2. ~After' /\ pc' \notin {"solution0", "store", "reset"} /\ c'.strong
    BY <1>1, <1>2 DEF After, Filing
  <2>3. pc' = "main" => pass' < c'.nIter /\ (firstPass_' <=> pass' = 0)
    BY <1>1, <1>2 DEF Scalars
  <2> QED BY <1>1, <1>2, <2>1, <2>2, <2>3 DEF CountInv, Filing
<1>5. ClockInv'
  <2>1. Asked' = Asked
    <3>1. CASE Stepping
      BY <1>1, <1>2, <3>1, SameSetUp DEF Asked, Ahead, InStep, Repeated
    <3>2. CASE ~Stepping
      <4>1. c.nSubsteps = 1 /\ iSub = 1
        BY <1>2, <3>2 DEF Stepping, Scalars
      <4> QED BY <1>1, <1>2, <3>2, <4>1, SameSetUp DEF Asked, Ahead, InStep, Repeated
    <3> QED BY <3>1, <3>2
  <2>2. Midway => Midway'
    BY <1>1, <1>2, SameSetUp DEF Midway, InStep, Repeated
  <2> QED BY <1>1, <1>2, <2>1, <2>2, ClockStays
<1>6. TurbineInv' /\ SoundInv'
  <2>1. ASSUME NEW t \in Turbines PROVE Stage(t)' = Stage(t)
    <3>1. ~(t < iTurb)
      BY <1>2, TurbineRange
    <3> QED BY <1>1, <1>2, <3>1, SameSetUp DEF Stage, InStep, Repeated
  <2> QED BY <1>1, <1>2, <2>1, TurbinesStay
<1>7. StoredInv'
  BY <1>1, <1>2, SameSetUp DEF StoredInv
<1>8. Apart
  BY <1>1, <1>2 DEF InPass, Apart, After, Filing, Gone, Sampled
<1> QED BY <1>3, <1>4, <1>5, <1>6, <1>7, <1>8, ApartKeeps DEF IInv

\* In the classic mode the next call of step() may follow.
LEMMA EndOutputKeeps ==
  ASSUME Orderly, IInv, EndOutput
  PROVE  IInv'
<1> TypeInv /\ CountInv /\ ClockInv /\ StoredInv /\ Scalars
  BY SetUp DEF IInv
<1>1. /\ c' = c /\ pc = "endoutput"
      /\ UNCHANGED <<iTurb, driver, library, files, winds, life>>
      /\ \/ ~c.strong /\ iSub + 1 < c.nSubsteps /\ iSub' = iSub + 1 /\ pc' = "prework"
         \/ iSub' = iSub /\ pc' = "endstep"
  BY DEF EndOutput
<1> USE DEF driver, library, files
<1>2. iTurb = 1 /\ nt < c.nt_end /\ firstPass_ /\ pass >= 1 /\ ~Gone /\ ~Gone'
  BY <1>1 DEF CountInv, InPass, After, Filing, Gone
<1>3. TypeInv'
  <2>1. iSub' \in 1..c.nSubsteps /\ pc' \in Places
    BY <1>1 DEF Places, Scalars
  <2> QED BY <1>1, <2>1, SameSetUp DEF TypeInv
<1>4. CountInv'
  <2>1. Calls = iSub /\ Calls' = iSub
    BY <1>1 DEF Calls, InPass, After, Filing, Scalars
  <2>2. (nt + 1)' * c'.nSubsteps = (nt + 1) * c.nSubsteps /\ nt' * c'.nSubsteps = nt * c.nSubsteps
    BY <1>1
  <2>3. CASE pc' = "endstep"
    BY <1>1, <1>2, <2>1, <2>2, <2>3 DEF CountInv, InPass, After, Filing
  <2>4. CASE pc' = "prework"
    BY <1>1, <1>2, <2>1, <2>2, <2>4 DEF CountInv, InPass, After, Filing
  <2> QED BY <1>1, <2>3, <2>4
<1>5. ClockInv'
  <2>1. Asked = nt_global /\ Asked' = nt_global /\ ~Midway
    <3>1. ~Repeated /\ ~Repeated' /\ ~InStep
      BY <1>1 DEF Repeated, InStep
    <3>2. Ahead = 0 /\ Ahead' = 0
      BY <1>1, <3>1, SameSetUp DEF Ahead, InStep
    <3> QED BY <1>1, <3>1, <3>2, Numbers DEF Asked, Midway
  <2> QED BY <1>1, <1>2, <2>1, ClockStays
<1>6. TurbineInv' /\ SoundInv'
  <2>1. ASSUME NEW t \in Turbines PROVE Stage(t)' = Stage(t)
    <3>1. ~(t < iTurb)
      BY <1>2, TurbineRange
    <3>2. Stage(t) = "ready"
      BY <1>1, <3>1 DEF Stage, InStep, Repeated
    <3>3. Stage(t)' = "ready"
      BY <1>1, <3>1, SameSetUp DEF Stage, InStep, Repeated
    <3> QED BY <3>2, <3>3
  <2> QED BY <1>1, <1>2, <2>1, TurbinesStay
<1>7. StoredInv'
  BY <1>1, SameSetUp DEF StoredInv, Repeats, InStep, Repeated
<1>8. Apart
  BY <1>1, <1>2 DEF InPass, Apart, After, Filing, Gone, Sampled
<1> QED BY <1>3, <1>4, <1>5, <1>6, <1>7, <1>8, ApartKeeps DEF IInv

LEMMA EndStepKeeps ==
  ASSUME Orderly, IInv, EndStep
  PROVE  IInv'
<1> TypeInv /\ CountInv /\ ClockInv /\ StoredInv /\ FileInv /\ SyncInv /\ LossInv /\ HistoryInv
    /\ SampleInv /\ Scalars
  BY SetUp DEF IInv
<1>1. /\ c' = c /\ pc = "endstep" /\ nt' = nt + 1 /\ pass' = 0 /\ pc' = "main"
      /\ UNCHANGED <<iTurb, iSub, firstPass_, nt_global, ntStart, inflowType, vel, n_t_global,
                     T, ext, chk, rst, winds, life>>
  BY DEF EndStep, library, files
<1>2. /\ After /\ ~After' /\ nt < c.nt_end /\ firstPass_ /\ ~Gone /\ ~Gone'
      /\ c.strong => nt_global = (nt + 1) * c.nSubsteps
  BY <1>1 DEF CountInv, After, Gone, Filing
<1>3. /\ \A t : Saves(t)' = Saves(t) /\ LastRecord(t)' = LastRecord(t)
                /\ WindAt(t)' = WindAt(t)
      /\ \A t \in Turbines : Exchanges(t)' = Exchanges(t)
  BY <1>1 DEF Saves, LastRecord, WindAt, Exchanges
<1>4. TypeInv'
  <2>1. pass' \in 0..c.nIter /\ nt' \in 0..c.nt_end
    BY <1>1, <1>2 DEF Scalars
  <2> QED BY <1>1, <2>1, SameSetUp DEF TypeInv, Places
<1>5. CountInv'
  <2>1. /\ c.strong => nt_global' = nt' * c'.nSubsteps
        /\ n_t_global' <= c'.n_TMax + 1
    BY <1>1, <1>2 DEF CountInv
  <2>2. pass' < c'.nIter /\ (firstPass_' <=> pass' = 0)
    BY <1>1, <1>2 DEF Scalars
  <2>3. ~c.strong => nt_global' <= nt' * c'.nSubsteps + Calls'
    <3>1. ASSUME NEW S \in Nat, NEW a \in Nat PROVE (a + 1) * S = a * S + S
      BY <3>1
    <3>2. Calls = iSub /\ Calls' = 0
      BY <1>1, <1>2 DEF Calls, InPass, After, Filing
    <3>3. ~c.strong => nt_global <= nt * c.nSubsteps + iSub
      BY <1>2, <3>2 DEF CountInv
    <3>4. (nt + 1) * c.nSubsteps = nt * c.nSubsteps + c.nSubsteps /\ nt * c.nSubsteps \in Nat
      BY <3>1, Numbers, ProductNat
    <3>5. iSub <= c.nSubsteps /\ iSub \in Nat
      BY DEF Scalars
    <3> QED BY <1>1, <3>2, <3>3, <3>4, <3>5, Numbers
  <2>4. ~InPass' /\ ~Filing' /\ (c.strong <=> c'.strong)
    BY <1>1 DEF InPass, Filing
  <2> QED BY <1>1, <1>2, <2>1, <2>2, <2>3, <2>4 DEF CountInv
<1>6. ClockInv'
  <2>1. Asked = nt_global /\ Asked' = nt_global /\ ~Midway
    BY <1>1, <1>2, SameSetUp, Numbers DEF Asked, Ahead, InStep, Repeated, Midway
  <2> QED BY <1>1, <1>2, <2>1, ClockStays
<1>7. TurbineInv' /\ SoundInv'
  <2>1. \A t \in Turbines : Stage(t)' = Stage(t)
    BY <1>1, <1>2, SameSetUp DEF Stage, InStep, Repeated
  <2> QED BY <1>1, <1>2, <2>1, TurbinesStay
<1>8. StoredInv'
  BY <1>1, <1>2, SameSetUp DEF StoredInv, InStep, Repeated
<1>9. FileInv'
  <2>1. (~Gone => nt_global >= ntStart /\ (Filing => nt_global > ntStart))'
    BY <1>1, <1>2 DEF FileInv, Filing
  <2> QED BY <1>1, <1>2, <1>3, <2>1, SameSetUp DEF FileInv
<1>10. SyncInv'
  BY <1>1, <1>3, SameSetUp DEF SyncInv, Writing
<1>11. LossInv'
  BY <1>1, <1>3, SameSetUp DEF LossInv, Written
<1>12. HistoryInv'
  BY <1>1, <1>2, <1>3, SameSetUp DEF HistoryInv, History
<1>13. SampleInv'
  BY <1>1 DEF SampleInv, Sampled, InPass, Filing
<1> QED BY <1>4, <1>5, <1>6, <1>7, <1>8, <1>9, <1>10, <1>11, <1>12, <1>13 DEF IInv

\* The end of the program, a failure and a kill change nothing but the place.
LEMMA EndKeeps ==
  ASSUME Orderly, IInv, End \/ ResetFails \/ Stops
  PROVE  IInv'
<1> TypeInv /\ CountInv /\ ClockInv /\ StoredInv /\ Scalars
  BY SetUp DEF IInv
<1>1. /\ c' = c /\ ~Gone /\ Gone'
      /\ pc' = "ended" => pc = "main"
      /\ pc \in {"checkpoint", "record"} => c.crash = "any" /\ pc' = "down"
      /\ UNCHANGED <<iTurb, iSub, driver, library, files, winds, life>>
  BY DEF End, ResetFails, Stops, Gone
<1> USE DEF driver, library, files
<1>2. TypeInv'
  BY <1>1, SameSetUp DEF TypeInv, Places, Gone
<1>3. pc' \in {"ended", "down"}
  BY <1>1 DEF Gone
<1>4. CountInv'
  <2>1. ~InPass' /\ ~After' /\ ~Filing'
    BY <1>3 DEF InPass, After, Filing
  <2>2. ~c.strong /\ pc \in {"store", "reset", "passdone"} => FALSE
    BY DEF CountInv
  <2> QED BY <1>1, <1>3, <2>1, <2>2 DEF CountInv
<1>5. ClockInv'
  BY <1>1, ClockStays
<1>6. TurbineInv' /\ SoundInv'
  BY <1>1, <1>3, TurbinesStay
<1>7. StoredInv'
  BY <1>1, <1>3, SameSetUp DEF StoredInv, InStep, Repeated
<1>8. Apart
  BY <1>1, <1>3 DEF InPass, Apart, Filing, Gone
<1> QED BY <1>2, <1>4, <1>5, <1>6, <1>7, <1>8, ApartKeeps DEF IInv

-----------------------------------------------------------------------------
(* The calls of the library.                                               *)

\* One turbine of several is moved.
LEMMA OneMoves ==
  ASSUME TypeInv, NEW Y \in TurbineType, T' = [T EXCEPT ![iTurb] = Y]
  PROVE  /\ T' \in [Turbines -> TurbineType]
         /\ \A t \in Turbines : T'[t] = IF t = iTurb THEN Y ELSE T[t]
  BY DEF TypeInv

LEMMA StoreKeeps ==
  ASSUME Orderly, IInv, Store
  PROVE  IInv'
<1> TypeInv /\ CountInv /\ ClockInv /\ TurbineInv /\ StoredInv /\ SoundInv /\ Scalars
  BY SetUp DEF IInv
<1> DEFINE m == nt_global
           n == n_t_global
           Y == Store_SubStep_T(T[iTurb])
<1>1. /\ c' = c /\ pc = "store" /\ T' = [T EXCEPT ![iTurb] = Y]
      /\ UNCHANGED <<iSub, driver, n_t_global, ext, files, winds, life>>
      /\ \/ iTurb < NumTurbines /\ iTurb' = iTurb + 1 /\ pc' = "store"
         \/ iTurb = NumTurbines /\ iTurb' = 1 /\ pc' = "prework"
  BY DEF Store, NextTurbine, Scalars
<1> USE DEF driver, files
<1>2. /\ c.strong /\ c.nSubsteps > 1 /\ iSub = 1 /\ Stepping /\ ~Gone /\ ~Gone' /\ pass >= 1
      /\ nt < c.nt_end /\ n <= c.n_TMax + 1
      /\ \A t \in Turbines : Stage(t) = "ready"
  BY <1>1 DEF CountInv, Stepping, Gone, InPass, Stage, InStep
<1>3. \A t \in Turbines : n <= c.n_TMax => Ready(T[t], n, Tracked)
  BY <1>1, <1>2, ReadyThen
<1>4. /\ Y \in TurbineType /\ Sound(Y, c.n_TMax, Kept)
      /\ \A k \in Nat : Ready(T[iTurb], k, Tracked) => Ready(Y, k, Tracked) /\ Stored(Y, k)
  <2>1. /\ T[iTurb] \in TurbineType /\ c.n_TMax \in Nat /\ Kept \in BOOLEAN
        /\ Tracked \in BOOLEAN /\ Sound(T[iTurb], c.n_TMax, Kept)
    BY Flags, Numbers DEF TypeInv, SoundInv
  <2> QED BY <2>1, StoreStores
<1> HIDE DEF Y
<1>5. /\ T' \in [Turbines -> TurbineType]
      /\ \A t \in Turbines : T'[t] = IF t = iTurb THEN Y ELSE T[t]
  BY <1>1, <1>4, OneMoves
<1>6. TypeInv'
  <2>1. iTurb' \in Turbines /\ pc' \in Places
    BY <1>1, TurbineRange DEF Places
  <2> QED BY <1>1, <1>5, <2>1, SameSetUp DEF TypeInv
<1>7. CountInv'
  <2>1. nt' * c'.nSubsteps = nt * c.nSubsteps
    BY <1>1
  <2>2. pc' \in {"store", "prework"}
    BY <1>1
  <2> QED BY <1>1, <1>2, <2>1, <2>2 DEF CountInv, InPass, After, Filing
<1>8. ClockInv'
  <2>1. Asked = nt_global /\ Asked' = nt_global /\ ~Midway
    BY <1>1, <1>2, SameSetUp, Numbers DEF Asked, Ahead, InStep, Repeated, Midway
  <2> QED BY <1>1, <1>2, <2>1, ClockStays
<1>9. TurbineInv'
  <2>1. ASSUME NEW t \in Turbines, n <= c.n_TMax PROVE Ready(T'[t], n, Tracked)
    BY <1>3, <1>4, <1>5, <2>1, Numbers
  <2>2. \A t \in Turbines : Stage(t)' = "ready"
    <3>1. pc' = "prework" => iTurb' = 1
      BY <1>1
    <3>2. \A t \in Turbines : ~(t < 1)
      BY TurbineRange
    <3> QED BY <1>1, <1>2, <3>1, <3>2, SameSetUp DEF Stage, InStep, Repeated
  <2>3. pc' /= "reset"
    BY <1>1
  <2> QED BY <1>1, <2>1, <2>2, <2>3, SameSetUp, Numbers DEF TurbineInv, AtStage
<1>10. StoredInv'
  <2>1. SUFFICES ASSUME Repeats, NEW t \in Turbines, pc' = "prework" \/ t < iTurb'
                 PROVE  Stored(T'[t], m)
    BY <1>1, SameSetUp DEF StoredInv, InStep, Repeated
  <2>2. Asked = m
    BY <1>1, <1>2, Numbers DEF Asked, Ahead, InStep, Repeated
  <2>3. n = m /\ n <= c.n_TMax
    BY <1>1, <1>2, <2>1, <2>2, RepeatsClock, Numbers DEF InPass
  <2>4. t < iTurb \/ t = iTurb
    BY <1>1, <2>1, TurbineRange
  <2>5. CASE t < iTurb
    <3>1. Stored(T[t], m) /\ t /= iTurb
      BY <1>1, <2>1, <2>5, TurbineRange DEF StoredInv
    <3> QED BY <1>5, <3>1
  <2>6. CASE t = iTurb
    BY <1>3, <1>4, <1>5, <2>3, <2>6, Numbers
  <2> QED BY <2>4, <2>5, <2>6
<1>11. SoundInv'
  BY <1>1, <1>4, <1>5, SameSetUp DEF SoundInv
<1>12. Apart
  BY <1>1, <1>2 DEF InPass, Apart, After, Filing, Sampled, Gone
<1> QED BY <1>6, <1>7, <1>8, <1>9, <1>10, <1>11, <1>12, ApartKeeps DEF IInv

LEMMA ResetKeeps ==
  ASSUME Orderly, IInv, Reset
  PROVE  IInv'
<1> TypeInv /\ CountInv /\ ClockInv /\ TurbineInv /\ StoredInv /\ SoundInv /\ Scalars
  BY SetUp DEF IInv
<1> DEFINE m == nt_global
           n == n_t_global
           Y == Reset_SubStep_T(T[iTurb], m)
<1>1. /\ c.strong /\ c.nSubsteps > 1 /\ iSub = 1 /\ pc = "reset" /\ pass >= 2
      /\ nt < c.nt_end /\ Stepping /\ ~Gone
  BY DEF Reset, CountInv, Stepping, Gone, InPass
<1>2. Repeats /\ ~Tracked
  BY <1>1 DEF Tracked, Kept, Repeats, Scalars
<1>3. /\ n = m + c.nSubsteps /\ n <= c.n_TMax /\ n - c.nSubsteps = m /\ m < c.n_TMax
      /\ m \in Nat /\ n \in Nat
  <2>1. Asked = m + c.nSubsteps
    BY <1>1 DEF Asked, Ahead, InStep
  <2>2. n = m + c.nSubsteps /\ n <= c.n_TMax
    BY <1>1, <1>2, <2>1, RepeatsClock DEF InPass
  <2> QED BY <2>2, Numbers
<1>4. /\ c' = c /\ T' = [T EXCEPT ![iTurb] = Y]
      /\ UNCHANGED <<iSub, driver, ext, files, winds, life>>
      /\ \/ /\ iTurb < NumTurbines /\ iTurb' = iTurb + 1 /\ pc' = "reset"
            /\ n_t_global' = n
         \/ /\ iTurb = NumTurbines /\ iTurb' = 1 /\ pc' = "prework"
            /\ n_t_global' = m
  <2>1. T' = [T EXCEPT ![iTurb] = Reset_SubStep_T(T[iTurb], n_t_global - c.nSubsteps)]
    BY DEF Reset
  <2>2. n_t_global' = IF iTurb = NumTurbines THEN n_t_global - c.nSubsteps ELSE n_t_global
    BY DEF Reset, LastTurbine
  <2>3. T' = [T EXCEPT ![iTurb] = Y]
    BY <1>3, <2>1
  <2>4. /\ c' = c /\ UNCHANGED <<iSub, driver, ext, files, winds, life>>
        /\ NextTurbine("prework")
    BY DEF Reset
  <2>5. iTurb < NumTurbines \/ iTurb = NumTurbines
    BY DEF Scalars
  <2> HIDE DEF Y
  <2> QED BY <1>1, <1>3, <2>2, <2>3, <2>4, <2>5 DEF NextTurbine, Scalars
<1> USE DEF driver, files
<1>5. Y \in TurbineType /\ Ready(Y, m, Tracked) /\ Sound(Y, c.n_TMax, Kept) /\ Stored(Y, m)
  <2>1. Y \in TurbineType /\ Ready(Y, m, FALSE) /\ Sound(Y, c.n_TMax, Kept) /\ Stored(Y, m)
    <3>1. /\ T[iTurb] \in TurbineType /\ Stored(T[iTurb], m)
          /\ Sound(T[iTurb], c.n_TMax, Kept)
          /\ m \in Nat /\ c.n_TMax \in Nat /\ Kept \in BOOLEAN
      BY <1>1, <1>2 DEF TypeInv, Scalars, StoredInv, SoundInv
    <3> QED BY <3>1, ResetReady
  <2> QED BY <1>2, <2>1 DEF Ready
<1> HIDE DEF Y
<1>6. /\ T' \in [Turbines -> TurbineType]
      /\ \A t \in Turbines : T'[t] = IF t = iTurb THEN Y ELSE T[t]
  BY <1>4, <1>5, OneMoves
<1>7. TypeInv'
  <2>1. iTurb' \in Turbines /\ n_t_global' \in Nat
    BY <1>3, <1>4, TurbineRange
  <2>2. pc' \in Places
    BY <1>4 DEF Places
  <2> QED BY <1>4, <1>6, <2>1, <2>2, SameSetUp DEF TypeInv
<1>8. CountInv'
  <2>1. nt' * c'.nSubsteps = nt * c.nSubsteps
    BY <1>4
  <2>2. pc' \in {"reset", "prework"} /\ n_t_global' <= c'.n_TMax + 1
    BY <1>3, <1>4, Numbers
  <2> QED BY <1>1, <1>4, <2>1, <2>2 DEF CountInv, InPass, After, Filing
<1>9. ClockInv'
  <2>1. CASE pc' = "reset"
    <3>1. Asked' = Asked /\ ~Midway /\ ~Gone' /\ n_t_global' = n
      BY <1>1, <1>4, <2>1, SameSetUp DEF Asked, Ahead, InStep, Midway, Repeated, Gone
    <3> QED BY <1>1, <1>4, <3>1, ClockStays
  <2>2. CASE pc' = "prework"
    <3>1. Asked' = m /\ n_t_global' = m
      BY <1>1, <1>3, <1>4, <2>2, SameSetUp DEF Asked, Ahead, InStep
    <3> QED BY <1>3, <1>4, <3>1, Numbers DEF ClockInv
  <2> QED BY <1>4, <2>1, <2>2
<1>10. TurbineInv'
  <2>1. \A t \in Turbines : Ready(T[t], IF t < iTurb THEN m ELSE n, Tracked)
    BY <1>1 DEF TurbineInv
  <2>2. \A t \in Turbines : /\ t < iTurb \/ t = iTurb => Ready(T'[t], m, Tracked)
                            /\ t > iTurb => Ready(T'[t], n, Tracked)
    BY <1>5, <1>6, <2>1, TurbineRange
  <2>3. CASE pc' = "reset"
    <3>1. \A t \in Turbines : Ready(T'[t], IF t < iTurb' THEN m ELSE n, Tracked)
      <4>1. \A t \in Turbines : IF t < iTurb' THEN t < iTurb \/ t = iTurb ELSE t > iTurb
        BY <1>4, <2>3, TurbineRange
      <4> QED BY <2>2, <4>1
    <3>2. nt_global' = m /\ n_t_global' = n
      BY <1>4, <2>3
    <3> QED BY <1>4, <2>3, <3>1, <3>2, SameSetUp DEF TurbineInv
  <2>4. CASE pc' = "prework"
    <3>1. \A t \in Turbines : Ready(T'[t], m, Tracked)
      <4>1. \A t \in Turbines : t < iTurb \/ t = iTurb
        BY <1>4, <2>4, TurbineRange
      <4> QED BY <2>2, <4>1
    <3>2. \A t \in Turbines : Stage(t)' = "ready"
      <4>1. iTurb' = 1 /\ \A t \in Turbines : ~(t < 1)
        BY <1>4, <2>4, TurbineRange
      <4> QED BY <1>1, <1>4, <2>4, <4>1, SameSetUp DEF Stage, InStep
    <3>3. n_t_global' = m
      BY <1>4, <2>4
    <3> QED BY <1>3, <1>4, <2>4, <3>1, <3>2, <3>3, SameSetUp, Numbers DEF TurbineInv, AtStage
  <2> QED BY <1>4, <2>3, <2>4
<1>11. StoredInv'
  <2>1. \A t \in Turbines : Stored(T[t], m)
    BY <1>1, <1>2 DEF StoredInv
  <2>2. \A t \in Turbines : Stored(T'[t], m)
    BY <1>5, <1>6, <2>1
  <2>3. nt_global' = m
    BY <1>4
  <2> QED BY <1>4, <2>2, <2>3, SameSetUp DEF StoredInv
<1>12. SoundInv'
  BY <1>4, <1>5, <1>6, SameSetUp DEF SoundInv
<1>13. Apart
  BY <1>1, <1>4 DEF InPass, Apart, After, Filing, Sampled, Gone
<1> QED BY <1>7, <1>8, <1>9, <1>10, <1>11, <1>12, <1>13, ApartKeeps DEF IInv

\* What the calls of a time step, and the loops around them, leave alone.
Called ==
    /\ InStep /\ c' = c
    /\ UNCHANGED <<nt, pass, firstPass_, nt_global, ntStart, inflowType, vel, chk, rst, winds,
                   life>>
    /\ pc' \in {"prework", "update", "advance", "passdone", "output"}
    /\ iTurb' \in Turbines /\ iSub' \in 1..c.nSubsteps
    /\ ~c.strong => iSub' = iSub /\ pc' /= "passdone"
    /\ pc' \in {"passdone", "output"} => iTurb' = 1

LEMMA CalledKeeps ==
  ASSUME Orderly, IInv, Called, T' \in [Turbines -> TurbineType], ext' \in [Turbines -> Seen],
         n_t_global' \in Nat, n_t_global' <= c.n_TMax + 1,
         ClockInv', TurbineInv', StoredInv', SoundInv'
  PROVE  IInv'
<1> TypeInv /\ CountInv /\ Scalars
  BY SetUp DEF IInv
<1>1. TypeInv'
  <2>1. pc' \in Places
    BY DEF Called, Places
  <2> QED BY <2>1, SameSetUp DEF TypeInv, Called
<1>2. InPass /\ InPass' /\ ~After /\ ~After' /\ ~Filing /\ ~Filing' /\ ~Gone /\ ~Gone'
  BY DEF Called, InStep, InPass, After, Filing, Gone
<1>3. CountInv'
  <2>1. /\ nt' = nt /\ c' = c /\ pass' = pass /\ firstPass_' = firstPass_
        /\ nt_global' = nt_global
        /\ nt' * c'.nSubsteps = nt * c.nSubsteps
    BY DEF Called
  <2>2. ~c.strong => Calls' = Calls
    BY <1>2 DEF Calls, Called
  <2>3. pc' \notin {"main", "solution0", "store", "reset"}
    BY DEF Called
  <2>4. /\ nt < c.nt_end /\ pass >= 1
        /\ c.strong => nt_global = nt * c.nSubsteps
        /\ ~c.strong => firstPass_ /\ nt_global <= nt * c.nSubsteps + Calls
    BY <1>2 DEF CountInv, Called, InStep
  <2>5. pc' \in {"passdone", "output", "endoutput"} => iTurb' = 1
    BY DEF Called
  <2>6. c.strong <=> c'.strong
    BY DEF Called
  <2>7. ~c.strong => pc' /= "passdone"
    BY DEF Called
  <2> QED BY <1>2, <2>1, <2>2, <2>3, <2>4, <2>5, <2>6, <2>7 DEF CountInv
<1>4. Apart
  BY <1>2 DEF Apart, Called, InStep, Sampled, Filing
<1> QED BY <1>1, <1>3, <1>4, ApartKeeps DEF IInv

\* Past the end a call does nothing.
LEMMA CallSkipped ==
  ASSUME Orderly, IInv, Called, SkipCall, ext' \in [Turbines -> Seen],
         Asked' \in Nat, Asked' >= Asked, Midway' \/ Asked' > Asked
  PROVE  IInv'
<1> TypeInv /\ CountInv /\ ClockInv /\ TurbineInv /\ SoundInv /\ Scalars
  BY SetUp DEF IInv
<1> DEFINE n == n_t_global
           M == c.n_TMax
<1>1. n \in Nat /\ M \in Nat /\ n >= M
  BY Numbers DEF SkipCall, Finished
<1>2. n_t_global' = n \/ (n = M /\ n_t_global' = M + 1)
  BY DEF SkipCall
<1>3. T' = T /\ c' = c /\ nt < c.nt_end /\ ~Gone /\ ~Gone' /\ InPass /\ pc' /= "reset"
      /\ pc /= "reset" /\ nt_global' = nt_global
  BY DEF SkipCall, Called, CountInv, InStep, InPass, Gone
<1>4. ~Repeats
  BY <1>1, <1>3, RepeatsClock DEF Called
<1>5. Asked \in Nat
  BY AskedNat
<1> HIDE DEF n, M
<1>6. ClockInv'
  <2>1. Asked >= M
    BY <1>1, <1>3, <1>5 DEF ClockInv, n, M
  <2>2. Asked' = M => Midway'
    BY <1>1, <1>5, <2>1
  <2>3. n_t_global' >= M /\ c'.n_TMax = M
    BY <1>1, <1>2, <1>3 DEF M
  <2>4. ~(Asked' < M)
    BY <1>1, <1>5, <2>1
  <2> QED BY <2>2, <2>3, <2>4 DEF ClockInv
<1>7. TurbineInv'
  <2>1. ASSUME n_t_global' = M PROVE \A t \in Turbines : Ready(T[t], M, Tracked)
    <3>1. n = M
      BY <1>1, <1>2, <2>1
    <3> QED BY <1>3, <3>1 DEF TurbineInv, n, M
  <2>2. n_t_global' >= M /\ n_t_global' \in Nat
    BY <1>1, <1>2
  <2>3. ASSUME NEW t \in Turbines
        PROVE  /\ n_t_global' < c'.n_TMax => AtStage(T[t]', Stage(t)', n_t_global')
               /\ n_t_global' = c'.n_TMax => Ready(T'[t], n_t_global', Tracked')
    BY <1>1, <1>3, <2>1, <2>2, SameSetUp DEF M
  <2> QED BY <1>3, <2>1, <2>2, SameSetUp, <1>1 DEF TurbineInv, M
<1>8. StoredInv'
  BY <1>3, <1>4, SameSetUp DEF StoredInv
<1>9. SoundInv'
  BY <1>3, SameSetUp DEF SoundInv
<1>10. n_t_global' \in Nat /\ n_t_global' <= c.n_TMax + 1
  BY <1>1, <1>2 DEF CountInv, n, M
<1>11. T' \in [Turbines -> TurbineType]
  BY <1>3 DEF TypeInv
<1> QED BY <1>6, <1>7, <1>8, <1>9, <1>10, <1>11, CalledKeeps

\* Otherwise it moves one turbine; the last one of a time step moves the
\* library's counter (d = 1).
LEMMA CallDone ==
  ASSUME Orderly, IInv, Called, ~Finished, ext' \in [Turbines -> Seen],
         NEW i \in Turbines, i = iTurb,
         NEW Y \in TurbineType, T' = [T EXCEPT ![i] = Y], Sound(Y, c.n_TMax, Kept),
         \A k \in Nat : Stored(T[i], k) => Stored(Y, k),
         NEW d \in {0, 1}, n_t_global' = n_t_global + d, Asked' = Asked + d,
         Midway' \/ d = 1,
         d = 0 => /\ AtStage(Y, Stage(i)', n_t_global)
                  /\ \A t \in Turbines : t /= i => Stage(t)' = Stage(t),
         d = 1 => /\ Ready(Y, n_t_global + 1, Tracked)
                  /\ \A t \in Turbines : /\ t /= i => Stage(t) = "next"
                                         /\ Stage(t)' = "ready"
  PROVE  IInv'
<1> TypeInv /\ CountInv /\ ClockInv /\ TurbineInv /\ StoredInv /\ SoundInv /\ Scalars
  BY SetUp DEF IInv
<1> DEFINE n == n_t_global
           M == c.n_TMax
<1>1. n \in Nat /\ M \in Nat /\ n < M
  BY Numbers DEF Finished
<1>2. /\ c' = c /\ nt < c.nt_end /\ ~Gone /\ ~Gone' /\ InPass /\ pc' \notin {"store", "reset"}
      /\ pc /= "reset" /\ nt_global' = nt_global
  BY DEF Called, CountInv, InStep, InPass, Gone
<1>3. Asked \in Nat
  BY AskedNat
<1>4. Asked = n /\ Asked' = n + d /\ n + d <= M
  BY <1>1, <1>2, <1>3 DEF ClockInv
<1>5. /\ T' \in [Turbines -> TurbineType]
      /\ \A t \in Turbines : T'[t] = IF t = i THEN Y ELSE T[t]
  BY DEF TypeInv
<1>6. ClockInv'
  BY <1>1, <1>2, <1>4 DEF ClockInv
<1>7. TurbineInv'
  <2>1. CASE d = 0
    <3>1. ASSUME NEW t \in Turbines PROVE AtStage(T'[t], Stage(t)', n)
      <4>1. CASE t = i
        BY <1>5, <2>1, <4>1
      <4>2. CASE t /= i
        <5>1. AtStage(T[t], Stage(t), n)
          BY <1>1, <1>2 DEF TurbineInv
        <5> QED BY <1>5, <2>1, <4>2, <5>1
      <4> QED BY <4>1, <4>2
    <3>2. n_t_global' = n
      BY <1>1, <2>1
    <3>3. ASSUME NEW t \in Turbines PROVE AtStage(T[t], Stage(t), n_t_global)'
      BY <1>2, <3>1, <3>2, SameSetUp DEF AtStage
    <3> QED BY <1>1, <1>2, <3>2, <3>3, SameSetUp DEF TurbineInv
  <2>2. CASE d = 1
    <3>1. ASSUME NEW t \in Turbines PROVE Ready(T'[t], n + 1, Tracked)
      <4>1. CASE t = i
        BY <1>5, <2>2, <4>1
      <4>2. CASE t /= i
        <5>1. AtStage(T[t], "next", n)
          BY <1>1, <1>2, <2>2, <4>2 DEF TurbineInv
        <5> QED BY <1>5, <4>2, <5>1 DEF AtStage
      <4> QED BY <4>1, <4>2
    <3>2. n_t_global' = n + 1
      BY <2>2
    <3>3. ASSUME NEW t \in Turbines PROVE AtStage(T[t], Stage(t), n_t_global)'
      BY <1>2, <2>2, <3>1, <3>2, SameSetUp DEF AtStage
    <3> QED BY <1>2, <3>1, <3>2, <3>3, SameSetUp DEF TurbineInv
  <2> QED BY <2>1, <2>2
<1>8. StoredInv'
  <2>1. ASSUME Repeats, NEW t \in Turbines PROVE Stored(T'[t], nt_global)
    <3>1. Stored(T[t], nt_global) /\ nt_global \in Nat
      BY <2>1, Numbers DEF StoredInv, Called
    <3> QED BY <1>5, <3>1
  <2> QED BY <1>2, <2>1, SameSetUp DEF StoredInv
<1>9. SoundInv'
  BY <1>2, <1>5, SameSetUp DEF SoundInv
<1>10. n_t_global' \in Nat /\ n_t_global' <= c.n_TMax + 1
  BY <1>1
<1> QED BY <1>5, <1>6, <1>7, <1>8, <1>9, <1>10, CalledKeeps

LEMMA PreworkKeeps ==
  ASSUME Orderly, IInv, Prework
  PROVE  IInv'
<1> TypeInv /\ CountInv /\ TurbineInv /\ SoundInv /\ Scalars
  BY SetUp DEF IInv
<1> DEFINE n == n_t_global
           Y == Prework_T(T[iTurb], n)
<1>1. /\ pc = "prework" /\ c' = c
      /\ UNCHANGED <<iSub, driver, ext, files, winds, life>>
      /\ Stepping => iTurb' = iTurb /\ pc' = "update"
      /\ ~Stepping => \/ iTurb < NumTurbines /\ iTurb' = iTurb + 1 /\ pc' = "prework"
                      \/ iTurb = NumTurbines /\ iTurb' = 1 /\ pc' = "update"
  BY DEF Prework, NextTurbine, Scalars
<1> USE DEF driver, files
<1>2. pc' \in {"prework", "update"} /\ InStep /\ InStep' /\ ~Gone /\ iTurb' \in Turbines
  BY <1>1, TurbineRange DEF InStep, Gone
<1>3. Called
  BY <1>1, <1>2 DEF Called, Scalars
<1>4. Asked' = Asked /\ Asked \in Nat /\ Midway'
  BY <1>1, <1>2, AskedNat DEF Asked, Ahead, Midway
<1>5. ext' \in [Turbines -> Seen]
  BY <1>1 DEF TypeInv
<1>6. CASE SkipCall
  BY <1>3, <1>4, <1>5, <1>6, CallSkipped
<1>7. CASE ~Finished /\ T' = [T EXCEPT ![iTurb] = Y] /\ n_t_global' = n
  <2>1. n \in Nat /\ n < c.n_TMax
    BY <1>7, Numbers DEF Finished
  <2>2. PICK i \in Turbines : i = iTurb
    BY TurbineRange
  <2>3. Ready(T[i], n, Tracked) /\ Sound(T[i], c.n_TMax, Kept) /\ T[i] \in TurbineType
    <3>1. Stage(i) = "ready"
      BY <1>1, <2>2, TurbineRange DEF Stage, InStep
    <3> QED BY <1>1, <1>2, <2>1, <3>1 DEF TurbineInv, SoundInv, AtStage, TypeInv
  <2>4. /\ Y \in TurbineType /\ Guessed(Y, n, Tracked) /\ Sound(Y, c.n_TMax, Kept)
        /\ \A k \in Nat : Stored(T[i], k) => Stored(Y, k)
    BY <2>1, <2>2, <2>3, Numbers, Flags, PreworkGuesses
  <2> HIDE DEF Y
  <2>5. AtStage(Y, Stage(i)', n) /\ \A t \in Turbines : t /= i => Stage(t)' = Stage(t)
    <3>1. CASE Stepping
      <4>1. Stage(i)' = "guessed"
        BY <1>1, <2>2, <3>1, SameSetUp, TurbineRange DEF Stage, InStep
      <4>2. ASSUME NEW t \in Turbines, t /= i PROVE Stage(t)' = Stage(t)
        <5>1. t < iTurb \/ t > iTurb
          BY <2>2, <4>2, TurbineRange
        <5> QED BY <1>1, <3>1, <5>1, SameSetUp, TurbineRange DEF Stage, InStep
      <4> QED BY <2>4, <4>1, <4>2 DEF AtStage
    <3>2. CASE ~Stepping
      <4>1. Stage(i)' = "guessed"
        BY <1>1, <2>2, <3>2, SameSetUp, TurbineRange DEF Stage, InStep
      <4>2. ASSUME NEW t \in Turbines, t /= i PROVE Stage(t)' = Stage(t)
        <5>1. t < iTurb \/ t > iTurb
          BY <2>2, <4>2, TurbineRange
        <5>2. CASE pc' = "prework"
          BY <1>1, <3>2, <5>1, <5>2, SameSetUp, TurbineRange DEF Stage
        <5>3. CASE pc' = "update"
          BY <1>1, <3>2, <5>1, <5>3, SameSetUp, TurbineRange DEF Stage
        <5> QED BY <1>2, <5>2, <5>3
      <4> QED BY <2>4, <4>1, <4>2 DEF AtStage
    <3> QED BY <3>1, <3>2
  <2>6. PICK d \in {0, 1} : d = 0
    OBVIOUS
  <2>7. T' = [T EXCEPT ![i] = Y] /\ n_t_global' = n_t_global + d /\ Asked' = Asked + d
    BY <1>4, <1>7, <2>1, <2>2, <2>6
  <2>8. ~(d = 1)
    BY <2>6
  <2> QED BY <1>3, <1>4, <1>5, <1>7, <2>2, <2>4, <2>5, <2>7, <2>8, CallDone
<1> QED BY <1>6, <1>7 DEF Prework

LEMMA UpdateStatesKeeps ==
  ASSUME Orderly, IInv, UpdateStates
  PROVE  IInv'
<1> TypeInv /\ CountInv /\ TurbineInv /\ SoundInv /\ Scalars
  BY SetUp DEF IInv
<1> DEFINE n == n_t_global
           Y == UpdateStates_T(T[iTurb], n, c.tight, ext'[iTurb], ThisPass)
<1>1. /\ pc = "update" /\ c' = c
      /\ SendData(IF c.strong THEN iSub ELSE c.nSubsteps)
      /\ UNCHANGED <<iSub, driver, files, winds, life>>
      /\ Stepping => iTurb' = iTurb /\ pc' = "advance"
      /\ ~Stepping => \/ iTurb < NumTurbines /\ iTurb' = iTurb + 1 /\ pc' = "update"
                      \/ iTurb = NumTurbines /\ iTurb' = 1 /\ pc' = "passdone"
  BY DEF UpdateStates, NextTurbine, Scalars
<1> USE DEF driver, files
<1>2. /\ pc' \in {"update", "advance", "passdone"} /\ InStep /\ ~Gone /\ iTurb' \in Turbines
      /\ ~Stepping => c.strong /\ iSub = 1
  BY <1>1, TurbineRange DEF InStep, Gone, Stepping, Scalars
<1>3. Called
  BY <1>1, <1>2 DEF Called, Scalars, Stepping
<1>4. Asked' = Asked /\ Asked \in Nat /\ Midway'
  <2>1. Asked \in Nat
    BY AskedNat
  <2>2. CASE Stepping
    BY <1>1, <1>2, <2>1, <2>2 DEF Asked, Ahead, Midway, InStep
  <2>3. CASE ~Stepping
    BY <1>1, <1>2, <2>1, <2>3, SameSetUp DEF Asked, Ahead, Midway, InStep
  <2> QED BY <2>1, <2>2, <2>3
<1>5. ext' \in [Turbines -> Seen]
  <2>1. (IF c.strong THEN iSub ELSE c.nSubsteps) \in Nat
    BY DEF Scalars
  <2> QED BY <1>1, <2>1, SendType
<1>6. CASE SkipCall
  BY <1>3, <1>4, <1>5, <1>6, CallSkipped
<1>7. CASE ~Finished /\ T' = [T EXCEPT ![iTurb] = Y] /\ n_t_global' = n
  <2>1. n \in Nat /\ n < c.n_TMax
    BY <1>7, Numbers DEF Finished
  <2>2. PICK i \in Turbines : i = iTurb
    BY TurbineRange
  <2>3. Guessed(T[i], n, Tracked) /\ Sound(T[i], c.n_TMax, Kept) /\ T[i] \in TurbineType
    <3>1. Stage(i) = "guessed"
      BY <1>1, <2>2, TurbineRange DEF Stage, InStep
    <3> QED BY <1>1, <1>2, <2>1, <3>1 DEF TurbineInv, SoundInv, AtStage, TypeInv
  <2>4. /\ Y \in TurbineType /\ Predicted(Y, n, Tracked) /\ Sound(Y, c.n_TMax, Kept)
        /\ \A k \in Nat : Stored(T[i], k) => Stored(Y, k)
    <3>1. ThisPass \in Sample
      BY DriverAssumption DEF TypeInv, ThisPass, Sample, Scalars
    <3>2. ext'[i] \in Seen
      BY <1>5
    <3>3. /\ c.n_TMax \in Nat /\ c.tight \in BOOLEAN
          /\ Tracked \in BOOLEAN /\ Kept \in BOOLEAN
          /\ Tracked => c.tight
          /\ Kept => Tracked = c.tight
      BY DEF Scalars
    <3> HIDE DEF n
    <3>4. PICK v \in Seen : v = ext'[i]
      BY <3>2
    <3>5. Y = UpdateStates_T(T[i], n, c.tight, v, ThisPass)
      BY <2>2, <3>4
    <3> HIDE DEF Y
    <3> QED BY <2>1, <2>3, <3>1, <3>3, <3>5, UpdatePredicts
  <2> HIDE DEF Y
  <2>5. AtStage(Y, Stage(i)', n) /\ \A t \in Turbines : t /= i => Stage(t)' = Stage(t)
    <3>1. CASE Stepping
      <4>1. Stage(i)' = "predicted"
        BY <1>1, <2>2, <3>1, SameSetUp, TurbineRange DEF Stage, InStep
      <4>2. ASSUME NEW t \in Turbines, t /= i PROVE Stage(t)' = Stage(t)
        <5>1. t < iTurb \/ t > iTurb
          BY <2>2, <4>2, TurbineRange
        <5> QED BY <1>1, <3>1, <5>1, SameSetUp, TurbineRange DEF Stage, InStep
      <4> QED BY <2>4, <4>1, <4>2 DEF AtStage
    <3>2. CASE ~Stepping
      <4>1. Stage(i)' = "predicted"
        BY <1>1, <2>2, <3>2, SameSetUp, TurbineRange DEF Stage, InStep
      <4>2. ASSUME NEW t \in Turbines, t /= i PROVE Stage(t)' = Stage(t)
        <5>1. t < iTurb \/ t > iTurb
          BY <2>2, <4>2, TurbineRange
        <5>2. CASE pc' = "update"
          BY <1>1, <3>2, <5>1, <5>2, SameSetUp, TurbineRange DEF Stage
        <5>3. CASE pc' = "passdone"
          BY <1>1, <3>2, <5>1, <5>3, SameSetUp, TurbineRange DEF Stage
        <5> QED BY <1>1, <3>2, <5>2, <5>3
      <4> QED BY <2>4, <4>1, <4>2 DEF AtStage
    <3> QED BY <3>1, <3>2
  <2>6. PICK d \in {0, 1} : d = 0
    OBVIOUS
  <2>7. T' = [T EXCEPT ![i] = Y] /\ n_t_global' = n_t_global + d /\ Asked' = Asked + d
    BY <1>4, <1>7, <2>1, <2>2, <2>6
  <2>8. ~(d = 1)
    BY <2>6
  <2> QED BY <1>3, <1>4, <1>5, <1>7, <2>2, <2>4, <2>5, <2>7, <2>8, CallDone
<1> QED BY <1>6, <1>7 DEF UpdateStates

LEMMA AdvanceKeeps ==
  ASSUME Orderly, IInv, AdvanceToNextTimeStep
  PROVE  IInv'
<1> TypeInv /\ CountInv /\ TurbineInv /\ SoundInv /\ Scalars
  BY SetUp DEF IInv
<1> DEFINE n == n_t_global
           Y == AdvanceToNextTimeStep_T(T[iTurb], n)
           last == iTurb = NumTurbines
<1>1. /\ pc = "advance" /\ c' = c /\ UNCHANGED <<driver, ext, files, winds, life>>
      /\ iTurb' = IF iTurb < NumTurbines THEN iTurb + 1 ELSE 1
      /\ iSub' = IF c.strong /\ last /\ iSub < c.nSubsteps THEN iSub + 1 ELSE iSub
      /\ ~last => pc' = IF Stepping THEN "prework" ELSE "advance"
      /\ last => pc' = IF ~Stepping \/ ~c.strong THEN "output"
                       ELSE IF iSub < c.nSubsteps THEN "prework" ELSE "passdone"
  <2>1. iTurb < NumTurbines <=> ~last
    BY TurbineRange
  <2> QED BY <2>1 DEF AdvanceToNextTimeStep, MoreSubsteps, Stepping
<1>2. \/ SkipCall
      \/ /\ ~Finished /\ T' = [T EXCEPT ![iTurb] = Y]
         /\ n_t_global' = IF last THEN n + 1 ELSE n
  BY DEF AdvanceToNextTimeStep, LastTurbine
<1> USE DEF driver, files
<1>3. /\ InStep /\ ~Gone /\ iTurb' \in Turbines /\ iSub' \in 1..c.nSubsteps
      /\ iTurb \in Nat /\ NumTurbines \in Nat
      /\ ~Stepping => c.strong /\ c.nSubsteps = 1 /\ iSub = 1
      /\ ~last => iTurb' = iTurb + 1 /\ iSub' = iSub /\ iTurb < NumTurbines
      /\ last => iTurb' = 1
  BY <1>1, TurbineRange DEF InStep, Gone, Stepping, Scalars
<1>4. Called
  <2>1. pc' \in {"prework", "advance", "passdone", "output"}
    BY <1>1
  <2>2. pc' \in {"passdone", "output"} => last
    BY <1>1
  <2>3. ~c.strong => iSub' = iSub /\ pc' /= "passdone"
    BY <1>1
  <2> QED BY <1>1, <1>3, <2>1, <2>2, <2>3 DEF Called
<1>5. PICK d \in {0, 1} : d = IF last THEN 1 ELSE 0
  OBVIOUS
<1>6. Asked' = Asked + d /\ Asked \in Nat /\ (Midway' \/ d = 1)
  <2>1. Asked \in Nat /\ nt_global \in Nat /\ iSub \in Nat /\ c.nSubsteps \in Nat
        /\ iSub <= c.nSubsteps /\ iSub >= 1
    BY AskedNat, Numbers DEF Scalars
  <2>2. Ahead = IF c.strong THEN iSub - 1 ELSE 0
    BY <1>3 DEF Ahead
  <2>3. CASE ~last
    <3>1. InStep' /\ Ahead' = Ahead
      BY <1>1, <1>3, <2>2, <2>3 DEF Ahead, InStep
    <3> QED BY <1>1, <1>5, <2>1, <2>3, <3>1 DEF Midway, Asked
  <2>4. CASE last
    <3>1. Ahead' = Ahead + 1
      <4>1. CASE ~c.strong
        BY <1>1, <2>2, <2>4, <4>1 DEF Ahead, InStep
      <4>2. CASE c.strong /\ iSub < c.nSubsteps
        <5>1. Stepping /\ iSub' = iSub + 1 /\ pc' = "prework"
          BY <1>1, <1>3, <2>4, <4>2, <2>1
        <5> QED BY <1>1, <2>1, <2>2, <4>2, <5>1 DEF Ahead, InStep
      <4>3. CASE c.strong /\ iSub = c.nSubsteps
        <5>1. pc' = IF Stepping THEN "passdone" ELSE "output"
          BY <1>1, <2>4, <4>3, <2>1
        <5> QED BY <1>1, <2>1, <2>2, <4>3, <5>1, SameSetUp DEF Ahead, InStep
      <4> QED BY <2>1, <4>1, <4>2, <4>3
    <3> QED BY <1>1, <1>5, <2>1, <2>2, <2>4, <3>1 DEF Asked
  <2> QED BY <2>1, <2>3, <2>4
<1>7. ext' \in [Turbines -> Seen]
  BY <1>1 DEF TypeInv
<1>8. CASE SkipCall
  <2>1. Asked' \in Nat /\ Asked' >= Asked /\ (Midway' \/ Asked' > Asked)
    BY <1>6
  <2> QED BY <1>4, <1>7, <1>8, <2>1, CallSkipped
<1>9. CASE ~Finished /\ T' = [T EXCEPT ![iTurb] = Y] /\ n_t_global' = IF last THEN n + 1 ELSE n
  <2>1. n \in Nat /\ n < c.n_TMax
    BY <1>9, Numbers DEF Finished
  <2>2. PICK i \in Turbines : i = iTurb
    BY TurbineRange
  <2>3. Predicted(T[i], n, Tracked) /\ Sound(T[i], c.n_TMax, Kept) /\ T[i] \in TurbineType
    <3>1. Stage(i) = "predicted"
      BY <1>1, <2>2, TurbineRange DEF Stage, InStep
    <3> QED BY <1>1, <1>3, <2>1, <3>1 DEF TurbineInv, SoundInv, AtStage, TypeInv
  <2>4. /\ Y \in TurbineType /\ Ready(Y, n + 1, Tracked) /\ Sound(Y, c.n_TMax, Kept)
        /\ \A k \in Nat : Stored(T[i], k) => Stored(Y, k)
    BY <2>1, <2>2, <2>3, Numbers, Flags, AdvanceReady
  <2> HIDE DEF Y
  <2>5. ASSUME d = 0
        PROVE  /\ AtStage(Y, Stage(i)', n)
               /\ \A t \in Turbines : t /= i => Stage(t)' = Stage(t)
    <3>1. ~last /\ iTurb' = iTurb + 1 /\ pc' = IF Stepping THEN "prework" ELSE "advance"
      BY <1>1, <1>3, <1>5, <2>5
    <3>2. Stage(i)' = "next"
      BY <1>1, <1>3, <2>2, <3>1, SameSetUp DEF Stage, InStep
    <3>3. ASSUME NEW t \in Turbines, t /= i PROVE Stage(t)' = Stage(t)
      <4>1. \/ t < iTurb /\ t < iTurb + 1
            \/ t > iTurb /\ ~(t < iTurb) /\ ~(t < iTurb + 1)
        BY <2>2, <3>3, TurbineRange
      <4>2. CASE Stepping
        BY <1>1, <3>1, <4>1, <4>2, SameSetUp DEF Stage, InStep
      <4>3. CASE ~Stepping
        BY <1>1, <3>1, <4>1, <4>3, SameSetUp DEF Stage, InStep
      <4> QED BY <4>2, <4>3
    <3> QED BY <2>4, <3>2, <3>3 DEF AtStage
  <2>6. ASSUME d = 1
        PROVE  /\ Ready(Y, n + 1, Tracked)
               /\ \A t \in Turbines : /\ t /= i => Stage(t) = "next"
                                      /\ Stage(t)' = "ready"
    <3>1. last /\ iTurb' = 1 /\ pc' \in {"output", "prework", "passdone"}
          /\ (~Stepping => pc' = "output")
      BY <1>1, <1>3, <1>5, <2>6
    <3>2. ASSUME NEW t \in Turbines PROVE t /= i => Stage(t) = "next"
      <4>1. t /= i => t < iTurb
        BY <2>2, <3>1, TurbineRange
      <4> QED BY <1>1, <4>1 DEF Stage, InStep
    <3>3. ASSUME NEW t \in Turbines PROVE Stage(t)' = "ready"
      <4>1. ~(t < iTurb')
        BY <3>1, TurbineRange
      <4> QED BY <1>1, <3>1, <4>1, SameSetUp DEF Stage, InStep, Repeated
    <3> QED BY <2>4, <3>2, <3>3
  <2>7. T' = [T EXCEPT ![i] = Y] /\ n_t_global' = n_t_global + d
    BY <1>5, <1>9, <2>1, <2>2
  <2> QED BY <1>4, <1>6, <1>7, <1>9, <2>2, <2>4, <2>5, <2>6, <2>7, CallDone
<1> QED BY <1>2, <1>8, <1>9

-----------------------------------------------------------------------------
(* The end of a driver step and the restart files.                         *)

LEMMA OutputKeeps ==
  ASSUME Orderly, IInv, Output
  PROVE  IInv'
<1> TypeInv /\ CountInv /\ ClockInv /\ StoredInv /\ FileInv /\ SyncInv /\ LossInv /\ HistoryInv
    /\ SampleInv /\ Scalars
  BY SetUp DEF IInv
<1> DEFINE m == nt_global
           more == IF c.strong THEN c.nSubsteps ELSE 1
<1>1. /\ c' = c /\ pc = "output" /\ pc' = "checkpoint" /\ iTurb' = 1
      /\ nt_global' = m + more
      /\ c.strong => /\ firstPass_' = TRUE
                     /\ vel' = [t \in Turbines |-> ShiftStates(vel[t])]
                     /\ winds' = Append(winds, ThisPass)
      /\ ~c.strong => UNCHANGED <<vel, winds, firstPass_>>
      /\ UNCHANGED <<iSub, nt, pass, ntStart, inflowType, n_t_global, T, ext, chk, rst, life>>
  BY DEF Output, library, files
<1>2. /\ nt < c.nt_end /\ pass >= 1 /\ more \in Nat \ {0} /\ ~Gone /\ ~Gone'
      /\ InPass /\ ~InPass' /\ ~After /\ After' /\ ~Filing /\ Filing'
      /\ (c.strong => more = c.nSubsteps) /\ (~c.strong => more = 1)
  BY <1>1, Numbers DEF CountInv, InPass, After, Filing, Gone
<1> HIDE DEF more
<1>3. /\ \A t : Saves(t)' = Saves(t) /\ LastRecord(t)' = LastRecord(t)
      /\ \A t \in Turbines : Exchanges(t)' = Exchanges(t)
  BY <1>1 DEF Saves, LastRecord, Exchanges
<1>4. ThisPass \in Sample
  BY DriverAssumption DEF TypeInv, ThisPass, Sample, Scalars
<1>5. winds \in Seq(Sample) /\ winds' \in Seq(Sample) /\
      (c.strong => /\ Len(winds) = nt /\ Len(winds') = nt + 1
                   /\ \A k \in 1..nt : winds'[k] = winds[k]
                   /\ winds'[nt + 1] = ThisPass)
  <2>1. winds \in Seq(Sample) /\ (c.strong => Len(winds) = nt)
    BY <1>1, <1>2 DEF TypeInv, HistoryInv
  <2>2. CASE c.strong
    BY <1>1, <1>4, <2>1, <2>2, AppendProperties
  <2>3. CASE ~c.strong
    BY <1>1, <2>1, <2>3
  <2> QED BY <2>2, <2>3
<1>6. TypeInv'
  <2>1. vel' \in [Turbines -> [States -> Sample]]
    BY <1>1 DEF TypeInv, ShiftStates, States
  <2>2. iTurb' \in Turbines /\ nt_global' \in Nat /\ firstPass_' \in BOOLEAN
    <3>1. m + more \in Nat
      BY <1>2, Numbers
    <3> QED BY <1>1, <3>1, TurbineRange DEF TypeInv
  <2> QED BY <1>1, <1>5, <2>1, <2>2, SameSetUp DEF TypeInv, Places
<1>7. CountInv'
  <2>1. c.strong => nt_global' = (nt' + 1) * c'.nSubsteps
    <3>1. ASSUME NEW S \in Nat, NEW a \in Nat PROVE (a + 1) * S = a * S + S
      BY <3>1
    <3>2. (nt + 1) * c.nSubsteps = nt * c.nSubsteps + c.nSubsteps
      BY <3>1, Numbers
    <3> QED BY <1>1, <1>2, <3>2 DEF CountInv
  <2>2. ~c.strong => firstPass_ /\ nt_global' <= nt' * c'.nSubsteps + Calls'
    <3>1. Calls = iSub - 1 /\ Calls' = iSub
      BY <1>1, <1>2 DEF Calls
    <3>2. nt * c.nSubsteps \in Nat /\ iSub \in Nat
      BY Numbers, ProductNat DEF Scalars
    <3>3. ~c.strong => firstPass_ /\ m <= nt * c.nSubsteps + (iSub - 1)
      BY <1>1, <1>2, <3>1 DEF CountInv
    <3>4. c' = c /\ nt' = nt /\ (~c.strong => nt_global' = m + 1)
      BY <1>1, <1>2
    <3> QED BY <3>1, <3>2, <3>3, <3>4, Numbers
  <2>3. n_t_global' <= c'.n_TMax + 1 /\ firstPass_'
    BY <1>1, <2>2 DEF CountInv
  <2> QED BY <1>1, <1>2, <2>1, <2>2, <2>3 DEF CountInv
<1>8. ClockInv'
  <2>1. Asked = m + more /\ Asked' = m + more /\ ~Midway
    BY <1>1, <1>2, SameSetUp, Numbers DEF Asked, Ahead, InStep, Repeated, Midway
  <2> QED BY <1>1, <1>2, <2>1, ClockStays
<1>9. TurbineInv' /\ SoundInv'
  <2>1. \A t \in Turbines : Stage(t)' = Stage(t)
    BY <1>1, SameSetUp DEF Stage, InStep, Repeated
  <2> QED BY <1>1, <1>2, <2>1, TurbinesStay
<1>10. StoredInv'
  BY <1>1, SameSetUp DEF StoredInv, InStep, Repeated
<1>11. FileInv'
  <2>1. nt_global' > ntStart' /\ nt_global' >= ntStart'
    <3>1. nt_global >= ntStart
      BY <1>2 DEF FileInv
    <3>2. nt_global' = nt_global + more /\ ntStart' = ntStart
      BY <1>1
    <3> QED BY <1>2, <3>1, <3>2, Numbers
  <2> QED BY <1>1, <1>3, <2>1, SameSetUp DEF FileInv
<1>12. SyncInv'
  <2>1. \A t \in Turbines : Saves(t)' = Saves(t) /\ ~(t < iTurb')
    BY <1>1, <1>3, TurbineRange
  <2> QED BY <1>1, <2>1, SameSetUp DEF SyncInv, Writing
<1>13. LossInv'
  <2>1. \A t \in Turbines : ~Written(t)'
    BY <1>1, TurbineRange DEF Written
  <2> QED BY <1>1, <1>3, <2>1, SameSetUp DEF LossInv
<1>14. c.strong => \A k \in Int : k <= nt => WindAt(k)' = WindAt(k)
  BY <1>5 DEF WindAt, Scalars
<1>15. HistoryInv'
  <2> SUFFICES ASSUME c.strong PROVE HistoryInv'
    BY <1>1 DEF HistoryInv
  <2>1. ASSUME NEW t \in Turbines, Exchanges(t)
        PROVE  \A i \in Int : i = nt + 1 => History(vel[t], i)'
    <3>1. /\ vel[t]["N"] = WindAt(nt) /\ vel[t]["NM1"] = WindAt(nt - 1)
          /\ vel[t]["NP1"] = ThisPass
      BY <1>1, <1>2, <2>1 DEF HistoryInv, History, SampleInv, Sampled
    <3>2. /\ vel'[t]["N"] = ThisPass /\ vel'[t]["NM1"] = WindAt(nt)
          /\ vel'[t]["NM2"] = WindAt(nt - 1)
      BY <1>1, <3>1 DEF ShiftStates
    <3>3. \A i \in Int : i = nt + 1 =>
             WindAt(i)' = ThisPass /\ WindAt(i - 1)' = WindAt(i - 1) /\ WindAt(i - 2)' = WindAt(i - 2)
      <4> SUFFICES ASSUME NEW i \in Int, i = nt + 1
                   PROVE  /\ WindAt(i)' = ThisPass /\ WindAt(i - 1)' = WindAt(i - 1)
                          /\ WindAt(i - 2)' = WindAt(i - 2)
        OBVIOUS
      <4>1. WindAt(i)' = winds'[i] /\ winds'[i] = ThisPass
        BY <1>5 DEF WindAt, Scalars
      <4> QED BY <1>14, <4>1 DEF Scalars
    <3>4. \A i \in Int : i = nt + 1 => i - 1 = nt /\ i - 2 = nt - 1
      BY DEF Scalars
    <3> QED BY <3>2, <3>3, <3>4 DEF History
  <2>2. ASSUME NEW t \in Turbines, rst[t] /= <<>>
        PROVE  /\ Saves(t) * c.restartFreq <= Len(winds')
               /\ c.kind[t] = "ExtLd"
                     => History(LastRecord(t).vel, Saves(t) * c.restartFreq)'
    <3>1. Saves(t) * c.restartFreq \in Nat
      <4>1. Saves(t) \in Nat
        BY DEF Saves, TypeInv
      <4> QED BY <4>1, ProductNat, Numbers
    <3>2. PICK k \in Nat : k = Saves(t) * c.restartFreq
      BY <3>1
    <3>3. k <= nt /\ (c.kind[t] = "ExtLd" => History(LastRecord(t).vel, k))
      BY <1>5, <2>2, <3>2 DEF HistoryInv
    <3>4. WindAt(k)' = WindAt(k) /\ WindAt(k - 1)' = WindAt(k - 1) /\ WindAt(k - 2)' = WindAt(k - 2)
      BY <1>14, <3>3 DEF Scalars
    <3>5. (Saves(t) * c.restartFreq)' = k
      BY <1>1, <1>3, <3>2
    <3>6. c.kind[t] = "ExtLd" => History(LastRecord(t).vel, k)'
      BY <1>3, <3>3, <3>4 DEF History
    <3> QED BY <1>5, <3>2, <3>3, <3>5, <3>6 DEF Scalars
  <2>3. nt' + 1 \in Int /\ nt' + 1 = nt + 1
    BY <1>1 DEF Scalars
  <2> QED BY <1>1, <1>2, <1>3, <1>5, <2>1, <2>2, <2>3, SameSetUp DEF HistoryInv
<1>16. SampleInv'
  BY <1>1, <1>2, SameSetUp DEF SampleInv, Sampled, ThisPass
<1> QED BY <1>6, <1>7, <1>8, <1>9, <1>10, <1>11, <1>12, <1>13, <1>15, <1>16 DEF IInv

\* Multiples, quotients and remainders.
LEMMA Multiple ==
  ASSUME NEW a \in Nat, NEW b \in Nat \ {0}
  PROVE  (a * b) \div b = a /\ (a * b) % b = 0
  OBVIOUS

LEMMA NoRemainder ==
  ASSUME NEW x \in Nat, NEW b \in Nat \ {0}, x % b = 0
  PROVE  x \div b \in Nat /\ x = (x \div b) * b
  OBVIOUS

LEMMA Cancel ==
  ASSUME NEW a \in Nat, NEW b \in Nat, NEW S \in Nat \ {0}
  PROVE  /\ a * S <= b * S => a <= b
         /\ a * S = b * S => a = b
<1>1. a < b => a * S < b * S
  OBVIOUS
<1>2. b < a => b * S < a * S
  OBVIOUS
<1> QED BY <1>1, <1>2

LEMMA Monotone ==
  ASSUME NEW a \in Nat, NEW b \in Nat, a <= b, NEW S \in Nat
  PROVE  a * S <= b * S
  OBVIOUS

\* Products of three.
LEMMA Distribute ==
  ASSUME NEW i \in Nat, NEW j \in Nat, NEW F \in Nat, NEW S \in Nat
  PROVE  ((i + j) * F) * S = i * (F * S) + (j * F) * S
  OBVIOUS

\* Files are due when the time step is that of a multiple of the interval, in
\* any process; that multiple is the index of the record.  In the strong mode
\* they are due after each such driver step.
LEMMA DueFacts ==
  ASSUME Orderly, IInv, Filing
  PROVE  /\ Due => /\ RecordIndex \in Nat \ {0}
                   /\ nt_global = (RecordIndex * c.restartFreq) * c.nSubsteps
                   /\ RecordIndex * c.restartFreq \in 0..c.nt_end
                   /\ c.strong => nt + 1 = RecordIndex * c.restartFreq
         /\ c.strong /\ ~Due => \A i \in Nat : nt + 1 /= i * c.restartFreq
<1> TypeInv /\ CountInv /\ FileInv /\ Scalars
  BY SetUp DEF IInv
<1> DEFINE F == c.restartFreq
           S == c.nSubsteps
           D == F * S
<1>1. /\ F \in Nat \ {0} /\ S \in Nat \ {0} /\ nt \in Nat /\ nt + 1 \in Nat
      /\ nt_global \in Nat /\ ntStart \in Nat /\ c.nt_end \in Nat
  BY DEF Scalars
<1>2. /\ nt_global > ntStart /\ nt + 1 <= c.nt_end
      /\ c.strong => nt_global = (nt + 1) * S
  BY <1>1 DEF CountInv, FileInv, After, Filing, Gone
<1>3. PICK j \in Nat : ntStart = (j * F) * S
  BY DEF FileInv, Scalars
<1>4. Due <=> (nt_global - ntStart) % D = 0
  BY <1>1, <1>2 DEF Due
<1>5. RecordIndex = (nt_global \div S) \div F
  BY DEF RecordIndex
<1>6. nt_global <= (nt + 1) * S
  <2>1. ASSUME ~c.strong PROVE nt_global <= nt * S + S
    <3>1. nt_global <= nt * S + iSub /\ iSub <= S /\ iSub \in Nat
      BY <2>1 DEF CountInv, Filing, After, Gone, Calls, InPass, Scalars
    <3>2. nt * S \in Nat
      BY <1>1, ProductNat
    <3> HIDE DEF S
    <3> QED BY <1>1, <3>1, <3>2
  <2>2. (nt + 1) * S = nt * S + S
    <3>1. ASSUME NEW a \in Nat, NEW b \in Nat PROVE (a + 1) * b = a * b + b
      OBVIOUS
    <3> QED BY <1>1, <3>1
  <2>3. nt_global <= nt_global
    BY <1>1
  <2> QED BY <1>2, <2>1, <2>2, <2>3 DEF Scalars
<1> HIDE DEF F, S
<1>7. D \in Nat \ {0}
  BY <1>1
<1>8. ASSUME NEW i \in Nat
      PROVE  ((i + j) * F) * S = i * D + (j * F) * S /\ (i + j) * F \in Nat /\ i * D \in Nat
  BY <1>1, <1>7, Distribute, ProductNat
<1> HIDE DEF D
<1>9. ASSUME Due
      PROVE  /\ RecordIndex \in Nat \ {0}
             /\ nt_global = (RecordIndex * F) * S
             /\ RecordIndex * F \in 0..c.nt_end
             /\ c.strong => nt + 1 = RecordIndex * F
  <2> DEFINE x == nt_global - ntStart
             i == x \div D
  <2>1. x \in Nat /\ x % D = 0
    BY <1>1, <1>2, <1>4, <1>9
  <2>2. i \in Nat /\ x = i * D
    BY <1>7, <2>1, NoRemainder
  <2> HIDE DEF i
  <2>3. nt_global = ((i + j) * F) * S
    <3>1. nt_global = i * D + ntStart
      BY <1>1, <1>8, <2>2
    <3>2. i * D + (j * F) * S = ((i + j) * F) * S
      BY <1>8, <2>2
    <3> QED BY <1>3, <3>1, <3>2
  <2>4. nt_global \div S = (i + j) * F
    BY <1>1, <1>8, <2>2, <2>3, Multiple
  <2>5. RecordIndex = i + j
    <3>1. i + j \in Nat
      BY <2>2
    <3>2. ((i + j) * F) \div F = i + j
      BY <1>1, <3>1, Multiple
    <3> QED BY <1>5, <2>4, <3>2
  <2>6. (i + j) * F <= nt + 1 /\ (c.strong => nt + 1 = (i + j) * F)
    BY <1>1, <1>2, <1>6, <1>8, <2>2, <2>3, Cancel
  <2>7. i + j /= 0
    <3>1. 0 * F = 0 /\ 0 * S = 0
      BY <1>1
    <3> QED BY <1>1, <1>2, <2>3, <3>1
  <2>8. (i + j) * F \in 0..c.nt_end
    BY <1>1, <1>2, <1>8, <2>2, <2>6
  <2> QED BY <2>2, <2>3, <2>5, <2>6, <2>7, <2>8
<1>10. ASSUME c.strong, NEW k \in Nat, nt + 1 = k * F PROVE Due
  <2>1. CASE k >= j
    <3>1. PICK i \in Nat : k = i + j
      BY <2>1
    <3>2. nt_global = i * D + (j * F) * S
      BY <1>2, <1>8, <1>10, <3>1
    <3>3. nt_global - ntStart = i * D
      BY <1>1, <1>3, <1>8, <3>2
    <3> QED BY <1>4, <1>7, <3>1, <3>3, Multiple
  <2>2. CASE k < j
    <3>1. k * F <= j * F /\ j * F \in Nat
      BY <1>1, <2>2, Monotone, ProductNat
    <3>2. (k * F) * S <= (j * F) * S
      BY <1>1, <1>10, <3>1, Monotone
    <3>3. nt_global <= ntStart
      BY <1>2, <1>3, <1>10, <3>2
    <3> QED BY <1>1, <1>2, <3>3
  <2> QED BY <2>1, <2>2
<1> QED BY <1>9, <1>10 DEF F, S

\* While files are written, the library's counter is the driver's, up to the
\* end of the simulation, and the turbines are between two time steps.
LEMMA FilingFacts ==
  ASSUME IInv, Filing
  PROVE  /\ nt_global <= c.n_TMax => n_t_global = nt_global
         /\ n_t_global <= c.n_TMax + 1
         /\ \A t \in Turbines : /\ Sound(T[t], c.n_TMax, Kept)
                                /\ n_t_global <= c.n_TMax => Ready(T[t], n_t_global, Tracked)
<1> TypeInv /\ CountInv /\ ClockInv /\ SoundInv /\ Scalars
  BY SetUp DEF IInv
<1>1. pc \in {"checkpoint", "record", "endoutput"} /\ ~Gone /\ ~InStep /\ ~Repeated
  BY DEF Filing, Gone, InStep, Repeated
<1>2. Asked = nt_global /\ ~Midway
  BY <1>1, Numbers DEF Asked, Ahead, Midway
<1>3. nt_global <= c.n_TMax => n_t_global = nt_global
  BY <1>1, <1>2, Numbers DEF ClockInv
<1>4. \A t \in Turbines : Stage(t) = "ready"
  BY <1>1 DEF Stage
<1> QED BY <1>1, <1>3, <1>4, ReadyThen DEF CountInv, SoundInv

\* What the clocks and turbines do while files are written.
LEMMA FilingStays ==
  ASSUME IInv, Filing, Filing', c' = c,
         UNCHANGED <<iSub, nt, pass, firstPass_, nt_global, n_t_global, T>>,
         pc' = "endoutput" => iTurb' = 1
  PROVE  CountInv' /\ ClockInv' /\ TurbineInv' /\ StoredInv' /\ SoundInv'
<1> TypeInv /\ CountInv /\ ClockInv /\ Scalars
  BY SetUp DEF IInv
<1>1. /\ pc \in {"checkpoint", "record", "endoutput"} /\ ~Gone /\ ~InStep /\ ~Repeated
      /\ pc' \in {"checkpoint", "record", "endoutput"} /\ ~Gone' /\ ~InStep' /\ ~Repeated'
      /\ ~InPass /\ ~InPass' /\ After /\ After'
  BY DEF Filing, Gone, InStep, Repeated, InPass, After
<1>2. CountInv'
  <2>1. Calls' = Calls
    BY <1>1 DEF Calls
  <2>2. /\ (nt + 1)' * c'.nSubsteps = (nt + 1) * c.nSubsteps
        /\ nt' * c'.nSubsteps = nt * c.nSubsteps
    OBVIOUS
  <2> QED BY <1>1, <2>1, <2>2 DEF CountInv
<1>3. ClockInv'
  <2>1. Asked = nt_global /\ Asked' = nt_global /\ ~Midway
    BY <1>1, SameSetUp, Numbers DEF Asked, Ahead, Midway
  <2> QED BY <1>1, <2>1, ClockStays
<1>4. TurbineInv' /\ SoundInv'
  <2>1. \A t \in Turbines : Stage(t)' = Stage(t)
    BY <1>1, SameSetUp DEF Stage
  <2> QED BY <1>1, <2>1, TurbinesStay
<1>5. StoredInv'
  BY <1>1, SameSetUp DEF StoredInv
<1> QED BY <1>2, <1>3, <1>4, <1>5

LEMMA CheckpointKeeps ==
  ASSUME Orderly, IInv, Checkpoint
  PROVE  IInv'
<1> TypeInv /\ FileInv /\ SyncInv /\ LossInv /\ HistoryInv /\ SampleInv /\ Scalars
  BY SetUp DEF IInv
<1>1. /\ c' = c /\ pc = "checkpoint"
      /\ UNCHANGED <<iSub, driver, library, rst, winds, life>>
      /\ \/ Due /\ WriteCheckpoint /\ pc' = "record" /\ iTurb' = iTurb
         \/ /\ ~Due /\ chk' = chk
            /\ \/ iTurb < NumTurbines /\ iTurb' = iTurb + 1 /\ pc' = "checkpoint"
               \/ iTurb = NumTurbines /\ iTurb' = 1 /\ pc' = "endoutput"
  BY DEF Checkpoint, NextTurbine, Scalars
<1> USE DEF driver, library
<1>2. /\ After /\ After' /\ ~InPass' /\ Filing /\ Filing'
      /\ pc' \in {"checkpoint", "record", "endoutput"}
      /\ Due' = Due /\ RecordIndex' = RecordIndex
  BY <1>1 DEF After, Filing, InPass, Due, RecordIndex
<1>3. /\ \A t : Saves(t)' = Saves(t) /\ LastRecord(t)' = LastRecord(t)
      /\ \A t : WindAt(t)' = WindAt(t)
      /\ \A t \in Turbines : Exchanges(t)' = Exchanges(t)
  BY <1>1 DEF Saves, LastRecord, Exchanges, WindAt
<1>4. /\ nt_global <= c.n_TMax => n_t_global = nt_global
      /\ n_t_global <= c.n_TMax + 1 /\ n_t_global \in Nat
      /\ \A t \in Turbines : /\ Sound(T[t], c.n_TMax, Kept)
                             /\ n_t_global <= c.n_TMax => Ready(T[t], n_t_global, Tracked)
  BY <1>2, FilingFacts, Numbers
<1> DEFINE Good(s) == /\ s.n <= c.n_TMax + 1 /\ Sound(s.T, c.n_TMax, Kept)
                      /\ s.n <= c.n_TMax => Ready(s.T, s.n, Tracked)
<1>5. chk' \in [Turbines -> SUBSET CheckpointType] /\
      \A t \in Turbines : /\ \A s \in chk'[t] : Good(s)
                          /\ \A n \in Nat : (\E s \in chk[t] : s.n = n) => \E s \in chk'[t] : s.n = n
                          /\ pc' = "record" /\ nt_global <= c.n_TMax
                                => \E s \in chk'[iTurb'] : s.n = nt_global
  <2>0. \A t \in Turbines : \A s \in chk[t] : Good(s)
    BY DEF FileInv
  <2>1. CASE ~Due
    BY <1>1, <1>2, <2>0, <2>1 DEF TypeInv
  <2>2. CASE Due
    <3> DEFINE new == [n |-> n_t_global, T |-> T[iTurb], ext |-> ext[iTurb]]
    <3>1. new \in CheckpointType /\ new.n = n_t_global /\ Good(new)
      <4>1. new \in CheckpointType
        BY <1>4 DEF TypeInv, CheckpointType
      <4> QED BY <1>4, <4>1, TurbineRange
    <3>2. /\ chk' = [chk EXCEPT ![iTurb] = {s \in chk[iTurb] : s.n /= n_t_global} \cup {new}]
          /\ iTurb' = iTurb
      BY <1>1, <2>2 DEF WriteCheckpoint
    <3> HIDE DEF new, Good
    <3>3. iTurb \in Turbines /\ chk \in [Turbines -> SUBSET CheckpointType]
      BY DEF TypeInv
    <3>4. chk' \in [Turbines -> SUBSET CheckpointType]
      BY <3>1, <3>2, <3>3
    <3>5. /\ \A t \in Turbines : t /= iTurb => chk'[t] = chk[t]
          /\ chk'[iTurb] = {s \in chk[iTurb] : s.n /= n_t_global} \cup {new}
      BY <3>2, <3>3
    <3>6. \A t \in Turbines : \A s \in chk'[t] : Good(s)
      BY <2>0, <3>1, <3>3, <3>5
    <3>7. \A t \in Turbines : \A n \in Nat : (\E s \in chk[t] : s.n = n) => \E s \in chk'[t] : s.n = n
      BY <1>4, <3>1, <3>5
    <3>8. nt_global <= c.n_TMax => \E s \in chk'[iTurb'] : s.n = nt_global
      BY <1>4, <3>1, <3>2, <3>5
    <3> QED BY <3>4, <3>6, <3>7, <3>8
  <2> QED BY <2>1, <2>2
<1>6. TypeInv'
  <2>1. iTurb' \in Turbines /\ pc' \in Places
    BY <1>1 DEF Scalars, Places
  <2> QED BY <1>1, <1>5, <2>1, SameSetUp DEF TypeInv
<1>7. CountInv' /\ ClockInv' /\ TurbineInv' /\ StoredInv' /\ SoundInv'
  <2>1. pc' = "endoutput" => iTurb' = 1
    BY <1>1
  <2> QED BY <1>1, <1>2, <2>1, FilingStays
<1>8. FileInv'
  <2>1. \A t \in Turbines : rst[t] /= <<>> =>
           /\ LastRecord(t).n = (Saves(t) * c.restartFreq) * c.nSubsteps
           /\ LastRecord(t).n <= c.n_TMax => \E s \in chk'[t] : s.n = LastRecord(t).n
    <3> SUFFICES ASSUME NEW t \in Turbines, rst[t] /= <<>>
                 PROVE  /\ LastRecord(t).n = (Saves(t) * c.restartFreq) * c.nSubsteps
                        /\ LastRecord(t).n <= c.n_TMax => \E s \in chk'[t] : s.n = LastRecord(t).n
      OBVIOUS
    <3>1. LastRecord(t).n <= c.n_TMax => \E s \in chk[t] : s.n = LastRecord(t).n /\ s.n \in Nat
      BY DEF FileInv, TypeInv, CheckpointType
    <3> QED BY <1>5, <3>1 DEF FileInv
  <2>2. (pc = "record" => Due /\ (nt_global <= c.n_TMax => \E s \in chk[iTurb] : s.n = nt_global))'
    BY <1>1, <1>2, <1>5, TurbineRange
  <2>3. nt_global > ntStart /\ nt_global >= ntStart
    BY <1>1, <1>2 DEF FileInv, Gone
  <2> QED BY <1>1, <1>2, <1>3, <1>5, <2>1, <2>2, <2>3, SameSetUp DEF FileInv
<1>9. SyncInv'
  <2>1. CASE Due
    BY <1>1, <1>2, <1>3, <2>1, SameSetUp DEF SyncInv, Writing
  <2>2. CASE ~Due
    BY <1>1, <1>2, <1>3, <2>2, SameSetUp DEF SyncInv, Writing
  <2> QED BY <2>1, <2>2
<1>10. LossInv'
  <2>1. CASE Due
    BY <1>1, <1>3, <2>1, SameSetUp DEF LossInv, Written
  <2>2. CASE ~Due
    <3> SUFFICES ASSUME c.strong, NEW t \in Turbines, Written(t)'
                 PROVE  nt + 1 < (Saves(t) + 1) * c.restartFreq
      BY <1>1, <1>3, SameSetUp DEF LossInv
    <3>1. t < iTurb \/ t = iTurb
      BY <1>1, <2>2 DEF Written, Scalars
    <3>2. nt < (Saves(t) + 1) * c.restartFreq /\ Saves(t) + 1 \in Nat
      BY DEF LossInv, Saves, TypeInv
    <3>3. nt + 1 /= (Saves(t) + 1) * c.restartFreq
      BY <1>2, <2>2, <3>2, DueFacts
    <3>4. (Saves(t) + 1) * c.restartFreq \in Nat
      BY <3>2, ProductNat DEF Scalars
    <3> QED BY <3>2, <3>3, <3>4 DEF Scalars
  <2> QED BY <2>1, <2>2
<1>11. HistoryInv'
  BY <1>1, <1>2, <1>3, SameSetUp DEF HistoryInv, History
<1>12. SampleInv'
  BY <1>1, <1>2, SameSetUp DEF SampleInv, Sampled, ThisPass
<1> QED BY <1>6, <1>7, <1>8, <1>9, <1>10, <1>11, <1>12 DEF IInv

LEMMA LargerFacts ==
  ASSUME NEW i \in Nat, NEW j \in Nat
  PROVE  Larger(i, j) \in Nat /\ Larger(i, j) >= i /\ Larger(i, j) >= j
         /\ (i <= j => Larger(i, j) = j) /\ (j <= i => Larger(i, j) = i)
  BY DEF Larger

\* The restart files of a turbine are complete.
LEMMA RecordKeeps ==
  ASSUME Orderly, IInv, Record
  PROVE  IInv'
<1> TypeInv /\ FileInv /\ SyncInv /\ LossInv /\ HistoryInv /\ SampleInv /\ Scalars
  BY SetUp DEF IInv
<1>0. PICK i \in Turbines : i = iTurb
  BY DEF Scalars
<1>1. /\ c' = c /\ pc = "record" /\ WriteRecord
      /\ UNCHANGED <<iSub, driver, library, chk, winds, life>>
      /\ \/ i < NumTurbines /\ iTurb' = i + 1 /\ pc' = "checkpoint"
         \/ i = NumTurbines /\ iTurb' = 1 /\ pc' = "endoutput"
  BY <1>0 DEF Record, Scalars
<1> USE DEF driver, library
<1>2. /\ After /\ After' /\ ~InPass' /\ Filing /\ Filing' /\ Due /\ Writing
      /\ Due' = Due /\ RecordIndex' = RecordIndex
      /\ nt_global <= c.n_TMax => \E s \in chk[i] : s.n = nt_global
      /\ pc' \in {"checkpoint", "endoutput"}
  BY <1>0, <1>1 DEF After, Filing, InPass, Due, RecordIndex, FileInv, Writing
<1>3. PICK q \in Nat \ {0} : /\ q = RecordIndex /\ q * c.restartFreq <= c.nt_end
                             /\ nt_global = (q * c.restartFreq) * c.nSubsteps
                             /\ c.strong => nt + 1 = q * c.restartFreq
  BY <1>2, DueFacts
<1>4. PICK new \in RecordType : new = [n |-> nt_global, vel |-> IF Exchanges(i) THEN vel[i] ELSE Gap.vel]
  <2>1. Gap.vel \in [States -> Sample]
    BY DEF Gap, Sample, NoWind
  <2>2. vel[i] \in [States -> Sample]
    BY DEF TypeInv
  <2>3. (IF Exchanges(i) THEN vel[i] ELSE Gap.vel) \in [States -> Sample]
    BY <2>1, <2>2
  <2>4. nt_global \in Nat
    BY DEF Scalars
  <2> QED BY <2>3, <2>4 DEF RecordType
<1>5. new.n = nt_global /\ (Exchanges(i) => new.vel = vel[i]) /\ Gap \in RecordType
  BY <1>4 DEF Gap, RecordType, Sample, NoWind
<1>6. rst' = [rst EXCEPT ![i] = [k \in DOMAIN rst[i] \cup 1..q |->
                 IF k = q THEN new ELSE IF k \in DOMAIN rst[i] THEN rst[i][k] ELSE Gap]]
  BY <1>0, <1>1, <1>3, <1>4 DEF WriteRecord
<1>7. \A t \in Turbines : Saves(t) \in Nat
  BY DEF TypeInv, Saves
<1>8. /\ rst'[i] \in Seq(RecordType) /\ Saves(i)' = Larger(Saves(i), q)
      /\ rst'[i] /= <<>>
      /\ Saves(i) <= q => LastRecord(i)' = new
      /\ q < Saves(i) => LastRecord(i)' = LastRecord(i) /\ rst[i] /= <<>>
  <2>1. /\ rst[i] \in Seq(RecordType)
        /\ rst'[i] = [k \in DOMAIN rst[i] \cup 1..q |->
                 IF k = q THEN new ELSE IF k \in DOMAIN rst[i] THEN rst[i][k] ELSE Gap]
    BY <1>6 DEF TypeInv
  <2>2. /\ rst'[i] \in Seq(RecordType)
        /\ Len(rst'[i]) = Larger(Len(rst[i]), q) /\ Len(rst'[i]) >= 1
        /\ Len(rst[i]) <= q => rst'[i][Len(rst'[i])] = new
        /\ q < Len(rst[i]) => rst'[i][Len(rst'[i])] = rst[i][Len(rst[i])]
    \* The file is filled up to the place of the record.
    <3>1. ASSUME NEW old \in Seq(RecordType), old = rst[i], NEW r, r = rst'[i]
          PROVE  /\ r \in Seq(RecordType) /\ Len(r) = Larger(Len(old), q) /\ Len(r) >= 1
                 /\ Len(old) <= q => r[Len(r)] = new
                 /\ q < Len(old) => r[Len(r)] = old[Len(old)]
      <4>0. r = [k \in DOMAIN old \cup 1..q |->
                   IF k = q THEN new ELSE IF k \in DOMAIN old THEN old[k] ELSE Gap]
        BY <2>1, <3>1
      <4>1. PICK m \in Nat : m = Len(old)
        BY LenProperties
      <4>2. DOMAIN old = 1..m /\ \A k \in 1..m : old[k] \in RecordType
        BY <4>1, LenProperties
      <4>3. PICK n \in Nat : n = Larger(m, q)
        BY LargerFacts
      <4>4. n >= 1 /\ (m <= q => n = q) /\ (q < m => n = m) /\ 1..m \cup 1..q = 1..n
        <5>1. (m <= q => n = q) /\ (q < m => n = m)
          BY <4>3 DEF Larger
        <5> QED BY <5>1
      <4>5. r = [k \in 1..n |-> IF k = q THEN new ELSE IF k \in 1..m THEN old[k] ELSE Gap]
        BY <4>0, <4>2, <4>4
      <4>6. r \in [1..n -> RecordType]
        BY <1>5, <4>2, <4>5
      <4>7. r \in Seq(RecordType)
        BY <4>6, SeqDef
      <4>8. Len(r) = n
        <5>1. DOMAIN r = 1..n /\ DOMAIN r = 1..Len(r) /\ Len(r) \in Nat
          BY <4>5, <4>7, LenProperties
        <5> QED BY <5>1
      <4>9. m <= q => r[n] = new
        BY <4>4, <4>5
      <4>10. q < m => r[n] = old[m]
        BY <4>4, <4>5
      <4> QED BY <4>1, <4>3, <4>4, <4>7, <4>8, <4>9, <4>10
    <3> QED BY <2>1, <3>1
  <2>3. rst'[i] /= <<>> /\ (q < Len(rst[i]) => rst[i] /= <<>>)
    BY <2>1, <2>2, EmptySeq
  <2> QED BY <2>2, <2>3 DEF Saves, LastRecord
<1>9. /\ \A t \in Turbines \ {i} : rst'[t] = rst[t]
      /\ \A t \in Turbines \ {i} : Saves(t)' = Saves(t) /\ LastRecord(t)' = LastRecord(t)
  BY <1>6 DEF TypeInv, Saves, LastRecord
<1> DEFINE j == Saves(i)
<1>91. /\ j \in Nat /\ Saves(i)' \in Nat /\ q <= Saves(i)'
       /\ j <= q => Saves(i)' = q /\ LastRecord(i)' = new
       /\ q < j => Saves(i)' = Saves(i) /\ LastRecord(i)' = LastRecord(i) /\ rst[i] /= <<>>
  <2>1. j \in Nat /\ Saves(i)' = Larger(j, q)
    BY <1>7, <1>8
  <2> QED BY <1>8, <2>1, LargerFacts DEF Larger
<1> HIDE DEF j
<1>10. /\ \A t : WindAt(t)' = WindAt(t)
       /\ \A t \in Turbines : Exchanges(t)' = Exchanges(t)
  BY <1>1 DEF Exchanges, WindAt
<1>11. TypeInv'
  <2>1. iTurb' \in Turbines /\ pc' \in Places
    BY <1>1 DEF Scalars, Places
  <2>2. rst' \in [Turbines -> Seq(RecordType)]
    BY <1>6, <1>8 DEF TypeInv
  <2> QED BY <1>1, <2>1, <2>2, SameSetUp DEF TypeInv
<1>12. CountInv' /\ ClockInv' /\ TurbineInv' /\ StoredInv' /\ SoundInv'
  <2>1. pc' = "endoutput" => iTurb' = 1
    BY <1>1
  <2> QED BY <1>1, <1>2, <2>1, FilingStays
<1>14. FileInv'
  <2>1. ASSUME NEW t \in Turbines, (rst[t] /= <<>>)'
        PROVE  /\ LastRecord(t).n' = (Saves(t)' * c.restartFreq) * c.nSubsteps
               /\ LastRecord(t).n' <= c.n_TMax => \E s \in chk[t] : s.n = LastRecord(t).n'
    <3>1. CASE t /= i
      BY <1>9, <2>1, <3>1 DEF FileInv
    <3>2. CASE t = i /\ j <= q
      BY <1>2, <1>3, <1>5, <1>91, <3>2
    <3>3. CASE t = i /\ q < j
      BY <1>91, <3>3 DEF FileInv
    <3> QED BY <1>91, <3>1, <3>2, <3>3
  <2>2. ASSUME NEW t \in Turbines PROVE Saves(t)' * c.restartFreq <= c.nt_end
    <3>1. CASE t /= i
      BY <1>9, <3>1 DEF FileInv
    <3>2. CASE t = i /\ j <= q
      BY <1>3, <1>91, <3>2
    <3>3. CASE t = i /\ q < j
      BY <1>91, <3>3 DEF FileInv
    <3> QED BY <1>91, <3>1, <3>2, <3>3
  <2>3. nt_global >= ntStart /\ nt_global > ntStart
    BY <1>1, <1>2 DEF FileInv, Gone
  <2> QED BY <1>1, <1>2, <2>1, <2>2, <2>3, SameSetUp DEF FileInv
<1>15. SyncInv'
  <2>1. ASSUME NEW t \in Turbines, t < i PROVE Saves(t) = Larger(Saves(i), q)
    BY <1>0, <1>2, <1>3, <2>1 DEF SyncInv, Scalars
  <2>2. ASSUME NEW t \in Turbines, NEW u \in Turbines, ~(t < i), ~(u < i)
        PROVE  Saves(t) = Saves(u)
    BY <1>0, <1>2, <2>2 DEF SyncInv
  <2>3. \A t \in Turbines : t <= i => Saves(t)' = Larger(Saves(i), q)
    <3>1. \A t \in Turbines : t <= i => t < i \/ t = i
      BY TurbineRange
    <3> QED BY <1>8, <1>9, <2>1, <3>1
  <2>4. \A t \in Turbines : i < t => Saves(t)' = Saves(i)
    BY <1>9, <2>2 DEF Scalars
  <2>5. CASE i < NumTurbines
    <3>1. \A t \in Turbines : t < iTurb' <=> t <= i
      BY <1>1, <2>5 DEF Scalars
    <3>2. Writing' /\ RecordIndex' = q /\ Turbines' = Turbines
      BY <1>1, <1>2, <1>3, <2>5, SameSetUp DEF Writing, Scalars
    <3>3. SUFFICES ASSUME NEW t \in Turbines, NEW u \in Turbines
                   PROVE  /\ (t <= i <=> u <= i) => Saves(t)' = Saves(u)'
                          /\ t <= i /\ ~(u <= i) => Saves(t)' = Larger(Saves(u)', q)
      BY <3>1, <3>2 DEF SyncInv
    <3>4. t <= i \/ i < t
      BY DEF Scalars
    <3>5. u <= i \/ i < u
      BY DEF Scalars
    <3>6. ~(t <= i /\ i < t) /\ ~(u <= i /\ i < u)
      BY DEF Scalars
    <3> QED BY <2>3, <2>4, <3>4, <3>5, <3>6
  <2>6. CASE i = NumTurbines
    <3>1. ~Writing' /\ \A t \in Turbines : t <= i
      BY <1>1, <2>6 DEF Scalars, Writing
    <3> QED BY <1>1, <2>3, <3>1, SameSetUp DEF SyncInv
  <2> QED BY <2>5, <2>6 DEF Scalars
<1>16. LossInv'
  <2> SUFFICES ASSUME c.strong PROVE LossInv'
    BY <1>1 DEF LossInv
  <2>1. \A t \in Turbines \ {i} : Written(t)' => Written(t)
    BY <1>0, <1>1 DEF Written, Scalars
  <2>2. nt + 1 < (Saves(i)' + 1) * c.restartFreq
    <3>1. Saves(i)' \in Nat /\ q <= Saves(i)'
      BY <1>91
    <3>2. \A a, b \in Nat : \A f \in Nat \ {0} : a <= b => a * f < (b + 1) * f
      OBVIOUS
    <3> QED BY <1>3, <3>1, <3>2 DEF Scalars
  <2>3. nt < (Saves(i)' + 1) * c.restartFreq
    <3>1. (Saves(i)' + 1) * c.restartFreq \in Nat
      <4>1. Saves(i)' + 1 \in Nat /\ c.restartFreq \in Nat
        BY <1>91 DEF Scalars
      <4> QED BY <4>1, ProductNat
    <3> QED BY <2>2, <3>1 DEF Scalars
  <2> QED BY <1>1, <1>9, <2>1, <2>2, <2>3, SameSetUp DEF LossInv
<1>17. HistoryInv'
  <2> SUFFICES ASSUME c.strong PROVE HistoryInv'
    BY <1>1 DEF HistoryInv
  <2>1. Len(winds) = nt + 1 /\ \A t \in Turbines : Exchanges(t) => History(vel[t], nt + 1)
    BY <1>1, <1>2 DEF HistoryInv
  <2>2. ASSUME NEW t \in Turbines, (rst[t] /= <<>>)'
        PROVE  /\ Saves(t)' * c.restartFreq <= Len(winds)
               /\ c.kind[t] = "ExtLd" => History(LastRecord(t)'.vel, Saves(t)' * c.restartFreq)
    <3>1. CASE t /= i
      BY <1>9, <2>2, <3>1 DEF HistoryInv
    <3>2. CASE t = i /\ j <= q
      <4>1. Saves(i)' = q /\ LastRecord(i)' = new
        BY <1>91, <3>2
      <4>2. c.kind[i] = "ExtLd" => History(new.vel, nt + 1)
        BY <1>5, <2>1 DEF Exchanges
      <4> QED BY <1>3, <2>1, <3>2, <4>1, <4>2, Numbers
    <3>3. CASE t = i /\ q < j
      BY <1>91, <3>3 DEF HistoryInv
    <3> QED BY <1>91, <3>1, <3>2, <3>3
  <2>3. \A v : \A k : History(v, k) <=> (v["N"] = WindAt(k)' /\ v["NM1"] = WindAt(k - 1)'
                                           /\ v["NM2"] = WindAt(k - 2)')
    BY <1>10 DEF History
  <2>4. ASSUME NEW t \in Turbines, NEW k PROVE History(vel[t], k)' <=> History(vel[t], k)
    BY <1>1, <1>10 DEF History
  <2>5. ASSUME NEW t \in Turbines, NEW k
        PROVE  History(LastRecord(t).vel, k)' <=> History(LastRecord(t)'.vel, k)
    BY <1>10 DEF History
  <2> QED BY <1>1, <1>2, <1>10, <2>1, <2>2, <2>4, <2>5, SameSetUp DEF HistoryInv
<1>18. SampleInv'
  BY <1>1, <1>2, SameSetUp DEF SampleInv, Sampled, ThisPass
<1> QED BY <1>11, <1>12, <1>14, <1>15, <1>16, <1>17, <1>18 DEF IInv

-----------------------------------------------------------------------------
(* A new process, and the first one.                                       *)

LEMMA RestartKeeps ==
  ASSUME Orderly, IInv, Restart
  PROVE  IInv'
<1> TypeInv /\ FileInv /\ SyncInv /\ LossInv /\ HistoryInv /\ Scalars
  BY SetUp DEF IInv
<1>1. /\ c' = c /\ pc = "down" /\ pc' = "main" /\ iTurb' = 1 /\ iSub' = 1
      /\ pass' = 0 /\ firstPass_' = TRUE /\ life < MaxLives /\ life' = life + 1
      /\ nt' = nt_global' \div c.nSubsteps
      /\ inflowType' = [t \in Turbines |-> 0]
      /\ winds' = IF c.strong THEN SubSeq(winds, 1, nt') ELSE winds
      /\ chk' = chk /\ rst' = rst
  BY DEF Restart, files
<1>2. /\ T' = [t \in Turbines |-> Saved(t).T] /\ ext' = [t \in Turbines |-> Saved(t).ext]
      /\ vel' = [t \in Turbines |-> LastRecord(t).vel]
      /\ n_t_global' = Saved(NumTurbines).n
      /\ nt_global' = n_t_global' /\ ntStart' = n_t_global'
      /\ \A t \in Turbines : Restartable(t)
  BY DEF Restart
<1>3. PICK m \in Nat : \A t \in Turbines : Saves(t) = m
  <2>1. 1 \in Turbines
    BY DEF Scalars
  <2>2. \A t \in Turbines : Saves(t) \in Nat /\ Saves(t) = Saves(1)
    BY <1>1, <2>1 DEF SyncInv, Writing, TypeInv, Saves
  <2> QED BY <2>1, <2>2
<1>4. PICK k \in Nat : k = m * c.restartFreq
  BY ProductNat DEF Scalars
<1>5. PICK n \in Nat : n = k * c.nSubsteps
  BY ProductNat DEF Scalars
<1>6. ASSUME NEW t \in Turbines
      PROVE  /\ Saved(t) \in chk[t] /\ Saved(t).n = n /\ rst[t] /= <<>>
             /\ LastRecord(t).n = n /\ k <= c.nt_end
             /\ c.strong => /\ k <= Len(winds)
                            /\ c.kind[t] = "ExtLd" => History(LastRecord(t).vel, k)
  <2>1. rst[t] /= <<>> /\ \E s \in chk[t] : s.n = LastRecord(t).n
    BY <1>2 DEF Restartable
  <2>2. Saved(t) \in chk[t] /\ Saved(t).n = LastRecord(t).n
    BY <2>1 DEF Saved
  <2> QED BY <1>3, <1>4, <1>5, <2>1, <2>2 DEF FileInv, HistoryInv
<1>7. ASSUME NEW t \in Turbines
      PROVE  /\ Saved(t).T \in TurbineType /\ Saved(t).ext \in Seen
             /\ n <= c.n_TMax + 1 /\ Sound(Saved(t).T, c.n_TMax, Kept)
             /\ n <= c.n_TMax => Ready(Saved(t).T, n, Tracked)
             /\ LastRecord(t).vel \in [States -> Sample]
  <2>1. Saved(t) \in CheckpointType
    BY <1>6 DEF TypeInv
  <2>2. /\ Saved(t).n <= c.n_TMax + 1 /\ Sound(Saved(t).T, c.n_TMax, Kept)
        /\ Saved(t).n <= c.n_TMax => Ready(Saved(t).T, Saved(t).n, Tracked)
    BY <1>6 DEF FileInv
  <2>3. LastRecord(t) \in RecordType
    <3>1. rst[t] \in Seq(RecordType) /\ rst[t] /= <<>>
      BY <1>6 DEF TypeInv
    <3>2. Len(rst[t]) \in 1..Len(rst[t])
      BY <3>1, EmptySeq
    <3> QED BY <3>1, <3>2, ElementOfSeq DEF LastRecord
  <2> QED BY <1>6, <2>1, <2>2, <2>3 DEF CheckpointType, RecordType
<1>8. /\ n_t_global' = n /\ nt_global' = n /\ ntStart' = n /\ nt' = k
      /\ k <= c.nt_end /\ n <= c.n_TMax + 1
      /\ c.strong => k <= Len(winds)
  <2>1. NumTurbines \in Turbines
    BY TurbineRange
  <2>2. n \div c.nSubsteps = k
    BY <1>5, Multiple, Numbers
  <2> QED BY <1>1, <1>2, <1>6, <1>7, <2>1, <2>2
<1>9. winds \in Seq(Sample) /\ winds' \in Seq(Sample) /\
      (c.strong => Len(winds') = k /\ \A i \in 1..k : winds'[i] = winds[i])
  <2>1. winds \in Seq(Sample) /\ winds' = IF c.strong THEN SubSeq(winds, 1, k) ELSE winds
    BY <1>1, <1>8 DEF TypeInv
  <2>2. CASE c.strong
    BY <1>8, <2>1, <2>2, SubSeqProperties
  <2> QED BY <2>1, <2>2
<1>10. ~After' /\ ~InPass' /\ ~Filing' /\ ~Repeated' /\ ~InStep' /\ ~Writing' /\ ~Gone'
       /\ \A t \in Turbines : ~Written(t)'
  BY <1>1 DEF After, InPass, Filing, Gone, Repeated, InStep, Writing, Written
<1>11. \A t : Saves(t)' = Saves(t) /\ LastRecord(t)' = LastRecord(t)
  BY <1>1 DEF Saves, LastRecord
<1>12. TypeInv'
  <2>1. /\ iTurb' \in Turbines /\ iSub' \in 1..c.nSubsteps /\ nt' \in 0..c.nt_end
        /\ pass' \in 0..c.nIter
    <3>1. iTurb' \in Turbines /\ iSub' \in 1..c.nSubsteps /\ pass' \in 0..c.nIter
      <4>1. iTurb' \in Turbines
        BY <1>1, TurbineRange
      <4>2. 1 \in 1..c.nSubsteps /\ 0 \in 0..c.nIter
        BY Numbers
      <4> QED BY <1>1, <4>1, <4>2
    <3>2. nt' \in 0..c.nt_end
      BY <1>4, <1>8, Numbers
    <3> QED BY <3>1, <3>2
  <2>2. life' \in 0..MaxLives
    BY <1>1, DriverAssumption DEF TypeInv
  <2>3. /\ T' \in [Turbines -> TurbineType] /\ ext' \in [Turbines -> Seen]
        /\ vel' \in [Turbines -> [States -> Sample]]
        /\ inflowType' \in [Turbines -> 0..2]
    BY <1>1, <1>2, <1>7
  <2> QED BY <1>1, <1>8, <1>9, <2>1, <2>2, <2>3, SameSetUp DEF TypeInv, Places
<1>13. CountInv'
  <2>1. pass' < c'.nIter /\ Calls' = 0
    BY <1>1, <1>10, Numbers DEF Calls
  <2>2. nt_global' = nt' * c'.nSubsteps /\ nt_global' <= nt' * c'.nSubsteps + 0
    BY <1>1, <1>5, <1>8
  <2>3. n_t_global' <= c'.n_TMax + 1 /\ pass' = 0 /\ firstPass_' /\ pc' = "main"
    BY <1>1, <1>8
  <2> QED BY <1>10, <2>1, <2>2, <2>3 DEF CountInv
<1>14. ClockInv' /\ TurbineInv' /\ StoredInv' /\ SoundInv'
  <2>1. \A t \in Turbines : T'[t] = Saved(t).T
    BY <1>2
  <2>2. Asked' = n
    BY <1>8, <1>10, <1>1 DEF Asked, Ahead
  <2>3. ClockInv'
    BY <1>8, <2>2 DEF ClockInv
  <2>4. \A t \in Turbines : Stage(t)' = "ready"
    BY <1>1, <1>10, SameSetUp DEF Stage
  <2>5. ASSUME NEW t \in Turbines PROVE n <= c.n_TMax => Ready(T'[t], n, Tracked)
    BY <1>7, <2>1
  <2>6. TurbineInv'
    BY <1>1, <1>8, <2>4, <2>5, SameSetUp, Numbers DEF TurbineInv, AtStage
  <2>7. StoredInv'
    BY <1>1, <1>10, SameSetUp DEF StoredInv
  <2>8. SoundInv'
    BY <1>1, <1>7, <2>1, SameSetUp DEF SoundInv
  <2> QED BY <2>3, <2>6, <2>7, <2>8
<1>15. FileInv'
  <2>1. m \in 0..c.nt_end
    <3>1. m <= m * c.restartFreq
      <4>1. ASSUME NEW a \in Nat, NEW f \in Nat \ {0} PROVE a <= a * f
        OBVIOUS
      <4> QED BY <4>1, Numbers
    <3> QED BY <1>4, <1>8, <3>1 DEF Scalars
  <2>2. \E j \in 0..c.nt_end : n = (j * c.restartFreq) * c.nSubsteps
    BY <1>4, <1>5, <2>1
  <2> QED BY <1>1, <1>8, <1>10, <1>11, <2>2, SameSetUp DEF FileInv
<1>16. SyncInv'
  BY <1>3, <1>10, <1>11, <1>1, SameSetUp DEF SyncInv
<1>17. LossInv'
  <2>1. k < (m + 1) * c.restartFreq
    BY <1>4 DEF Scalars
  <2> QED BY <1>1, <1>3, <1>8, <1>10, <1>11, <2>1, SameSetUp DEF LossInv
<1>18. c.strong => \A i \in Int : i <= k => WindAt(i)' = WindAt(i)
  BY <1>9 DEF WindAt
<1>19. ASSUME c.strong, NEW t \in Turbines, c.kind[t] = "ExtLd"
       PROVE  \A i \in Int : i = k => History(LastRecord(t).vel, i)'
  <2>1. History(LastRecord(t).vel, k)
    BY <1>6, <1>19
  <2>2. WindAt(k)' = WindAt(k) /\ WindAt(k - 1)' = WindAt(k - 1) /\ WindAt(k - 2)' = WindAt(k - 2)
    BY <1>18, <1>19
  <2> QED BY <1>11, <2>1, <2>2 DEF History
<1>20. HistoryInv'
  <2> SUFFICES ASSUME c.strong PROVE HistoryInv'
    BY <1>1 DEF HistoryInv
  <2>1. \A t \in Turbines : Exchanges(t)' => c.kind[t] = "ExtLd"
    BY <1>1 DEF Exchanges
  <2>2. \A t \in Turbines : c.kind[t] = "ExtLd" => \A i \in Int : i = k => History(vel[t], i)'
    <3> SUFFICES ASSUME NEW t \in Turbines, c.kind[t] = "ExtLd"
                 PROVE  \A i \in Int : i = k => History(vel[t], i)'
      OBVIOUS
    <3>1. vel'[t] = LastRecord(t)'.vel
      BY <1>2, <1>11
    <3> QED BY <1>19, <3>1 DEF History
  <2>3. \A t \in Turbines : /\ Saves(t)' * c'.restartFreq = k
                            /\ k \in Int
    BY <1>1, <1>3, <1>4, <1>11
  <2>4. nt' = k /\ Len(winds') = k
    BY <1>8, <1>9
  <2> QED BY <1>1, <1>10, <1>19, <2>1, <2>2, <2>3, <2>4, SameSetUp DEF HistoryInv
<1>21. SampleInv'
  BY <1>10 DEF SampleInv, Sampled
<1> QED BY <1>12, <1>13, <1>14, <1>15, <1>16, <1>17, <1>20, <1>21 DEF IInv

LEMMA InitEstablishes ==
  ASSUME Init, Orderly
  PROVE  IInv
<1>1. /\ c \in Configs /\ pc = "solution0" /\ iTurb = 1 /\ iSub = 1
      /\ nt = 0 /\ pass = 0 /\ firstPass_ = TRUE
      /\ nt_global = 0 /\ ntStart = 0 /\ n_t_global = 0
      /\ vel = [t \in Turbines |-> [s \in States |-> Wind0]]
      /\ T = [t \in Turbines |-> Solution0_T] /\ ext = [t \in Turbines |-> OwnWind]
      /\ chk = [t \in Turbines |-> {}] /\ rst = [t \in Turbines |-> <<>>]
      /\ winds = <<>> /\ life = 0
  BY DEF Init
<1>2. c \in ConfigType
  BY <1>1, DriverAssumption
<1>3. /\ NumTurbines \in Nat \ {0} /\ Turbines = 1..NumTurbines
      /\ c.nSubsteps \in Nat \ {0} /\ c.nIter \in Nat \ {0} /\ c.restartFreq \in Nat \ {0}
      /\ c.nt_end \in Nat /\ c.n_TMax \in Nat
      /\ Kept \in BOOLEAN /\ Tracked \in BOOLEAN
  <2>1. c.kind \in Seq({"ExtInfw", "ExtLd", "IfW"}) /\ c.kind /= <<>>
    BY <1>2 DEF ConfigType
  <2>2. NumTurbines \in Nat \ {0} /\ Turbines = 1..NumTurbines
    BY <2>1, EmptySeq DEF NumTurbines, Turbines
  <2> QED BY <1>2, <2>2 DEF ConfigType, Kept, Tracked
<1>4. TypeInv
  <2>1. /\ vel \in [Turbines -> [States -> Sample]] /\ ext \in [Turbines -> Seen]
    BY <1>1 DEF Sample, Seen, Wind0, OwnWind, NoWind
  <2>2. T \in [Turbines -> TurbineType]
    BY <1>1, Solution0Ready
  <2>3. inflowType \in [Turbines -> 0..2]
    BY DEF Init
  <2>4. chk \in [Turbines -> SUBSET CheckpointType] /\ rst \in [Turbines -> Seq(RecordType)]
    BY <1>1
  <2>5. /\ iTurb \in Turbines /\ iSub \in 1..c.nSubsteps
        /\ nt \in 0..c.nt_end /\ pass \in 0..c.nIter
    BY <1>1, <1>3
  <2>6. winds \in Seq(Sample) /\ life \in 0..MaxLives
    BY <1>1, DriverAssumption
  <2>7. nt_global \in Nat /\ ntStart \in Nat /\ n_t_global \in Nat /\ firstPass_ \in BOOLEAN
    BY <1>1
  <2> QED BY <1>1, <2>1, <2>2, <2>3, <2>4, <2>5, <2>6, <2>7 DEF TypeInv, Places
<1>5. ~After /\ ~InPass /\ ~Filing /\ ~Gone /\ ~Repeated /\ ~InStep /\ ~Writing
      /\ \A t \in Turbines : ~Written(t)
  BY <1>1 DEF After, InPass, Filing, Gone, Repeated, InStep, Writing, Written
<1>6. CountInv
  BY <1>1, <1>3, <1>5 DEF CountInv, Calls
<1>7. ClockInv /\ TurbineInv /\ StoredInv /\ SoundInv
  <2>1. \A t \in Turbines : Ready(T[t], 0, Tracked) /\ Sound(T[t], c.n_TMax, Kept)
    BY <1>1, <1>3, Solution0Ready
  <2>2. Asked = 0 /\ \A t \in Turbines : Stage(t) = "ready"
    BY <1>1, <1>5 DEF Asked, Ahead, Stage
  <2>3. ClockInv
    BY <1>1, <1>3, <2>2 DEF ClockInv
  <2>4. TurbineInv
    BY <1>1, <2>1, <2>2 DEF TurbineInv, AtStage
  <2> QED BY <1>1, <1>5, <2>1, <2>3, <2>4 DEF StoredInv, SoundInv
<1>8. \A t \in Turbines : rst[t] = <<>> /\ Saves(t) = 0 /\ chk[t] = {}
  BY <1>1 DEF Saves
<1>9. FileInv
  <2>1. 0 \in 0..c.nt_end /\ 0 = (0 * c.restartFreq) * c.nSubsteps /\ 0 * c.restartFreq <= c.nt_end
    BY <1>3
  <2> QED BY <1>1, <1>5, <1>8, <2>1 DEF FileInv
<1>10. SyncInv
  BY <1>5, <1>8 DEF SyncInv
<1>11. LossInv
  BY <1>1, <1>3, <1>5, <1>8 DEF LossInv
<1>12. HistoryInv
  <2>1. \A t \in Turbines : History(vel[t], 0)
    BY <1>1 DEF History, WindAt, States
  <2> QED BY <1>1, <1>5, <1>8, <2>1 DEF HistoryInv
<1> QED BY <1>4, <1>5, <1>6, <1>7, <1>9, <1>10, <1>11, <1>12 DEF IInv, SampleInv, Sampled

\* A step that changes nothing.
LEMMA StutterKeeps ==
  ASSUME IInv, UNCHANGED vars
  PROVE  IInv'
<1> USE DEF vars, driver, library, files
<1>1. /\ Turbines' = Turbines /\ NumTurbines' = NumTurbines
      /\ Tracked' = Tracked /\ Kept' = Kept
      /\ \A t : Saves(t)' = Saves(t) /\ LastRecord(t)' = LastRecord(t)
      /\ \A t : WindAt(t)' = WindAt(t)
      /\ \A t \in Turbines : Exchanges(t)' = Exchanges(t)
      /\ Due' = Due /\ RecordIndex' = RecordIndex
  BY DEF Turbines, NumTurbines, Tracked, Kept, Repeats, Saves, LastRecord, WindAt, Exchanges, Due,
         RecordIndex
<1>2. /\ (After' <=> After) /\ (InPass' <=> InPass)
      /\ (InStep' <=> InStep) /\ (Filing' <=> Filing)
      /\ (Repeated' <=> Repeated) /\ (Repeats' <=> Repeats)
      /\ (Gone' <=> Gone) /\ (Stepping' <=> Stepping)
      /\ (Writing' <=> Writing) /\ (\A t : Written(t)' <=> Written(t))
  BY DEF After, InPass, InStep, Filing, Repeated, Repeats, Gone, Stepping, Writing, Written, Due
<1>3. TypeInv'
  BY <1>1 DEF IInv, TypeInv
<1>4. CountInv'
  BY <1>2 DEF IInv, CountInv, Calls
<1>5. ClockInv'
  BY <1>2 DEF IInv, ClockInv, Asked, Ahead, Midway
<1>6. TurbineInv' /\ SoundInv'
  <2>1. \A t : Stage(t)' = Stage(t)
    BY <1>2 DEF Stage
  <2> QED BY <1>1, <1>2, <2>1 DEF IInv, TurbineInv, SoundInv, AtStage
<1>7. StoredInv'
  BY <1>1, <1>2 DEF IInv, StoredInv
<1>8. FileInv'
  BY <1>1, <1>2 DEF IInv, FileInv
<1>9. SyncInv' /\ LossInv'
  BY <1>1, <1>2 DEF IInv, SyncInv, LossInv
<1>10. HistoryInv' /\ SampleInv'
  BY <1>1, <1>2 DEF IInv, HistoryInv, History, SampleInv, Sampled, ThisPass
<1> QED BY <1>3, <1>4, <1>5, <1>6, <1>7, <1>8, <1>9, <1>10 DEF IInv

LEMMA SetUpStays ==
  ASSUME [Next]_vars
  PROVE  c' = c
  BY DEF Next, Process, Over, vars, Solution0, StartPass, PassDone, Output, EndOutput, EndStep,
         End, Store, Reset, ResetFails, Prework, UpdateStates, AdvanceToNextTimeStep,
         Checkpoint, Record, Stops, Restart

\* The invariant is inductive: one case per action.
LEMMA NextKeeps ==
  ASSUME OrderlyIInv, [Next]_vars
  PROVE  OrderlyIInv'
<1>1. Orderly /\ Orderly'
  BY SetUpStays, SameSetUp DEF OrderlyIInv
<1>2. IInv
  BY DEF OrderlyIInv
<1>3. ASSUME Solution0 \/ StartPass \/ PassDone \/ EndOutput \/ EndStep PROVE IInv'
  BY <1>1, <1>2, <1>3, Solution0Keeps, StartPassKeeps, PassDoneKeeps, EndOutputKeeps, EndStepKeeps
<1>4. ASSUME End \/ ResetFails \/ Stops PROVE IInv'
  BY <1>1, <1>2, <1>4, EndKeeps
<1>5. ASSUME Store \/ Reset \/ Prework \/ UpdateStates \/ AdvanceToNextTimeStep PROVE IInv'
  BY <1>1, <1>2, <1>5, StoreKeeps, ResetKeeps, PreworkKeeps, UpdateStatesKeeps, AdvanceKeeps
<1>6. ASSUME Output \/ Checkpoint \/ Record \/ Restart PROVE IInv'
  BY <1>1, <1>2, <1>6, OutputKeeps, CheckpointKeeps, RecordKeeps, RestartKeeps
<1>7. ASSUME Over \/ UNCHANGED vars PROVE IInv'
  BY <1>2, <1>7, StutterKeeps DEF Over
<1> QED BY <1>1, <1>3, <1>4, <1>5, <1>6, <1>7 DEF OrderlyIInv, Next, Process

-----------------------------------------------------------------------------
(* The theorems.                                                           *)

\* In every set-up within the limits of Orderly the turbines, the counters,
\* the restart files and the samples of wind stay in step, through repeated
\* passes, sub-steps, Store and Reset, failures and restarts, in both modes
\* and past the end of the simulation.
THEOREM StaysOrderly == Spec /\ Orderly => []OrderlyIInv
<1>1. Init /\ Orderly => OrderlyIInv
  BY InitEstablishes DEF OrderlyIInv
<1>2. OrderlyIInv /\ [Next]_vars => OrderlyIInv'
  BY NextKeeps
<1> QED BY <1>1, <1>2, PTL DEF Spec

\* The types; the library's counter passes the end of the simulation by one
\* at the most, however far the driver goes in the set-ups of Orderly.
THEOREM TypeCorrect == Spec /\ Orderly => []TypeOK
<1>1. OrderlyIInv => TypeOK
  <2> SUFFICES ASSUME OrderlyIInv PROVE TypeOK
    OBVIOUS
  <2> TypeInv /\ CountInv /\ Scalars
    BY SetUp DEF OrderlyIInv, IInv
  <2>1. n_t_global \in (IF TakenBackPastEnd THEN -c.nSubsteps ELSE 0)..c.n_TMax + 1
    <3>1. ~TakenBackPastEnd
      BY DEF OrderlyIInv, Orderly
    <3> QED BY <3>1 DEF CountInv, Scalars
  <2>2. DOMAIN vel = Turbines /\ DOMAIN T = Turbines /\ DOMAIN ext = Turbines
    BY DEF TypeInv
  <2>3. \A t \in Turbines : DOMAIN rst[t] = 1..Len(rst[t])
    BY LenProperties DEF TypeInv
  <2>4. \A t \in Turbines, s \in UNION {chk[u] : u \in Turbines} : s.n \in Nat
    BY DEF TypeInv, CheckpointType
  <2> QED BY <2>1, <2>2, <2>3, <2>4 DEF TypeInv, TypeOK, Places
<1> QED BY <1>1, StaysOrderly, PTL

\* At each driver step within the simulation all clocks show the same time.
THEOREM ClocksStayEqual == Spec /\ Orderly => []ClocksAgree
<1>1. OrderlyIInv => ClocksAgree
  <2> SUFFICES ASSUME OrderlyIInv, AtDriverStep PROVE ClocksAgree
    BY DEF ClocksAgree
  <2> IInv /\ TypeInv /\ CountInv /\ ClockInv /\ Scalars
    BY SetUp DEF OrderlyIInv, IInv
  <2>1. /\ pc = "main" /\ pass = 0 /\ firstPass_ /\ ~Gone
        /\ c.strong => nt_global = nt * c.nSubsteps
    BY DEF CountInv, AtDriverStep, Gone
  <2>2. Asked = nt_global /\ ~Midway /\ \A t \in Turbines : Stage(t) = "ready"
    BY <2>1, Numbers DEF Asked, Ahead, Midway, Stage, InStep, Repeated
  <2>3. nt_global <= c.n_TMax => n_t_global = nt_global
    BY <2>1, <2>2, Numbers DEF ClockInv
  <2>4. nt_global <= c.n_TMax => \A t \in Turbines : Ready(T[t], nt_global, Tracked)
    BY <2>1, <2>2, <2>3, ReadyThen
  <2> QED BY <2>1, <2>3, <2>4 DEF ClocksAgree, Ready, Curr, Trace
<1> QED BY <1>1, StaysOrderly, PTL

\* No step is taken beyond the end of the simulation, also by a driver that goes
\* on, unless it takes back sub-steps past the end; nothing else is asked of the
\* set-up than that several turbines are not torn apart by the end of a process.
THEOREM NeverOversteps == Spec /\ Together => []NoOverstep
<1>1. OrderlyIInv => NoOverstep
  BY DEF OrderlyIInv, IInv, SoundInv, Sound, StateIndex, NoOverstep, StepsWithinArrays
<1>2. TakenBackPastEnd /\ [Next]_vars => TakenBackPastEnd'
  BY SetUpStays DEF TakenBackPastEnd
<1>3. TakenBackPastEnd => NoOverstep
  BY DEF NoOverstep
<1>4. Together => Orderly \/ TakenBackPastEnd
  BY DEF Orderly
<1> QED BY <1>1, <1>2, <1>3, <1>4, StaysOrderly, PTL DEF Spec

\* No step mixes trajectories, unless Reset has to restore accelerations of
\* tightly coupled modules.
THEOREM StepsStayClean == Spec /\ Orderly /\ Kept => []CleanSteps
<1>1. OrderlyIInv /\ Kept => CleanSteps
  BY DEF OrderlyIInv, IInv, SoundInv, Sound, StateIndex, CleanSteps, Trace
<1>2. Kept /\ [Next]_vars => Kept'
  BY SetUpStays, SameSetUp
<1> QED BY <1>1, <1>2, StaysOrderly, PTL DEF Spec

\* The driver's samples are those of the last three accepted steps.
THEOREM SamplesStayHistory == Spec /\ Orderly => []SamplesAreHistory
<1>1. OrderlyIInv => SamplesAreHistory
  <2> SUFFICES ASSUME OrderlyIInv, AtDriverStep, c.strong, NEW t \in Turbines, Exchanges(t)
               PROVE  LET Wind(k) == IF k < 1 THEN Wind0 ELSE winds[k] IN
                      /\ vel[t]["N"] = Wind(nt) /\ vel[t]["NM1"] = Wind(nt - 1)
                      /\ vel[t]["NM2"] = Wind(nt - 2)
    BY DEF SamplesAreHistory
  <2>1. pc = "main" /\ ~After
    BY DEF AtDriverStep, After, Filing
  <2>2. History(vel[t], nt)
    BY <2>1 DEF OrderlyIInv, IInv, HistoryInv
  <2> QED BY <2>2 DEF History, WindAt
<1> QED BY <1>1, StaysOrderly, PTL

\* The last record of each restart file names a checkpoint of its step, if
\* that step is within the simulation.
THEOREM RestartPointStays == Spec /\ Orderly => []RestartPointExists
<1>1. OrderlyIInv => RestartPointExists
  <2> SUFFICES ASSUME OrderlyIInv, NEW t \in Turbines, rst[t] /= <<>>,
                      LastRecord(t).n <= c.n_TMax
               PROVE  /\ Restartable(t) /\ Saved(t).T.t_global = LastRecord(t).n
                      /\ Len(Saved(t).T.State["CURR"]) = LastRecord(t).n
    BY DEF RestartPointExists
  <2>1. \E s \in chk[t] : s.n = LastRecord(t).n
    BY DEF OrderlyIInv, IInv, FileInv
  <2>2. Saved(t) \in chk[t] /\ Saved(t).n = LastRecord(t).n
    BY <2>1 DEF Saved
  <2>3. Ready(Saved(t).T, Saved(t).n, Tracked)
    BY <2>2 DEF OrderlyIInv, IInv, FileInv
  <2> QED BY <2>1, <2>2, <2>3 DEF Restartable, Ready, Curr
<1> QED BY <1>1, StaysOrderly, PTL

\* A restart gives up fewer driver steps than there are between two records.
THEOREM LossStaysBounded == Spec /\ Orderly => LossBounded
<1>1. OrderlyIInv /\ OrderlyIInv' => [c.strong /\ Restart => nt - nt' < c.restartFreq]_vars
  <2> SUFFICES ASSUME OrderlyIInv, OrderlyIInv', c.strong, Restart
               PROVE  nt - nt' < c.restartFreq
    OBVIOUS
  <2> Scalars
    BY SetUp DEF OrderlyIInv, IInv
  <2>1. c' = c /\ rst' = rst /\ pc' = "main" /\ Restartable(1) /\ 1 \in Turbines
    <3>1. 1 \in Turbines
      BY DEF Scalars
    <3> QED BY <3>1 DEF Restart, files
  <2>2. PICK m \in Nat : m = Saves(1) /\ m = Saves(1)' /\ rst'[1] /= <<>>
    <3>1. rst[1] \in Seq(RecordType) /\ rst[1] /= <<>>
      BY <2>1 DEF OrderlyIInv, IInv, TypeInv, Restartable
    <3> QED BY <2>1, <3>1, LenProperties DEF Saves
  <2>3. nt < (m + 1) * c.restartFreq
    BY <2>1, <2>2 DEF OrderlyIInv, IInv, LossInv
  <2>4. m * c.restartFreq <= nt' /\ nt' \in Nat
    <3>1. Len(winds)' = nt' /\ 1 \in Turbines'
      BY <2>1, SameSetUp DEF OrderlyIInv, IInv, HistoryInv, After, Filing
    <3>2. (Saves(1) * c.restartFreq)' <= Len(winds)'
      BY <2>1, <2>2, <3>1 DEF OrderlyIInv, IInv, HistoryInv
    <3>3. nt' \in Nat
      BY <2>1 DEF OrderlyIInv, IInv, TypeInv, Scalars
    <3> QED BY <2>1, <2>2, <3>1, <3>2, <3>3
  <2>5. (m + 1) * c.restartFreq = m * c.restartFreq + c.restartFreq
    <3>1. \A a, f \in Nat : (a + 1) * f = a * f + f
      OBVIOUS
    <3> QED BY <2>2, <3>1 DEF Scalars
  <2> QED BY <2>3, <2>4, <2>5, ProductNat DEF Scalars
<1> QED BY <1>1, StaysOrderly, PTL DEF LossBounded

=============================================================================
