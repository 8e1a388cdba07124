---------------------- MODULE CoupledRefinement_proofs ----------------------
(***************************************************************************)
(* CoupledDriver implements CoupledSteps: whatever is repeated, taken back, *)
(* saved and restarted, each turbine has taken, for each driver step that   *)
(* was accepted, nSubsteps time steps under the winds of that driver step.  *)
(*                                                                         *)
(* Only two actions are steps of CoupledSteps: Output (a driver step) and   *)
(* Restart (going back).  The others leave the first nt_global steps of     *)
(* each turbine's trace alone.                                             *)
(***************************************************************************)
EXTENDS CoupledDriver_proofs

\* The accepted steps of a turbine.
Base(t) == Past(Curr(T[t]), nt_global)

\* What the i-th time step of a driver step is driven by.
Wanted(t, v0, v1, i) ==
    IF c.kind[t] = "IfW" THEN OwnWind ELSE Blend(v0, v1, i, c.nSubsteps)

\* The steps of a trace that are of the present pass.
OfThisPass(t, h) ==
    \A i \in 1..c.nSubsteps : nt_global + i <= Len(h) =>
        h[nt_global + i].vel = Wanted(t, WindAt(nt), ThisPass, i)

-----------------------------------------------------------------------------
(* The invariant, in set-ups that are Followed.                            *)

\* A turbine follows the driver from Init on, and after a restart.
InflowInv ==
    /\ pc /= "down" => \A t \in Turbines : Exchanges(t) <=> c.kind[t] /= "IfW"
    /\ pc = "down" => \A t \in Turbines : c.kind[t] /= "ExtInfw"
    /\ \A t \in Turbines : c.kind[t] = "IfW" =>
           ext[t] = OwnWind /\ \A s \in chk[t] : s.ext = OwnWind

\* What Reset goes back to has the accepted steps.
Kindred(t) == T[t].State["SAVED_CURR"] = Base(t)

SavedInv ==
    c.nSubsteps > 1 => \A t \in Turbines :
        /\ pc = "store" /\ t < iTurb => Kindred(t)
        /\ InStep \/ pc \in {"reset", "passdone"} \/ Repeated => Kindred(t)

\* So has what a restart goes back to.
CheckpointInv ==
    /\ nt_global = Len(winds) * c.nSubsteps
    /\ \A t \in Turbines : nt_global <= Len(Curr(T[t]))
    /\ \A t \in Turbines : rst[t] /= <<>> => \A s \in chk[t] :
           s.n = LastRecord(t).n => Curr(s.T) = Past(Base(t), s.n)
    /\ pc = "record" => \A s \in chk[iTurb] : s.n = nt_global => Curr(s.T) = Base(iTurb)

\* The states that an advance is going to accept.
Newest(t) ==
    IF c.nSubsteps = 1
    THEN \/ pc = "update" /\ t < iTurb
         \/ pc = "passdone"
         \/ pc = "advance" /\ ~(t < iTurb)
    ELSE pc = "advance" /\ t = iTurb

PassInv ==
    \A t \in Turbines :
        /\ pc \in {"store", "prework", "update", "advance", "passdone", "output"}
               => OfThisPass(t, Curr(T[t]))
        /\ pc = "reset" /\ t < iTurb => OfThisPass(t, Curr(T[t]))
        /\ Newest(t) => OfThisPass(t, T[t].State["PRED"])

WindInv == InflowInv /\ SavedInv /\ CheckpointInv /\ PassInv

\* Nothing is accepted or taken back: what CoupledSteps shows stays.
Stays ==
    /\ c' = c /\ nt_global' = nt_global /\ winds' = winds
    /\ \A t \in Turbines : Base(t)' = Base(t)
-----------------------------------------------------------------------------
(* Traces.                                                                 *)

\* The beginning of a trace has its steps.
LEMMA PastElement ==
  ASSUME NEW h \in Trajectory, NEW n \in Nat, n <= Len(h), NEW k \in 1..n
  PROVE  Past(h, n)[k] = h[k]
  BY SubSeqProperties DEF Past, Trajectory

\* A trace of the accepted steps only has none of the present pass.
LEMMA NoneOfThisPass ==
  ASSUME NEW t, NEW h, Len(h) = nt_global, nt_global \in Nat, c.nSubsteps \in Nat
  PROVE  OfThisPass(t, h)
  BY DEF OfThisPass

LEMMA StatesAreTraces ==
  ASSUME TypeInv, NEW t \in Turbines
  PROVE  /\ Curr(T[t]) \in Trajectory /\ T[t].State["PRED"] \in Trajectory
         /\ T[t].State["SAVED_CURR"] \in Trajectory
  BY DEF TypeInv, TurbineType, Curr, StateIndex

-----------------------------------------------------------------------------
(* Where the code can follow the driver, the clocks are within n_TMax.     *)

\* The end of a driver step that is begun is within the simulation.
LEMMA StepFits ==
  ASSUME IInv, Followed, nt < c.nt_end
  PROVE  /\ c.strong /\ (Stepping <=> c.nSubsteps > 1)
         /\ pc \in {"main", "solution0"} \/ InPass => nt_global + c.nSubsteps <= c.n_TMax
         /\ After => nt_global <= c.n_TMax
<1> TypeInv /\ CountInv /\ Scalars
  BY SetUp DEF IInv
<1>1. c.strong /\ c.nt_end * c.nSubsteps <= c.n_TMax /\ (Stepping <=> c.nSubsteps > 1)
  BY DEF Followed, Stepping
<1>2. PICK S \in Nat \ {0}, n \in Nat, e \in Nat :
         S = c.nSubsteps /\ n = nt /\ e = c.nt_end /\ n + 1 <= e
  BY Numbers
<1>3. (n + 1) * S <= e * S /\ (n + 1) * S \in Nat /\ e * S \in Nat
  BY <1>2, Monotone, ProductNat
<1>4. (n + 1) * S = n * S + S
  OBVIOUS
<1>5. pc \in {"main", "solution0"} \/ InPass => nt_global = n * S
  BY <1>1, <1>2 DEF CountInv
<1>6. After => nt_global = (n + 1) * S
  BY <1>1, <1>2 DEF CountInv
<1> QED BY <1>1, <1>2, <1>3, <1>4, <1>5, <1>6, Numbers

\* Inside a time step the library's counter is the sub-step, and not at the end.
LEMMA StepTaken ==
  ASSUME IInv, Followed, InStep
  PROVE  /\ n_t_global = nt_global + iSub - 1 /\ n_t_global \in Nat
         /\ n_t_global >= nt_global /\ ~Finished
         /\ \A t \in Turbines : AtStage(T[t], Stage(t), n_t_global)
<1> TypeInv /\ CountInv /\ ClockInv /\ TurbineInv /\ Scalars
  BY SetUp DEF IInv
<1>1. InPass /\ nt < c.nt_end /\ ~Gone /\ pc /= "reset"
  BY DEF InStep, InPass, Gone, CountInv
<1>2. c.strong /\ nt_global + c.nSubsteps <= c.n_TMax
  BY <1>1, StepFits
<1>3. Asked = nt_global + (iSub - 1) /\ iSub >= 1 /\ iSub <= c.nSubsteps /\ iSub \in Nat
  BY <1>2 DEF Asked, Ahead, Scalars
<1>4. Asked < c.n_TMax
  BY <1>2, <1>3, Numbers
<1>5. n_t_global = Asked /\ n_t_global < c.n_TMax
  BY <1>1, <1>4 DEF ClockInv
<1>6. ~Finished
  BY <1>5, Numbers DEF Finished
<1> QED BY <1>1, <1>3, <1>5, <1>6, Numbers DEF TurbineInv

\* Between time steps the turbines are ready for the next one.
LEMMA AllReady ==
  ASSUME IInv, Followed, nt < c.nt_end,
         pc \in {"store", "output"} \/ (pc = "main" /\ firstPass_)
  PROVE  \A t \in Turbines :
            Ready(T[t], IF pc = "output" THEN nt_global + c.nSubsteps ELSE nt_global, Tracked)
<1> TypeInv /\ CountInv /\ ClockInv /\ TurbineInv /\ Scalars
  BY SetUp DEF IInv
<1>1. c.strong /\ nt_global + c.nSubsteps <= c.n_TMax
  BY StepFits DEF InPass
<1>2. ~Gone /\ pc /= "reset" /\ ~InStep /\ ~Repeated /\ ~Midway
  BY DEF Gone, InStep, Repeated, Midway
<1>3. Asked = IF pc = "output" THEN nt_global + c.nSubsteps ELSE nt_global
  BY <1>1, <1>2, Numbers DEF Asked, Ahead
<1>4. Asked <= c.n_TMax
  BY <1>1, <1>3, Numbers
<1>5. n_t_global = Asked
  BY <1>2, <1>3, <1>4, Numbers DEF ClockInv
<1>6. \A t \in Turbines : Stage(t) = "ready"
  BY <1>2 DEF Stage, InStep
<1> QED BY <1>2, <1>3, <1>4, <1>5, <1>6, ReadyThen

-----------------------------------------------------------------------------
(* Parts of the invariant that most actions keep alike.                    *)

\* The process goes on; what is sent to turbines is sent to those that follow.
LEMMA InflowKeeps ==
  ASSUME IInv, InflowInv, c' = c, inflowType' = inflowType, chk' = chk,
         pc /= "down", pc' /= "down",
         ext' = ext \/ \E k \in Nat : SendData(k)
  PROVE  InflowInv'
<1>1. Turbines' = Turbines /\ \A t \in Turbines : Exchanges(t)' = Exchanges(t)
  BY SameSetUp DEF Exchanges
<1>2. \A t \in Turbines : c.kind[t] = "IfW" => ext'[t] = ext[t]
  BY DEF SendData, InflowInv
<1> QED BY <1>1, <1>2 DEF InflowInv

LEMMA CheckpointKept ==
  ASSUME CheckpointInv, Stays, chk' = chk, rst' = rst, pc' /= "record",
         \A t \in Turbines : nt_global <= Len(Curr(T'[t]))
  PROVE  CheckpointInv'
<1> USE DEF Stays
<1>1. Turbines' = Turbines /\ \A t : LastRecord(t)' = LastRecord(t)
  BY SameSetUp DEF LastRecord
<1> QED BY <1>1 DEF CheckpointInv

\* The last record is of an accepted step.
LEMMA LastWithin ==
  ASSUME IInv, Followed, CheckpointInv, NEW t \in Turbines, rst[t] /= <<>>
  PROVE  LastRecord(t).n \in Nat /\ LastRecord(t).n <= nt_global
<1> TypeInv /\ FileInv /\ HistoryInv /\ Scalars
  BY SetUp DEF IInv
<1>1. Saves(t) \in Nat /\ Len(winds) \in Nat
  BY DEF Saves, TypeInv
<1>2. PICK k \in Nat : k = Saves(t) * c.restartFreq
  BY <1>1, ProductNat, Numbers
<1>3. LastRecord(t).n = k * c.nSubsteps /\ k <= Len(winds)
  BY <1>2 DEF FileInv, HistoryInv, Followed
<1>4. k * c.nSubsteps <= Len(winds) * c.nSubsteps /\ k * c.nSubsteps \in Nat
  BY <1>1, <1>3, Monotone, ProductNat, Numbers
<1> QED BY <1>3, <1>4 DEF CheckpointInv

\* No place in a pass.
LEMMA NoPassInv ==
  ASSUME pc' \notin {"store", "reset", "prework", "update", "advance", "passdone", "output"},
         ~Repeated'
  PROVE  SavedInv' /\ PassInv'
  BY DEF SavedInv, PassInv, Newest, InStep

-----------------------------------------------------------------------------
(* The driver's own steps.                                                 *)

LEMMA DriverKeepsWind ==
  ASSUME Orderly, IInv, IInv', Followed, WindInv,
         Solution0 \/ EndOutput \/ EndStep \/ End
  PROVE  WindInv' /\ Stays
<1> TypeInv /\ CountInv /\ Scalars
  BY SetUp DEF IInv
<1>1. /\ c' = c /\ inflowType' = inflowType /\ chk' = chk /\ rst' = rst /\ winds' = winds
      /\ nt_global' = nt_global /\ T' = T /\ firstPass_' = firstPass_
      /\ pc \in {"solution0", "endoutput", "endstep", "main"}
      /\ pc' \in {"main", "endstep", "ended"}
      /\ pc' = "main" => pc \in {"solution0", "endstep"}
      /\ ext' = ext \/ SendData(c.nSubsteps)
  BY DEF Solution0, EndOutput, EndStep, End, driver, library, files, Followed
<1>2. InflowInv'
  BY <1>1, InflowKeeps, Numbers DEF WindInv
<1>3. Stays /\ CheckpointInv'
  <2>1. Stays
    BY <1>1 DEF Stays, Base
  <2> QED BY <1>1, <2>1, CheckpointKept DEF WindInv, CheckpointInv
<1>4. pc' = "main" => firstPass_'
  BY <1>1 DEF CountInv, After
<1>5. SavedInv' /\ PassInv'
  BY <1>1, <1>4, NoPassInv DEF Repeated
<1> QED BY <1>2, <1>3, <1>5 DEF WindInv

LEMMA StartPassKeepsWind ==
  ASSUME Orderly, IInv, IInv', Followed, WindInv, StartPass
  PROVE  WindInv' /\ Stays
<1> TypeInv /\ CountInv /\ ClockInv /\ TurbineInv /\ Scalars
  BY SetUp DEF IInv
<1>1. /\ c' = c /\ pc = "main" /\ iTurb' = 1 /\ nt < c.nt_end
      /\ UNCHANGED <<firstPass_, nt_global, inflowType, T, ext, chk, rst, winds>>
      /\ pc' = IF c.nSubsteps = 1 THEN IF firstPass_ THEN "prework" ELSE "update"
                                  ELSE IF firstPass_ THEN "store" ELSE "reset"
  BY DEF StartPass, library, files, Followed
<1>2. /\ Turbines' = Turbines /\ Tracked' = Tracked
      /\ \A t \in Turbines : ~(t < iTurb') /\ Base(t)' = Base(t)
  BY <1>1, SameSetUp, TurbineRange DEF Base
<1>3. pc' \in {"prework", "update", "store", "reset"}
  BY <1>1
<1>4. InflowInv'
  BY <1>1, <1>3, InflowKeeps DEF WindInv
<1>5. Stays /\ CheckpointInv'
  <2>1. Stays
    BY <1>1, <1>2 DEF Stays
  <2> QED BY <1>1, <1>3, <2>1, CheckpointKept DEF WindInv, CheckpointInv
<1>6. SavedInv'
  <2> SUFFICES ASSUME c.nSubsteps > 1, NEW t \in Turbines, pc' \notin {"store"}
               PROVE  Kindred(t)'
    BY <1>1, <1>2 DEF SavedInv, InStep, Repeated
  <2>1. Repeated
    BY <1>1, Numbers DEF Repeated
  <2> QED BY <1>1, <1>2, <2>1 DEF WindInv, SavedInv, Kindred
<1>7. PassInv'
  <2>1. ASSUME NEW t \in Turbines, pc' \in {"store", "prework", "update"}
        PROVE  OfThisPass(t, Curr(T[t]))'
    <3>1. Len(Curr(T[t])) = nt_global
      <4>1. CASE firstPass_
        <5>1. Ready(T[t], nt_global, Tracked)
          BY <1>1, <4>1, AllReady
        <5> QED BY <5>1 DEF Ready
      <4>2. CASE ~firstPass_ /\ c.nSubsteps = 1
        <5>1. ~Stepping /\ Repeated /\ ~Gone /\ nt_global + 1 <= c.n_TMax
          BY <1>1, <4>2, StepFits, Numbers DEF Repeated, Gone
        <5>2. Asked = nt_global /\ Stage(t) = "predicted"
          BY <1>1, <5>1, Numbers DEF Asked, Ahead, InStep, Stage
        <5>3. n_t_global = nt_global /\ n_t_global < c.n_TMax
          BY <5>1, <5>2, Numbers DEF ClockInv
        <5>4. Predicted(T[t], nt_global, Tracked)
          BY <1>1, <5>1, <5>2, <5>3 DEF TurbineInv, AtStage
        <5> QED BY <5>4 DEF Predicted, Guessed, Clean, Curr
      <4>3. CASE ~firstPass_ /\ c.nSubsteps > 1
        BY <1>1, <2>1, <4>3, Numbers
      <4> QED BY <4>1, <4>2, <4>3, Numbers
    <3> QED BY <1>1, <3>1, Numbers DEF OfThisPass, Curr
  <2>2. \A t \in Turbines : ~Newest(t)'
    BY <1>1, <1>2, <1>3 DEF Newest
  <2> QED BY <1>2, <1>3, <2>1, <2>2 DEF PassInv
<1> QED BY <1>4, <1>5, <1>6, <1>7 DEF WindInv

LEMMA PassDoneKeepsWind ==
  ASSUME Orderly, IInv, IInv', Followed, WindInv, PassDone
  PROVE  WindInv' /\ Stays
<1> TypeInv /\ CountInv /\ Scalars
  BY SetUp DEF IInv
<1>1. /\ c' = c /\ pc = "passdone"
      /\ UNCHANGED <<iTurb, nt, pass, life, nt_global, inflowType, T, ext, chk, rst, winds>>
      /\ pc' = IF pass < c.nIter THEN "main"
               ELSE IF c.nSubsteps > 1 THEN "output" ELSE "advance"
  BY Numbers DEF PassDone, library, files, Followed, Stepping
<1>2. /\ Turbines' = Turbines /\ \A t \in Turbines : Base(t)' = Base(t) /\ Kindred(t)' = Kindred(t)
      /\ pc' \in {"main", "output", "advance"}
  BY <1>1, SameSetUp DEF Base, Kindred
<1>3. InflowInv'
  BY <1>1, <1>2, InflowKeeps DEF WindInv
<1>4. Stays /\ CheckpointInv'
  <2>1. Stays
    BY <1>1, <1>2 DEF Stays
  <2> QED BY <1>1, <1>2, <2>1, CheckpointKept DEF WindInv, CheckpointInv
<1>5. SavedInv'
  BY <1>1, <1>2 DEF WindInv, SavedInv
<1>6. PassInv'
  <2>1. \A t : \A h : OfThisPass(t, h)' <=> OfThisPass(t, h)
    BY <1>1 DEF OfThisPass, WindAt, ThisPass, Wanted
  <2>2. \A t \in Turbines : OfThisPass(t, Curr(T[t]))
    BY <1>1 DEF WindInv, PassInv
  <2>3. ASSUME NEW t \in Turbines, Newest(t)' PROVE OfThisPass(t, T[t].State["PRED"])
    <3>1. c.nSubsteps = 1
      BY <1>1, <2>3, Numbers DEF Newest
    <3> QED BY <1>1, <3>1 DEF WindInv, PassInv, Newest
  <2>4. /\ \A t \in Turbines : OfThisPass(t, Curr(T[t]))' <=> OfThisPass(t, Curr(T[t]))
        /\ \A t \in Turbines :
              OfThisPass(t, T[t].State["PRED"])' <=> OfThisPass(t, T[t].State["PRED"])
    BY <1>1 DEF OfThisPass, WindAt, ThisPass, Wanted
  <2> QED BY <1>2, <2>2, <2>3, <2>4 DEF PassInv
<1> QED BY <1>3, <1>4, <1>5, <1>6 DEF WindInv

-----------------------------------------------------------------------------
(* The library calls for one turbine.                                      *)

\* One turbine moves, inside a pass; its accepted steps stay.
LEMMA TurbineMoves ==
  ASSUME IInv, WindInv, NEW i \in Turbines, NEW Y,
         c' = c, T' = [T EXCEPT ![i] = Y],
         UNCHANGED <<nt, pass, life, nt_global, inflowType, chk, rst, winds>>,
         ext' = ext \/ \E k \in Nat : SendData(k),
         InPass, InPass',
         Past(Curr(Y), nt_global) = Base(i), nt_global <= Len(Curr(Y))
  PROVE  /\ InflowInv' /\ CheckpointInv' /\ Stays
         /\ Turbines' = Turbines /\ T'[i] = Y /\ \A t \in Turbines \ {i} : T'[t] = T[t]
         /\ \A t \in Turbines \ {i} :
               /\ Kindred(t)' <=> Kindred(t)
               /\ OfThisPass(t, Curr(T[t]))' <=> OfThisPass(t, Curr(T[t]))
               /\ OfThisPass(t, T[t].State["PRED"])' <=> OfThisPass(t, T[t].State["PRED"])
         /\ Kindred(i)' <=> Y.State["SAVED_CURR"] = Base(i)
         /\ OfThisPass(i, Curr(T[i]))' <=> OfThisPass(i, Curr(Y))
         /\ OfThisPass(i, T[i].State["PRED"])' <=> OfThisPass(i, Y.State["PRED"])
<1>1. /\ Turbines' = Turbines /\ T'[i] = Y /\ \A t \in Turbines \ {i} : T'[t] = T[t]
      /\ pc \notin {"down", "record"} /\ pc' \notin {"down", "record"}
  BY SameSetUp DEF IInv, TypeInv, InPass
<1>2. InflowInv'
  BY <1>1, InflowKeeps DEF WindInv
<1>3. \A t \in Turbines : Base(t)' = Base(t) /\ nt_global <= Len(Curr(T'[t]))
  BY <1>1 DEF Base, Curr, WindInv, CheckpointInv
<1>4. Stays /\ CheckpointInv'
  <2>1. Stays
    BY <1>3 DEF Stays
  <2> QED BY <1>1, <1>3, <2>1, CheckpointKept DEF WindInv
<1>5. /\ \A t \in Turbines \ {i} : Kindred(t)' <=> Kindred(t)
      /\ Kindred(i)' <=> Y.State["SAVED_CURR"] = Base(i)
  BY <1>1, <1>3 DEF Kindred
<1>6. \A t \in Turbines \ {i} :
         /\ OfThisPass(t, Curr(T[t]))' <=> OfThisPass(t, Curr(T[t]))
         /\ OfThisPass(t, T[t].State["PRED"])' <=> OfThisPass(t, T[t].State["PRED"])
  BY <1>1 DEF OfThisPass, Curr, WindAt, ThisPass, Wanted
<1>7. /\ OfThisPass(i, Curr(T[i]))' <=> OfThisPass(i, Curr(Y))
      /\ OfThisPass(i, T[i].State["PRED"])' <=> OfThisPass(i, Y.State["PRED"])
  BY <1>1 DEF OfThisPass, Curr, WindAt, ThisPass, Wanted
<1> QED BY <1>1, <1>2, <1>4, <1>5, <1>6, <1>7

LEMMA StoreKeepsWind ==
  ASSUME Orderly, IInv, IInv', Followed, WindInv, Store
  PROVE  WindInv' /\ Stays
<1> TypeInv /\ CountInv /\ Scalars
  BY SetUp DEF IInv
<1>0. PICK i \in Turbines : i = iTurb
  BY TurbineRange
<1>1. PICK Y : Y = Store_SubStep_T(T[i])
  OBVIOUS
<1>2. /\ c' = c /\ pc = "store" /\ T' = [T EXCEPT ![i] = Y]
      /\ UNCHANGED <<iSub, driver, n_t_global, ext, files, winds, life>>
      /\ \/ i < NumTurbines /\ iTurb' = i + 1 /\ pc' = "store"
         \/ i = NumTurbines /\ iTurb' = 1 /\ pc' = "prework"
  BY <1>0, <1>1, TurbineRange DEF Store, NextTurbine
<1> USE DEF driver, files
<1>3. c.nSubsteps > 1 /\ Ready(T[i], nt_global, Tracked)
  <2>1. nt < c.nt_end
    BY <1>2 DEF CountInv, InPass
  <2> QED BY <1>2, <2>1, AllReady DEF CountInv
<1>4. /\ Curr(Y) = Curr(T[i]) /\ Y.State["SAVED_CURR"] = Curr(T[i])
      /\ Y.State["PRED"] = T[i].State["PRED"]
  <2>1. Y.State = [T[i].State EXCEPT !["SAVED_CURR"] = T[i].State["CURR"],
                                     !["SAVED_PRED"] = T[i].State["PRED"]]
    <3>1. T[i] \in TurbineType
      BY DEF TypeInv
    <3> QED BY <1>1, <3>1 DEF Store_SubStep_T, TurbineType
  <2>2. T[i].State \in [StateIndex -> Trajectory]
    BY DEF TypeInv, TurbineType
  <2> QED BY <2>1, <2>2 DEF StateIndex, Curr
<1>5. Base(i) = Curr(T[i]) /\ Len(Curr(T[i])) = nt_global
  BY <1>3, StatesAreTraces, WholePast DEF Base, Ready
<1>6. InPass /\ InPass' /\ Past(Curr(Y), nt_global) = Base(i) /\ nt_global <= Len(Curr(Y))
  BY <1>2, <1>4, <1>5, Numbers DEF InPass, Base
<1>7. /\ InflowInv' /\ CheckpointInv' /\ Stays /\ Turbines' = Turbines
      /\ \A t \in Turbines \ {i} :
               /\ Kindred(t)' <=> Kindred(t)
               /\ OfThisPass(t, Curr(T[t]))' <=> OfThisPass(t, Curr(T[t]))
      /\ Kindred(i)' <=> Y.State["SAVED_CURR"] = Base(i)
      /\ OfThisPass(i, Curr(T[i]))' <=> OfThisPass(i, Curr(Y))
  BY <1>2, <1>6, TurbineMoves
<1>8. SavedInv'
  <2>1. \A t \in Turbines : t < i => Kindred(t)
    BY <1>0, <1>2, <1>3 DEF WindInv, SavedInv
  <2>2. \A t \in Turbines : t < i \/ t = i => Kindred(t)'
    BY <1>4, <1>5, <1>7, <2>1
  <2>3. CASE i < NumTurbines
    <3>1. pc' = "store" /\ \A t \in Turbines : t < iTurb' => t < i \/ t = i
      BY <1>2, <2>3, TurbineRange
    <3> QED BY <1>7, <2>2, <3>1 DEF SavedInv, InStep, Repeated
  <2>4. CASE i = NumTurbines
    <3>1. \A t \in Turbines : t < i \/ t = i
      BY <2>4, TurbineRange
    <3> QED BY <1>7, <2>2, <3>1 DEF SavedInv
  <2> QED BY <2>3, <2>4, TurbineRange
<1>9. PassInv'
  <2>1. \A t \in Turbines : OfThisPass(t, Curr(T[t]))'
    BY <1>2, <1>4, <1>7 DEF WindInv, PassInv
  <2> QED BY <1>2, <1>3, <1>7, <2>1 DEF PassInv, Newest
<1> QED BY <1>7, <1>8, <1>9 DEF WindInv

LEMMA ResetKeepsWind ==
  ASSUME Orderly, IInv, IInv', Followed, WindInv, Reset
  PROVE  WindInv' /\ Stays
<1> TypeInv /\ CountInv /\ StoredInv /\ Scalars
  BY SetUp DEF IInv
<1>0. PICK i \in Turbines : i = iTurb
  BY TurbineRange
<1>1. PICK Y : Y = Reset_SubStep_T(T[i], n_t_global - c.nSubsteps)
  OBVIOUS
<1>2. /\ c' = c /\ pc = "reset" /\ T' = [T EXCEPT ![i] = Y]
      /\ UNCHANGED <<iSub, driver, ext, files, winds, life>>
      /\ \/ i < NumTurbines /\ iTurb' = i + 1 /\ pc' = "reset"
         \/ i = NumTurbines /\ iTurb' = 1 /\ pc' = "prework"
  BY <1>0, <1>1, TurbineRange DEF Reset, NextTurbine
<1> USE DEF driver, files
<1>3. c.nSubsteps > 1 /\ \A t \in Turbines : Kindred(t) /\ Stored(T[t], nt_global)
  <2>1. c.nSubsteps > 1 /\ Repeats
    BY <1>2, Numbers DEF CountInv, TypeInv, Followed, Repeats
  <2> QED BY <1>2, <2>1 DEF StoredInv, WindInv, SavedInv
<1>4. /\ Curr(Y) = T[i].State["SAVED_CURR"] /\ Y.State["SAVED_CURR"] = T[i].State["SAVED_CURR"]
  <2>1. Y.State = [T[i].State EXCEPT !["CURR"] = T[i].State["SAVED_CURR"],
                                     !["PRED"] = T[i].State["SAVED_PRED"]]
    <3>1. T[i] \in TurbineType
      BY DEF TypeInv
    <3> QED BY <1>1, <3>1 DEF Reset_SubStep_T, TurbineType
  <2>2. T[i].State \in [StateIndex -> Trajectory]
    BY DEF TypeInv, TurbineType
  <2> QED BY <2>1, <2>2 DEF StateIndex, Curr
<1>5. Curr(Y) = Base(i) /\ Len(Curr(Y)) = nt_global /\ Y.State["SAVED_CURR"] = Base(i)
  BY <1>3, <1>4 DEF Kindred, Stored
<1>6. InPass /\ InPass' /\ Past(Curr(Y), nt_global) = Base(i) /\ nt_global <= Len(Curr(Y))
  <2>1. Curr(Y) \in Trajectory
    BY <1>4, StatesAreTraces
  <2> QED BY <1>2, <1>5, <2>1, WholePast, Numbers DEF InPass
<1>7. /\ InflowInv' /\ CheckpointInv' /\ Stays /\ Turbines' = Turbines
      /\ \A t \in Turbines \ {i} :
               /\ Kindred(t)' <=> Kindred(t)
               /\ OfThisPass(t, Curr(T[t]))' <=> OfThisPass(t, Curr(T[t]))
      /\ Kindred(i)' <=> Y.State["SAVED_CURR"] = Base(i)
      /\ OfThisPass(i, Curr(T[i]))' <=> OfThisPass(i, Curr(Y))
  BY <1>2, <1>6, TurbineMoves
<1>8. SavedInv'
  BY <1>3, <1>5, <1>7 DEF SavedInv
<1>9. PassInv'
  <2>1. \A t \in Turbines : t < i => OfThisPass(t, Curr(T[t]))
    BY <1>0, <1>2 DEF WindInv, PassInv
  <2>2. OfThisPass(i, Curr(Y))
    BY <1>5, NoneOfThisPass, Numbers
  <2>3. \A t \in Turbines : t < i \/ t = i => OfThisPass(t, Curr(T[t]))'
    BY <1>7, <2>1, <2>2
  <2>4. CASE i < NumTurbines
    <3>1. pc' = "reset" /\ \A t \in Turbines : t < iTurb' => t < i \/ t = i
      BY <1>2, <2>4, TurbineRange
    <3> QED BY <1>2, <1>7, <2>3, <3>1 DEF PassInv, Newest
  <2>5. CASE i = NumTurbines
    <3>1. pc' = "prework" /\ \A t \in Turbines : t < i \/ t = i
      BY <1>2, <2>5, TurbineRange
    <3> QED BY <1>2, <1>7, <2>3, <3>1 DEF PassInv, Newest
  <2> QED BY <2>4, <2>5, TurbineRange
<1> QED BY <1>7, <1>8, <1>9 DEF WindInv

LEMMA PreworkKeepsWind ==
  ASSUME Orderly, IInv, IInv', Followed, WindInv, Prework
  PROVE  WindInv' /\ Stays
<1> TypeInv /\ CountInv /\ Scalars
  BY SetUp DEF IInv
<1>0. PICK i \in Turbines : i = iTurb
  BY TurbineRange
<1>1. PICK Y : Y = Prework_T(T[i], n_t_global)
  OBVIOUS
<1>2. /\ c' = c /\ pc = "prework" /\ T' = [T EXCEPT ![i] = Y]
      /\ UNCHANGED <<iSub, driver, n_t_global, ext, files, winds, life>>
  <2>1. ~Finished
    BY StepTaken DEF Prework, InStep
  <2> QED BY <1>0, <1>1, <2>1 DEF Prework, SkipCall
<1>3. /\ pc' \in {"prework", "update"}
      /\ pc' = "update" /\ c.nSubsteps = 1 => iTurb' = 1
      /\ c.nSubsteps > 1 => iTurb' = iTurb
  <2>1. IF c.nSubsteps > 1 THEN iTurb' = iTurb /\ pc' = "update" ELSE NextTurbine("update")
    BY DEF Prework, Stepping, Followed
  <2> QED BY <1>2, <2>1, Numbers DEF NextTurbine
<1> USE DEF driver, files
<1>4. /\ Curr(Y) = Curr(T[i]) /\ Y.State["SAVED_CURR"] = T[i].State["SAVED_CURR"]
  <2>1. T[i] \in TurbineType
    BY DEF TypeInv
  <2> QED BY <1>1, <2>1 DEF Prework_T, TurbineType, Curr
<1>5. InPass /\ InPass' /\ Past(Curr(Y), nt_global) = Base(i) /\ nt_global <= Len(Curr(Y))
  BY <1>2, <1>3, <1>4 DEF InPass, Base, WindInv, CheckpointInv
<1>6. /\ InflowInv' /\ CheckpointInv' /\ Stays /\ Turbines' = Turbines
      /\ \A t \in Turbines \ {i} :
               /\ Kindred(t)' <=> Kindred(t)
               /\ OfThisPass(t, Curr(T[t]))' <=> OfThisPass(t, Curr(T[t]))
      /\ Kindred(i)' <=> Y.State["SAVED_CURR"] = Base(i)
      /\ OfThisPass(i, Curr(T[i]))' <=> OfThisPass(i, Curr(Y))
  BY <1>2, <1>5, TurbineMoves
<1>7. SavedInv'
  <2>1. c.nSubsteps > 1 => \A t \in Turbines : Kindred(t)'
    BY <1>2, <1>4, <1>6 DEF WindInv, SavedInv, InStep, Kindred
  <2> QED BY <1>2, <1>6, <2>1 DEF SavedInv
<1>8. PassInv'
  <2>1. \A t \in Turbines : OfThisPass(t, Curr(T[t]))'
    BY <1>2, <1>4, <1>6 DEF WindInv, PassInv
  <2>2. \A t \in Turbines : ~Newest(t)'
    <3>1. \A t \in Turbines : ~(t < 1)
      BY TurbineRange
    <3> QED BY <1>2, <1>3, <3>1, Numbers DEF Newest
  <2> QED BY <1>3, <1>6, <2>1, <2>2 DEF PassInv
<1> QED BY <1>6, <1>7, <1>8 DEF WindInv

LEMMA UpdateStatesKeepsWind ==
  ASSUME Orderly, IInv, IInv', Followed, WindInv, UpdateStates
  PROVE  WindInv' /\ Stays
<1> TypeInv /\ CountInv /\ HistoryInv /\ SampleInv /\ Scalars
  BY SetUp DEF IInv
<1>0. PICK i \in Turbines : i = iTurb
  BY TurbineRange
<1>1. PICK w : w = ext'[i]
  OBVIOUS
<1>2. PICK Y : Y = UpdateStates_T(T[i], n_t_global, c.tight, w, ThisPass)
  OBVIOUS
<1>3. /\ c' = c /\ pc = "update" /\ T' = [T EXCEPT ![i] = Y]
      /\ UNCHANGED <<iSub, driver, n_t_global, files, winds, life>>
      /\ SendData(iSub)
  <2>1. ~Finished /\ c.strong
    BY StepTaken DEF UpdateStates, InStep, Followed
  <2> QED BY <1>0, <1>1, <1>2, <2>1 DEF UpdateStates, SkipCall
<1>4. /\ pc' \in {"update", "advance", "passdone"}
      /\ c.nSubsteps > 1 => iTurb' = iTurb /\ pc' = "advance"
      /\ c.nSubsteps = 1 => pc' = "passdone" \/ (pc' = "update" /\ iTurb' = i + 1)
      /\ pc' = "passdone" => i = NumTurbines
  <2>1. IF c.nSubsteps > 1 THEN iTurb' = iTurb /\ pc' = "advance" ELSE NextTurbine("passdone")
    BY DEF UpdateStates, Stepping, Followed
  <2> QED BY <1>0, <1>3, <2>1, Numbers, TurbineRange DEF NextTurbine
<1> USE DEF driver, files
<1>5. PICK e : /\ e.vel = w
               /\ Curr(Y) = Curr(T[i]) /\ Y.State["SAVED_CURR"] = T[i].State["SAVED_CURR"]
               /\ Y.State["PRED"] = Append(Curr(T[i]), e)
  <2> DEFINE e == [vel |-> w, run |-> ThisPass, clean |-> Clean(T[i], n_t_global, c.tight)]
  <2>1. T[i] \in TurbineType
    BY DEF TypeInv
  <2>2. /\ e.vel = w
        /\ Curr(Y) = Curr(T[i]) /\ Y.State["SAVED_CURR"] = T[i].State["SAVED_CURR"]
        /\ Y.State["PRED"] = Append(Curr(T[i]), e)
    BY <1>2, <2>1 DEF UpdateStates_T, TurbineType, StateIndex, Curr
  <2> QED BY <2>2
<1>6. Len(Curr(T[i])) = n_t_global /\ n_t_global = nt_global + iSub - 1
  <2>1. n_t_global = nt_global + iSub - 1 /\ AtStage(T[i], Stage(i), n_t_global)
    BY <1>3, StepTaken DEF InStep
  <2>2. Stage(i) = "guessed"
    BY <1>0, <1>3, TurbineRange DEF Stage, InStep
  <2> QED BY <2>1, <2>2 DEF AtStage, Guessed, Clean, Curr
<1>7. w = Wanted(i, WindAt(nt), ThisPass, iSub)
  <2>1. pc /= "down" /\ ~After /\ InPass
    BY <1>3 DEF After, Filing, InPass
  <2>2. CASE c.kind[i] = "IfW"
    <3>1. ~Exchanges(i) /\ ext[i] = OwnWind
      BY <2>1, <2>2 DEF WindInv, InflowInv
    <3> QED BY <1>1, <1>3, <2>2, <3>1 DEF SendData, Wanted
  <2>3. CASE c.kind[i] /= "IfW"
    <3>1. Exchanges(i)
      BY <2>1, <2>3 DEF WindInv, InflowInv
    <3>2. vel[i]["N"] = WindAt(nt) /\ vel[i]["NP1"] = ThisPass
      BY <2>1, <3>1 DEF HistoryInv, History, SampleInv, Sampled, Followed
    <3> QED BY <1>1, <1>3, <2>3, <3>1, <3>2 DEF SendData, Wanted
  <2> QED BY <2>2, <2>3
<1>8. InPass /\ InPass' /\ Past(Curr(Y), nt_global) = Base(i) /\ nt_global <= Len(Curr(Y))
      /\ (ext' = ext \/ \E k \in Nat : SendData(k))
  <2>1. iSub \in Nat
    BY DEF Scalars
  <2> QED BY <1>3, <1>4, <1>5, <2>1 DEF InPass, Base, WindInv, CheckpointInv
<1>9. /\ InflowInv' /\ CheckpointInv' /\ Stays /\ Turbines' = Turbines
      /\ \A t \in Turbines \ {i} :
               /\ Kindred(t)' <=> Kindred(t)
               /\ OfThisPass(t, Curr(T[t]))' <=> OfThisPass(t, Curr(T[t]))
               /\ OfThisPass(t, T[t].State["PRED"])' <=> OfThisPass(t, T[t].State["PRED"])
      /\ Kindred(i)' <=> Y.State["SAVED_CURR"] = Base(i)
      /\ OfThisPass(i, Curr(T[i]))' <=> OfThisPass(i, Curr(Y))
      /\ OfThisPass(i, T[i].State["PRED"])' <=> OfThisPass(i, Y.State["PRED"])
  BY <1>3, <1>8, TurbineMoves
<1>10. SavedInv'
  <2>1. c.nSubsteps > 1 => \A t \in Turbines : Kindred(t)'
    BY <1>3, <1>5, <1>9 DEF WindInv, SavedInv, InStep, Kindred
  <2> QED BY <1>3, <1>9, <2>1 DEF SavedInv
<1>11. OfThisPass(i, Y.State["PRED"])
  <2>1. PICK h \in Seq(Step) : h = Curr(T[i])
    BY StatesAreTraces DEF Trajectory
  <2>2. OfThisPass(i, h) /\ Len(h) = nt_global + iSub - 1 /\ iSub \in Nat /\ nt_global \in Nat
        /\ c.nSubsteps \in Nat
    BY <1>3, <1>6, <2>1, Numbers DEF WindInv, PassInv, Scalars
  <2>3. PICK p : p = Append(h, e)
    OBVIOUS
  <2>4. /\ Len(p) = nt_global + iSub /\ p[nt_global + iSub] = e
        /\ \A k \in 1..Len(h) : p[k] = h[k]
    BY <2>2, <2>3
  <2>5. OfThisPass(i, p)
    <3> SUFFICES ASSUME NEW k \in 1..c.nSubsteps, nt_global + k <= Len(p)
                 PROVE  p[nt_global + k].vel = Wanted(i, WindAt(nt), ThisPass, k)
      BY DEF OfThisPass
    <3>1. CASE k = iSub
      BY <1>5, <1>7, <2>4, <3>1
    <3>2. CASE k /= iSub
      <4>1. nt_global + k <= Len(h) /\ nt_global + k \in 1..Len(h)
        BY <2>2, <2>4, <3>2
      <4> QED BY <2>2, <2>4, <4>1 DEF OfThisPass
    <3> QED BY <3>1, <3>2
  <2> QED BY <1>5, <2>1, <2>3, <2>5
<1>12. PassInv'
  <2>1. \A t \in Turbines : OfThisPass(t, Curr(T[t]))'
    BY <1>3, <1>5, <1>9 DEF WindInv, PassInv
  <2>2. ASSUME NEW t \in Turbines, Newest(t)' PROVE OfThisPass(t, T[t].State["PRED"])'
    <3>1. CASE t = i
      BY <1>9, <1>11, <3>1
    <3>2. CASE t /= i
      <4>1. c.nSubsteps = 1
        BY <1>0, <1>3, <1>4, <2>2, <3>2, Numbers DEF Newest
      <4>2. t < i
        BY <1>3, <1>4, <2>2, <3>2, <4>1, TurbineRange DEF Newest
      <4>3. Newest(t)
        BY <1>0, <1>3, <4>1, <4>2 DEF Newest
      <4> QED BY <1>9, <3>2, <4>3 DEF WindInv, PassInv
    <3> QED BY <3>1, <3>2
  <2> QED BY <1>4, <1>9, <2>1, <2>2 DEF PassInv
<1> QED BY <1>9, <1>10, <1>12 DEF WindInv

LEMMA AdvanceKeepsWind ==
  ASSUME Orderly, IInv, IInv', Followed, WindInv, AdvanceToNextTimeStep
  PROVE  WindInv' /\ Stays
<1> TypeInv /\ CountInv /\ Scalars
  BY SetUp DEF IInv
<1>0. PICK i \in Turbines : i = iTurb
  BY TurbineRange
<1>1. PICK Y : Y = AdvanceToNextTimeStep_T(T[i], n_t_global)
  OBVIOUS
<1>2. /\ c' = c /\ pc = "advance" /\ T' = [T EXCEPT ![i] = Y]
      /\ UNCHANGED <<driver, ext, files, winds, life>>
  <2>1. ~Finished
    BY StepTaken DEF AdvanceToNextTimeStep, InStep
  <2> QED BY <1>0, <1>1, <2>1 DEF AdvanceToNextTimeStep, SkipCall
<1> USE DEF driver, files
<1>3. /\ pc' \in {"prework", "advance", "passdone", "output"}
      /\ c.nSubsteps > 1 => pc' \in {"prework", "passdone"}
      /\ c.nSubsteps = 1 => pc' = "output" \/ (pc' = "advance" /\ iTurb' = i + 1)
  BY <1>0, <1>2, Numbers, TurbineRange DEF AdvanceToNextTimeStep, Stepping, Followed
<1>4. /\ Curr(Y) = T[i].State["PRED"] /\ Y.State["SAVED_CURR"] = T[i].State["SAVED_CURR"]
  <2>1. Y.State = [T[i].State EXCEPT !["CURR"] = T[i].State["PRED"]]
    <3>1. T[i] \in TurbineType
      BY DEF TypeInv
    <3> QED BY <1>1, <3>1 DEF AdvanceToNextTimeStep_T, TurbineType
  <2>2. T[i].State \in [StateIndex -> Trajectory]
    BY DEF TypeInv, TurbineType
  <2> QED BY <2>1, <2>2 DEF StateIndex, Curr
<1>5. PICK n \in Nat : n >= nt_global /\ Predicted(T[i], n, Tracked)
  <2>1. /\ n_t_global \in Nat /\ n_t_global >= nt_global
        /\ AtStage(T[i], Stage(i), n_t_global)
    BY <1>2, StepTaken DEF InStep
  <2>2. Stage(i) = "predicted"
    BY <1>0, <1>2, TurbineRange DEF Stage, InStep
  <2> QED BY <2>1, <2>2 DEF AtStage
<1>6. InPass /\ InPass' /\ Past(Curr(Y), nt_global) = Base(i) /\ nt_global <= Len(Curr(Y))
  <2>1. Curr(Y) \in Trajectory /\ Len(Curr(Y)) = n + 1 /\ Curr(T[i]) = Past(Curr(Y), n)
    BY <1>4, <1>5, StatesAreTraces DEF Predicted
  <2>2. Past(Past(Curr(Y), n), nt_global) = Past(Curr(Y), nt_global)
    BY <1>5, <2>1, PastOfPast, Numbers
  <2> QED BY <1>2, <1>3, <1>5, <2>1, <2>2, Numbers DEF InPass, Base
<1>7. /\ InflowInv' /\ CheckpointInv' /\ Stays /\ Turbines' = Turbines
      /\ \A t \in Turbines \ {i} :
               /\ Kindred(t)' <=> Kindred(t)
               /\ OfThisPass(t, Curr(T[t]))' <=> OfThisPass(t, Curr(T[t]))
               /\ OfThisPass(t, T[t].State["PRED"])' <=> OfThisPass(t, T[t].State["PRED"])
      /\ Kindred(i)' <=> Y.State["SAVED_CURR"] = Base(i)
      /\ OfThisPass(i, Curr(T[i]))' <=> OfThisPass(i, Curr(Y))
  BY <1>2, <1>6, TurbineMoves
<1>8. SavedInv'
  <2>1. c.nSubsteps > 1 => \A t \in Turbines : Kindred(t)'
    BY <1>2, <1>4, <1>7 DEF WindInv, SavedInv, InStep, Kindred
  <2> QED BY <1>2, <1>7, <2>1 DEF SavedInv
<1>9. PassInv'
  <2>1. OfThisPass(i, Curr(Y))
    <3>1. Newest(i)
      BY <1>0, <1>2, TurbineRange DEF Newest
    <3> QED BY <1>4, <3>1 DEF WindInv, PassInv
  <2>2. \A t \in Turbines : OfThisPass(t, Curr(T[t]))'
    BY <1>2, <1>7, <2>1 DEF WindInv, PassInv
  <2>3. ASSUME NEW t \in Turbines, Newest(t)' PROVE OfThisPass(t, T[t].State["PRED"])'
    <3>1. c.nSubsteps = 1 /\ pc' = "advance" /\ iTurb' = i + 1
      BY <1>2, <1>3, <2>3, Numbers DEF Newest
    <3>2. ~(t < i) /\ t /= i
      BY <1>2, <2>3, <3>1, TurbineRange DEF Newest
    <3>3. Newest(t)
      BY <1>0, <1>2, <3>1, <3>2 DEF Newest
    <3> QED BY <1>7, <3>2, <3>3 DEF WindInv, PassInv
  <2> QED BY <1>3, <1>7, <2>2, <2>3 DEF PassInv
<1> QED BY <1>7, <1>8, <1>9 DEF WindInv

-----------------------------------------------------------------------------
(* The end of a driver step, restart files and restarts.                   *)

\* What the present pass has driven is accepted.
LEMMA OutputKeepsWind ==
  ASSUME Orderly, IInv, IInv', Followed, WindInv, Output
  PROVE  /\ WindInv'
         /\ \A t \in Turbines : Base(t) = Past(Base(t)', nt_global) /\ Base(t)' = Curr(T[t])
<1> TypeInv /\ CountInv /\ Scalars
  BY SetUp DEF IInv
<1>1. /\ c' = c /\ pc = "output" /\ pc' = "checkpoint"
      /\ nt_global' = nt_global + c.nSubsteps
      /\ winds' = Append(winds, ThisPass)
      /\ UNCHANGED <<inflowType, T, ext, chk, rst>>
  BY DEF Output, Followed, library, files
<1>2. Turbines' = Turbines /\ \A t : LastRecord(t)' = LastRecord(t)
  BY <1>1, SameSetUp DEF LastRecord
<1>3. ASSUME NEW t \in Turbines
      PROVE  /\ Curr(T[t]) \in Trajectory /\ Len(Curr(T[t])) = nt_global'
             /\ Base(t)' = Curr(T[t])
             /\ \A n \in Nat : n <= nt_global => Past(Base(t)', n) = Past(Base(t), n)
  <2>1. Curr(T[t]) \in Trajectory /\ Len(Curr(T[t])) = nt_global'
    <3>1. nt < c.nt_end
      BY <1>1 DEF CountInv, InPass
    <3>2. Ready(T[t], nt_global + c.nSubsteps, Tracked)
      BY <1>1, <3>1, AllReady
    <3> QED BY <1>1, <3>2, StatesAreTraces DEF Ready
  <2>2. Base(t)' = Curr(T[t])
    BY <1>1, <2>1, WholePast DEF Base
  <2>3. nt_global <= Len(Curr(T[t]))
    BY <1>1, <2>1, Numbers
  <2> QED BY <2>1, <2>2, <2>3, PastOfPast, Numbers DEF Base
<1>4. InflowInv'
  BY <1>1, InflowKeeps DEF WindInv
<1>5. nt_global' = Len(winds') * c.nSubsteps
  <2>1. Len(winds') = Len(winds) + 1 /\ Len(winds) \in Nat
    BY <1>1 DEF TypeInv
  <2>2. \A a, s \in Nat : (a + 1) * s = a * s + s
    OBVIOUS
  <2> QED BY <1>1, <2>1, <2>2, Numbers DEF WindInv, CheckpointInv
<1>6. \A t \in Turbines : nt_global' <= Len(Curr(T'[t]))
  <2>1. nt_global' \in Nat
    BY <1>1, Numbers
  <2> QED BY <1>1, <1>3, <2>1
<1>7. ASSUME NEW t \in Turbines, rst[t] /= <<>>, NEW s \in chk[t], s.n = LastRecord(t).n
      PROVE  Curr(s.T) = Past(Base(t)', s.n)
  <2>1. s.n \in Nat /\ s.n <= nt_global
    BY <1>7, LastWithin DEF WindInv
  <2> QED BY <1>3, <1>7, <2>1 DEF WindInv, CheckpointInv
<1>8. CheckpointInv'
  BY <1>1, <1>2, <1>5, <1>6, <1>7 DEF CheckpointInv
<1>9. SavedInv' /\ PassInv'
  BY <1>1, NoPassInv DEF Repeated
<1>10. \A t \in Turbines : Base(t) = Past(Base(t)', nt_global)
  BY <1>3 DEF Base
<1> QED BY <1>3, <1>4, <1>8, <1>9, <1>10 DEF WindInv

LEMMA CheckpointKeepsWind ==
  ASSUME Orderly, IInv, IInv', Followed, WindInv, Checkpoint
  PROVE  WindInv' /\ Stays
<1> TypeInv /\ CountInv /\ Scalars
  BY SetUp DEF IInv
<1>0. PICK i \in Turbines : i = iTurb
  BY TurbineRange
<1>1. /\ c' = c /\ pc = "checkpoint" /\ pc' \in {"checkpoint", "record", "endoutput"}
      /\ UNCHANGED <<nt_global, inflowType, T, ext, rst, winds>>
      /\ pc' = "record" => iTurb' = i
      /\ chk' = chk \/ WriteCheckpoint
      /\ pc' = "record" => WriteCheckpoint
  BY <1>0 DEF Checkpoint, NextTurbine, driver, library
<1>2. Turbines' = Turbines /\ (\A t : LastRecord(t)' = LastRecord(t)) /\ Stays
  BY <1>1, SameSetUp DEF LastRecord, Stays, Base
<1>3. n_t_global = nt_global /\ Len(Curr(T[i])) = nt_global /\ Base(i) = Curr(T[i])
  <2>1. Filing /\ After /\ nt < c.nt_end
    BY <1>1 DEF Filing, After, CountInv
  <2>2. nt_global <= c.n_TMax
    BY <2>1, StepFits
  <2>3. n_t_global = nt_global /\ Len(Curr(T[i])) = nt_global
    BY <2>1, <2>2, FilingFacts DEF Ready
  <2> QED BY <2>3, StatesAreTraces, WholePast DEF Base
<1>4. PICK new : /\ new.n = nt_global /\ Curr(new.T) = Base(i) /\ new.ext = ext[i]
                 /\ \A t \in Turbines : \A s \in chk'[t] : s \in chk[t] \/ (t = i /\ s = new)
                 /\ WriteCheckpoint => \A s \in chk'[i] : s.n = nt_global => s = new
  <2> DEFINE new == [n |-> n_t_global, T |-> T[iTurb], ext |-> ext[iTurb]]
  <2>1. new.n = nt_global /\ Curr(new.T) = Base(i) /\ new.ext = ext[i]
    BY <1>0, <1>3
  <2>2. WriteCheckpoint => chk' = [chk EXCEPT ![i] = {s \in chk[i] : s.n /= nt_global} \cup {new}]
    BY <1>0, <1>3 DEF WriteCheckpoint
  <2>3. chk \in [Turbines -> SUBSET CheckpointType]
    BY DEF TypeInv
  <2> HIDE DEF new
  <2>4. WriteCheckpoint => /\ chk'[i] = {s \in chk[i] : s.n /= nt_global} \cup {new}
                           /\ \A t \in Turbines : t /= i => chk'[t] = chk[t]
    BY <2>2, <2>3
  <2>5. CASE WriteCheckpoint
    BY <2>1, <2>4, <2>5
  <2>6. CASE ~WriteCheckpoint
    BY <1>1, <2>1, <2>6
  <2> QED BY <2>5, <2>6
<1>5. InflowInv'
  <2>1. pc /= "down" /\ pc' /= "down" /\ \A t \in Turbines : Exchanges(t)' = Exchanges(t)
    BY <1>1 DEF Exchanges
  <2>2. ASSUME NEW t \in Turbines, c.kind[t] = "IfW", NEW s \in chk'[t] PROVE s.ext = OwnWind
    <3>1. ext[t] = OwnWind /\ \A x \in chk[t] : x.ext = OwnWind
      BY <2>2 DEF WindInv, InflowInv
    <3>2. s \in chk[t] \/ (t = i /\ s = new)
      BY <1>4, <2>2
    <3> QED BY <1>4, <3>1, <3>2
  <2> QED BY <1>1, <1>2, <2>1, <2>2 DEF InflowInv, WindInv
<1>6. CheckpointInv'
  <2>1. Past(Base(i), nt_global) = Base(i)
    BY <1>3, StatesAreTraces, WholePast
  <2>2. \A t \in Turbines : rst[t] /= <<>> => \A s \in chk'[t] :
           s.n = LastRecord(t).n => Curr(s.T) = Past(Base(t), s.n)
    <3> SUFFICES ASSUME NEW t \in Turbines, rst[t] /= <<>>, NEW s \in chk'[t],
                        s.n = LastRecord(t).n
                 PROVE  Curr(s.T) = Past(Base(t), s.n)
      OBVIOUS
    <3>1. CASE s \in chk[t]
      BY <3>1 DEF WindInv, CheckpointInv
    <3>2. CASE t = i /\ s = new
      BY <1>4, <2>1, <3>2
    <3> QED BY <1>4, <3>1, <3>2
  <2>3. pc' = "record" => \A s \in chk'[iTurb'] : s.n = nt_global => Curr(s.T) = Base(iTurb')
    <3> SUFFICES ASSUME pc' = "record", NEW s \in chk'[i], s.n = nt_global
                 PROVE  Curr(s.T) = Base(i)
      BY <1>1
    <3>1. s = new
      BY <1>1, <1>4
    <3> QED BY <1>4, <3>1
  <2>4. Base(iTurb)' = Base(iTurb')
    BY <1>1 DEF Base
  <2> QED BY <1>1, <1>2, <2>2, <2>3, <2>4 DEF WindInv, CheckpointInv, Stays
<1>7. SavedInv' /\ PassInv'
  BY <1>1, NoPassInv DEF Repeated
<1> QED BY <1>2, <1>5, <1>6, <1>7 DEF WindInv

\* The last record is the one of the driver step that has just ended.
LEMMA RecordIsLast ==
  ASSUME Orderly, IInv, IInv', c.strong, Record, NEW i \in Turbines, i = iTurb
  PROVE  LastRecord(i)'.n = nt_global
<1> TypeInv /\ TypeInv' /\ CountInv /\ HistoryInv /\ HistoryInv' /\ FileInv' /\ LossInv' /\ Scalars
  BY SetUp DEF IInv
<1>1. /\ c' = c /\ pc = "record" /\ UNCHANGED <<nt, nt_global, winds>>
      /\ \/ i < NumTurbines /\ iTurb' = i + 1 /\ pc' = "checkpoint"
         \/ i = NumTurbines /\ iTurb' = 1 /\ pc' = "endoutput"
  BY TurbineRange DEF Record, driver
<1>2. Turbines' = Turbines /\ c'.strong /\ Filing /\ After /\ After'
  BY <1>1, SameSetUp DEF After, Filing
<1>3. Due
  BY <1>1 DEF IInv, FileInv
<1>4. PICK q \in Nat \ {0} : nt + 1 = q * c.restartFreq
  BY <1>2, <1>3, DueFacts
<1>5. PICK m \in Nat : m = Saves(i)'
  BY <1>2, LenProperties DEF TypeInv, Saves
<1>6. nt + 1 < (m + 1) * c.restartFreq
  <2>1. Written(i)'
    BY <1>1, TurbineRange DEF Written
  <2> QED BY <1>1, <1>2, <1>5, <2>1 DEF LossInv
<1>7. PICK f \in Nat \ {0} : f = c.restartFreq
  BY Numbers
<1>8. q <= m
  <2>1. m < q => (m + 1) * f <= q * f
    BY <1>7
  <2> QED BY <1>4, <1>6, <1>7, <2>1, ProductNat
<1>9. rst'[i] /= <<>>
  BY <1>5, <1>8 DEF Saves
<1>10. m * f <= nt + 1 /\ LastRecord(i)'.n = (m * f) * c.nSubsteps
  <2>1. Len(winds) = nt + 1
    BY <1>1, <1>2 DEF HistoryInv
  <2>2. (Saves(i) * c.restartFreq)' = m * f
    BY <1>1, <1>5, <1>7
  <2> QED BY <1>1, <1>2, <1>5, <1>7, <1>9, <2>1, <2>2 DEF HistoryInv, FileInv
<1>11. m * f = nt + 1
  <2>1. q * f <= m * f /\ m * f \in Nat /\ q * f \in Nat
    BY <1>7, <1>8, Monotone, ProductNat
  <2> QED BY <1>4, <1>7, <1>10, <2>1
<1> QED BY <1>2, <1>10, <1>11 DEF CountInv

LEMMA RecordKeepsWind ==
  ASSUME Orderly, IInv, IInv', Followed, WindInv, Record
  PROVE  WindInv' /\ Stays
<1> TypeInv /\ CountInv /\ Scalars
  BY SetUp DEF IInv
<1>0. PICK i \in Turbines : i = iTurb
  BY TurbineRange
<1>1. /\ c' = c /\ pc = "record" /\ pc' \in {"checkpoint", "endoutput"}
      /\ UNCHANGED <<nt_global, inflowType, T, ext, chk, winds>> /\ WriteRecord
  BY DEF Record, driver, library
<1>2. Turbines' = Turbines /\ Stays
  BY <1>1, SameSetUp DEF Stays, Base
<1>3. \A t \in Turbines \ {i} : rst'[t] = rst[t] /\ LastRecord(t)' = LastRecord(t)
  BY <1>0, <1>1 DEF WriteRecord, TypeInv, LastRecord
<1>4. LastRecord(i)'.n = nt_global
  BY <1>0, RecordIsLast DEF Followed
<1>5. Past(Base(i), nt_global) = Base(i)
  <2>1. Filing /\ After /\ nt < c.nt_end
    BY <1>1 DEF Filing, After, CountInv
  <2>2. Len(Curr(T[i])) = nt_global
    BY <2>1, StepFits, FilingFacts DEF Ready
  <2> QED BY <2>2, StatesAreTraces, WholePast DEF Base
<1>6. InflowInv'
  BY <1>1, InflowKeeps DEF WindInv
<1>7. CheckpointInv'
  <2>1. ASSUME NEW t \in Turbines, rst'[t] /= <<>>, NEW s \in chk[t], s.n = LastRecord(t)'.n
        PROVE  Curr(s.T) = Past(Base(t), s.n)
    <3>1. CASE t = i
      BY <1>0, <1>1, <1>4, <1>5, <2>1, <3>1 DEF WindInv, CheckpointInv
    <3>2. CASE t /= i
      BY <1>3, <2>1, <3>2 DEF WindInv, CheckpointInv
    <3> QED BY <3>1, <3>2
  <2> QED BY <1>1, <1>2, <2>1 DEF WindInv, CheckpointInv, Stays
<1>8. SavedInv' /\ PassInv'
  BY <1>1, NoPassInv DEF Repeated
<1> QED BY <1>2, <1>6, <1>7, <1>8 DEF WindInv

\* Repeats are taken back, and failures come, where turbines go on to follow.
LEMMA DownKeepsWind ==
  ASSUME Orderly, IInv, IInv', Followed, WindInv, Stops \/ ResetFails
  PROVE  WindInv' /\ Stays
<1> TypeInv /\ CountInv /\ Scalars
  BY SetUp DEF IInv
<1>1. /\ c' = c /\ pc /= "down" /\ pc' = "down"
      /\ UNCHANGED <<nt_global, inflowType, T, ext, chk, rst, winds>>
  BY DEF Stops, ResetFails, driver, library, files
<1>2. Turbines' = Turbines /\ Stays
  BY <1>1, SameSetUp DEF Stays, Base
<1>3. \A t \in Turbines : c.kind[t] /= "ExtInfw"
  <2>1. CASE Stops
    <3>1. c.crash /= "none"
      BY <2>1 DEF Stops
    <3> QED BY <3>1 DEF Followed
  <2>2. CASE ResetFails
    <3>1. pc = "reset" /\ ~CanReset(iTurb)
      BY <2>2 DEF ResetFails
    <3>2. c.nSubsteps > 1 /\ pass >= 2 /\ pass \in 0..c.nIter
      BY <3>1 DEF CountInv, TypeInv
    <3>3. c.nIter > 1
      BY <3>2, Numbers
    <3> QED BY <3>1, <3>2, <3>3, TurbineRange DEF Followed, CanReset
  <2> QED BY <2>1, <2>2
<1>4. InflowInv'
  BY <1>1, <1>2, <1>3 DEF WindInv, InflowInv
<1>5. CheckpointInv'
  BY <1>1, <1>2, CheckpointKept DEF WindInv, CheckpointInv
<1>6. SavedInv' /\ PassInv'
  BY <1>1, NoPassInv DEF Repeated
<1> QED BY <1>2, <1>4, <1>5, <1>6 DEF WindInv

\* A restart goes back to accepted steps.
LEMMA RestartKeepsWind ==
  ASSUME Orderly, IInv, IInv', Followed, WindInv, Restart
  PROVE  /\ WindInv' /\ nt_global' <= nt_global
         /\ \A t \in Turbines : Base(t)' = Past(Base(t), nt_global')
<1> TypeInv /\ FileInv /\ SyncInv /\ Scalars
  BY SetUp DEF IInv
<1>1. /\ c' = c /\ pc = "down" /\ pc' = "main" /\ firstPass_' = TRUE
      /\ T' = [t \in Turbines |-> Saved(t).T] /\ ext' = [t \in Turbines |-> Saved(t).ext]
      /\ inflowType' = [t \in Turbines |-> 0] /\ chk' = chk /\ rst' = rst
      /\ nt_global' = Saved(NumTurbines).n
      /\ \A t \in Turbines : Restartable(t)
  BY DEF Restart, files
<1>2. Turbines' = Turbines /\ \A t : LastRecord(t)' = LastRecord(t)
  BY <1>1, SameSetUp DEF LastRecord
<1>3. ASSUME NEW t \in Turbines
      PROVE  /\ rst[t] /= <<>> /\ Saved(t) \in chk[t] /\ Saved(t).n = LastRecord(t).n
             /\ Saved(t).n = Len(Curr(Saved(t).T))
             /\ Curr(Saved(t).T) = Past(Base(t), LastRecord(t).n)
  <2>1. rst[t] /= <<>> /\ Saved(t) \in chk[t] /\ Saved(t).n = LastRecord(t).n
    BY <1>1 DEF Restartable, Saved
  <2>2. LastRecord(t).n <= c.n_TMax
    <3>1. PICK k \in Nat : k = Saves(t) * c.restartFreq /\ k <= c.nt_end
      <4>1. Saves(t) \in Nat
        BY DEF Saves, TypeInv
      <4> QED BY <4>1, ProductNat, Numbers DEF FileInv
    <3>2. k * c.nSubsteps <= c.nt_end * c.nSubsteps
      BY <3>1, Monotone, Numbers
    <3>3. k * c.nSubsteps \in Nat /\ c.nt_end * c.nSubsteps \in Nat
      BY <3>1, ProductNat, Numbers
    <3>4. LastRecord(t).n = k * c.nSubsteps
      BY <2>1, <3>1 DEF FileInv
    <3>5. c.nt_end * c.nSubsteps <= c.n_TMax
      BY DEF Followed
    <3> QED BY <3>2, <3>3, <3>4, <3>5, Numbers
  <2>3. Saved(t).n = Len(Curr(Saved(t).T))
    BY <2>1, <2>2 DEF FileInv, Ready
  <2> QED BY <2>1, <2>3 DEF WindInv, CheckpointInv
<1>4. nt_global' = Len(winds') * c.nSubsteps
  <2>1. ~After' /\ pc' /= "down"
    BY <1>1 DEF After, Filing
  <2>2. Len(winds') = nt' /\ nt_global' = nt' * c.nSubsteps
    BY <1>1, <2>1 DEF IInv, HistoryInv, CountInv, Followed
  <2> QED BY <2>2
<1>5. ASSUME NEW t \in Turbines
      PROVE  /\ Len(Curr(T'[t])) = nt_global' /\ Base(t)' = Curr(T'[t])
             /\ LastRecord(t).n = nt_global' /\ Base(t)' = Past(Base(t), nt_global')
             /\ Past(Base(t)', nt_global') = Base(t)'
  <2>1. Curr(T'[t]) \in Trajectory /\ Len(Curr(T'[t])) = nt_global'
    <3>1. Saves(t) = Saves(NumTurbines)
      BY <1>1, TurbineRange DEF SyncInv, Writing
    <3>2. Len(Curr(T'[t])) = nt_global'
      BY <1>1, <1>3, <3>1, TurbineRange DEF FileInv
    <3>3. T'[t] \in TurbineType
      BY <1>2 DEF IInv, TypeInv
    <3> QED BY <3>2, <3>3 DEF TurbineType, Curr, StateIndex
  <2>2. Base(t)' = Past(Curr(T'[t]), nt_global')
    BY DEF Base, Curr
  <2>3. Base(t)' = Curr(T'[t])
    BY <2>1, <2>2, WholePast
  <2>4. T'[t] = Saved(t).T
    BY <1>1
  <2>5. LastRecord(t).n = nt_global'
    BY <1>3, <2>1, <2>4
  <2> QED BY <1>3, <2>1, <2>2, <2>3, <2>4, <2>5
<1>6. nt_global' <= nt_global
  BY <1>3, <1>5, LastWithin, TurbineRange DEF WindInv
<1>7. InflowInv'
  <2>1. \A t \in Turbines : c.kind[t] \in {"ExtInfw", "ExtLd", "IfW"}
    <3>1. c.kind \in Seq({"ExtInfw", "ExtLd", "IfW"})
      BY DriverAssumption DEF TypeInv, ConfigType
    <3> QED BY <3>1, LenProperties, ElementOfSeq, TurbineRange DEF NumTurbines
  <2>2. \A t \in Turbines : c.kind[t] /= "ExtInfw"
    BY <1>1 DEF WindInv, InflowInv
  <2>3. \A t \in Turbines : Exchanges(t)' <=> c.kind[t] /= "IfW"
    BY <1>1, <2>1, <2>2 DEF Exchanges
  <2>4. \A t \in Turbines : c.kind[t] = "IfW" => ext'[t] = OwnWind
    BY <1>1, <1>3 DEF WindInv, InflowInv
  <2> QED BY <1>1, <1>2, <2>3, <2>4 DEF WindInv, InflowInv
<1>8. CheckpointInv'
  <2>1. \A t \in Turbines : \A s \in chk[t] : s.n = LastRecord(t).n =>
           Curr(s.T) = Past(Base(t)', s.n)
    BY <1>3, <1>5 DEF WindInv, CheckpointInv
  <2>2. \A t \in Turbines : nt_global' <= Len(Curr(T'[t]))
    <3>1. nt_global' \in Nat
      BY DEF IInv, TypeInv
    <3> QED BY <1>5, <3>1
  <2> QED BY <1>1, <1>2, <1>4, <2>1, <2>2 DEF CheckpointInv
<1>9. SavedInv' /\ PassInv'
  BY <1>1, NoPassInv DEF Repeated
<1> QED BY <1>5, <1>6, <1>7, <1>8, <1>9 DEF WindInv

LEMMA InitFollows ==
  ASSUME Init, Orderly
  PROVE  WindInv
<1>1. /\ c \in Configs /\ pc = "solution0" /\ nt_global = 0
      /\ T = [t \in Turbines |-> Solution0_T] /\ ext = [t \in Turbines |-> OwnWind]
      /\ chk = [t \in Turbines |-> {}] /\ rst = [t \in Turbines |-> <<>>] /\ winds = <<>>
      /\ inflowType = [t \in Turbines |-> IF c.kind[t] = "ExtInfw" THEN 2
                                          ELSE IF c.kind[t] = "IfW" THEN 1 ELSE 0]
  BY DEF Init
<1>2. \A t \in Turbines : c.kind[t] \in {"ExtInfw", "ExtLd", "IfW"}
  <2>1. c.kind \in Seq({"ExtInfw", "ExtLd", "IfW"})
    BY <1>1, DriverAssumption DEF ConfigType
  <2>2. Turbines = 1..Len(c.kind)
    BY <2>1, LenProperties DEF Turbines
  <2> QED BY <2>1, <2>2, ElementOfSeq
<1>3. InflowInv
  BY <1>1, <1>2 DEF InflowInv, Exchanges
<1>4. SavedInv /\ PassInv
  BY <1>1 DEF SavedInv, PassInv, InStep, Repeated, Newest
<1>5. CheckpointInv
  <2>1. \A t \in Turbines : Curr(T[t]) = <<>>
    BY <1>1 DEF Solution0_T, Curr, StateIndex
  <2>2. c.nSubsteps \in Nat
    BY <1>1, DriverAssumption DEF ConfigType
  <2> QED BY <1>1, <2>1, <2>2 DEF CheckpointInv
<1> QED BY <1>3, <1>4, <1>5 DEF WindInv

\* A step that changes nothing.
LEMMA StutterStays ==
  ASSUME WindInv, UNCHANGED vars
  PROVE  WindInv' /\ Stays
<1> USE DEF vars, driver, library, files
<1>1. /\ Turbines' = Turbines
      /\ \A t : Base(t)' = Base(t) /\ LastRecord(t)' = LastRecord(t)
      /\ \A t \in Turbines : Exchanges(t)' = Exchanges(t)
  BY DEF Turbines, Base, Curr, LastRecord, Exchanges
<1>2. InflowInv'
  BY <1>1 DEF WindInv, InflowInv
<1>3. SavedInv'
  BY <1>1 DEF WindInv, SavedInv, Kindred, InStep, Repeated
<1>4. CheckpointInv'
  BY <1>1 DEF WindInv, CheckpointInv
<1>5. PassInv'
  <2>1. \A t \in Turbines :
          /\ OfThisPass(t, Curr(T[t]))' <=> OfThisPass(t, Curr(T[t]))
          /\ OfThisPass(t, T[t].State["PRED"])' <=> OfThisPass(t, T[t].State["PRED"])
          /\ Newest(t)' <=> Newest(t)
    BY DEF OfThisPass, WindAt, ThisPass, Wanted, Newest, Curr
  <2> QED BY <1>1, <2>1 DEF WindInv, PassInv
<1> QED BY <1>1, <1>2, <1>3, <1>4, <1>5 DEF WindInv, Stays

\* The invariant, in any set-up.
FollowInv == Followed => WindInv

\* Output accepts, Restart takes back, and no other action does either.
LEMMA NextFollows ==
  ASSUME OrderlyIInv, OrderlyIInv', Followed, WindInv, [Next]_vars
  PROVE  WindInv' /\ (Output \/ Restart \/ Stays)
<1> Orderly /\ IInv /\ IInv'
  BY DEF OrderlyIInv
<1>1. ASSUME Solution0 \/ StartPass \/ PassDone \/ EndOutput \/ EndStep \/ End
      PROVE  WindInv' /\ Stays
  BY <1>1, DriverKeepsWind, StartPassKeepsWind, PassDoneKeepsWind
<1>2. ASSUME Store \/ Reset \/ Prework \/ UpdateStates \/ AdvanceToNextTimeStep
      PROVE  WindInv' /\ Stays
  BY <1>2, StoreKeepsWind, ResetKeepsWind, PreworkKeepsWind, UpdateStatesKeepsWind,
     AdvanceKeepsWind
<1>3. ASSUME Checkpoint \/ Record \/ ResetFails \/ Stops PROVE WindInv' /\ Stays
  BY <1>3, CheckpointKeepsWind, RecordKeepsWind, DownKeepsWind
<1>4. ASSUME Output \/ Restart PROVE WindInv'
  BY <1>4, OutputKeepsWind, RestartKeepsWind
<1>5. ASSUME Over \/ UNCHANGED vars PROVE WindInv' /\ Stays
  BY <1>5, StutterStays DEF Over
<1> QED BY <1>1, <1>2, <1>3, <1>4, <1>5 DEF Next, Process

-----------------------------------------------------------------------------
(* The mapping.                                                            *)

\* What a turbine shows: the winds of its accepted steps.
Shown(t) == [k \in 1..nt_global |-> Trace(t)[k].vel]

\* The winds of the beginning of a trace.
LEMMA WindsOfTrace ==
  ASSUME NEW h \in Trajectory, NEW n \in Nat, n <= Len(h),
         NEW s, s = [k \in 1..n |-> h[k].vel]
  PROVE  s \in Seq(Seen) /\ Len(s) = n /\ \A k \in 1..n : s[k] = Past(h, n)[k].vel
<1>1. \A k \in 1..n : h[k] \in Step
  BY DEF Trajectory
<1>2. s \in [1..n -> Seen]
  BY <1>1 DEF Step
<1>3. s \in Seq(Seen)
  BY <1>2, SeqDef
<1>4. DOMAIN s = 1..n /\ DOMAIN s = 1..Len(s) /\ Len(s) \in Nat
  BY <1>3, LenProperties
<1>5. \A k \in 1..n : Past(h, n)[k] = h[k]
  BY PastElement
<1> QED BY <1>3, <1>4, <1>5

\* Shown(t) and what it is of, before and after a step.
LEMMA ShownFacts ==
  ASSUME TypeInv, CheckpointInv, NEW t \in Turbines
  PROVE  /\ Shown(t) \in Seq(Seen) /\ Len(Shown(t)) = nt_global
         /\ \A k \in 1..nt_global : Shown(t)[k] = Base(t)[k].vel
<1>1. Curr(T[t]) \in Trajectory /\ nt_global \in Nat /\ nt_global <= Len(Curr(T[t]))
  BY StatesAreTraces DEF TypeInv, CheckpointInv
<1>2. Shown(t) = [k \in 1..nt_global |-> Curr(T[t])[k].vel]
  BY DEF Shown, Trace, Curr
<1> QED BY <1>1, <1>2, WindsOfTrace DEF Base

LEMMA ShownFactsNext ==
  ASSUME TypeInv', CheckpointInv', c' = c, NEW t \in Turbines
  PROVE  /\ Shown(t)' \in Seq(Seen) /\ Len(Shown(t)') = nt_global'
         /\ \A k \in 1..nt_global' : Shown(t)'[k] = (Base(t)')[k].vel
<1>1. T'[t] \in TurbineType /\ nt_global' \in Nat /\ nt_global' <= Len(Curr(T'[t]))
  BY SameSetUp DEF TypeInv, CheckpointInv
<1>2. Curr(T'[t]) \in Trajectory
  BY <1>1 DEF TurbineType, Curr, StateIndex
<1>3. Shown(t)' = [k \in 1..nt_global' |-> Curr(T'[t])[k].vel]
  BY DEF Shown, Trace, Curr
<1>4. Base(t)' = Past(Curr(T'[t]), nt_global')
  BY DEF Base, Curr
<1> QED BY <1>1, <1>2, <1>3, <1>4, WindsOfTrace

\* The same accepted steps show the same.
LEMMA StaysShown ==
  ASSUME TypeInv, TypeInv', CheckpointInv, CheckpointInv', Stays, NEW t \in Turbines
  PROVE  Shown(t)' = Shown(t)
<1>1. nt_global' = nt_global /\ Base(t)' = Base(t) /\ c' = c
  BY DEF Stays
<1>2. /\ Shown(t) \in Seq(Seen) /\ Len(Shown(t)) = nt_global
      /\ \A k \in 1..nt_global : Shown(t)[k] = Base(t)[k].vel
  BY ShownFacts
<1>3. /\ Shown(t)' \in Seq(Seen) /\ Len(Shown(t)') = nt_global
      /\ \A k \in 1..nt_global : Shown(t)'[k] = Base(t)[k].vel
  BY <1>1, ShownFactsNext
<1> QED BY <1>2, <1>3, SeqEqual

\* After a restart, the beginning of what was shown.
LEMMA RestartShown ==
  ASSUME TypeInv, TypeInv', CheckpointInv, CheckpointInv', c' = c, NEW t \in Turbines,
         nt_global' <= nt_global, Base(t)' = Past(Base(t), nt_global')
  PROVE  Shown(t)' = SubSeq(Shown(t), 1, nt_global')
<1>1. PICK m \in Nat, n \in Nat : m = nt_global' /\ n = nt_global /\ m <= n
  BY DEF TypeInv
<1>2. PICK s \in Seq(Seen) : s = Shown(t) /\ Len(s) = n /\ \A k \in 1..n : s[k] = Base(t)[k].vel
  BY <1>1, ShownFacts
<1>3. PICK r \in Seq(Seen) : /\ r = Shown(t)' /\ Len(r) = m
                             /\ \A k \in 1..m : r[k] = Past(Base(t), m)[k].vel
  BY <1>1, ShownFactsNext
<1>4. \A k \in 1..m : Past(Base(t), m)[k] = Base(t)[k]
  <2>1. Base(t) \in Trajectory /\ Len(Base(t)) = n
    BY <1>1, StatesAreTraces, PastOfTrajectory DEF Base, CheckpointInv
  <2> QED BY <1>1, <2>1, PastElement
<1>5. /\ SubSeq(s, 1, m) \in Seq(Seen) /\ Len(SubSeq(s, 1, m)) = m
      /\ \A k \in 1..m : SubSeq(s, 1, m)[k] = s[k]
  <2>1. \A k \in 1..m : s[k] \in Seen
    BY <1>1, <1>2
  <2>2. m - 1 + 1 = m /\ (1 <= m \/ m = 0)
    OBVIOUS
  <2>3. /\ SubSeq(s, 1, m) \in Seq(Seen)
        /\ Len(SubSeq(s, 1, m)) = IF 1 <= m THEN m - 1 + 1 ELSE 0
        /\ \A k \in 1..m - 1 + 1 : SubSeq(s, 1, m)[k] = s[1 + k - 1]
    BY <2>1, <2>2, SubSeqProperties
  <2> QED BY <2>2, <2>3
<1>6. \A k \in 1..m : SubSeq(s, 1, m)[k] = r[k]
  <2> SUFFICES ASSUME NEW k \in 1..m PROVE SubSeq(s, 1, m)[k] = r[k]
    OBVIOUS
  <2>1. k \in 1..n
    BY <1>1
  <2> QED BY <1>2, <1>3, <1>4, <1>5, <2>1
<1> QED BY <1>1, <1>2, <1>3, <1>5, <1>6, SeqEqual

\* After a driver step, its winds are added.
LEMMA OutputShown ==
  ASSUME TypeInv, TypeInv', CheckpointInv, CheckpointInv', c' = c, NEW t \in Turbines,
         NEW S \in Nat, nt_global' = nt_global + S, NEW d \in Seq(Seen), Len(d) = S,
         Base(t) = Past(Base(t)', nt_global),
         \A k \in 1..S : (Base(t)')[nt_global + k].vel = d[k]
  PROVE  Shown(t)' = Shown(t) \o d
<1>1. PICK n \in Nat : n = nt_global /\ nt_global' = n + S
  BY DEF TypeInv
<1>2. PICK s \in Seq(Seen) : s = Shown(t) /\ Len(s) = n /\ \A k \in 1..n : s[k] = Base(t)[k].vel
  BY <1>1, ShownFacts
<1>3. PICK r \in Seq(Seen) : /\ r = Shown(t)' /\ Len(r) = n + S
                             /\ \A k \in 1..n + S : r[k] = (Base(t)')[k].vel
  BY <1>1, ShownFactsNext
<1>4. \A k \in 1..n : Base(t)[k] = (Base(t)')[k]
  <2>1. Base(t)' \in Trajectory /\ Len(Base(t)') = n + S
    <3>1. T'[t] \in TurbineType /\ nt_global' <= Len(Curr(T'[t])) /\ nt_global' \in Nat
      BY SameSetUp DEF TypeInv, CheckpointInv
    <3>2. Curr(T'[t]) \in Trajectory
      BY <3>1 DEF TurbineType, Curr, StateIndex
    <3>3. Base(t)' = Past(Curr(T'[t]), nt_global')
      BY DEF Base, Curr
    <3> QED BY <1>1, <3>1, <3>2, <3>3, PastOfTrajectory
  <2> QED BY <1>1, <2>1, PastElement
<1>5. PICK p \in Seq(Seen) : /\ p = s \o d /\ Len(p) = n + S
                             /\ \A k \in 1..n : p[k] = s[k]
                             /\ \A k \in 1..S : p[n + k] = d[k]
  <2>1. /\ s \o d \in Seq(Seen) /\ Len(s \o d) = Len(s) + Len(d)
        /\ \A k \in 1..Len(s) + Len(d) :
              (s \o d)[k] = IF k <= Len(s) THEN s[k] ELSE d[k - Len(s)]
    BY ConcatProperties
  <2>2. PICK p : p = s \o d
    OBVIOUS
  <2>3. /\ p \in Seq(Seen) /\ Len(p) = n + S
        /\ \A k \in 1..n + S : p[k] = IF k <= n THEN s[k] ELSE d[k - n]
    BY <1>2, <2>1, <2>2
  <2>4. ASSUME NEW k \in 1..S PROVE p[n + k] = d[k]
    <3>1. n + k \in 1..n + S /\ ~(n + k <= n) /\ (n + k) - n = k
      OBVIOUS
    <3> QED BY <2>3, <3>1
  <2>5. ASSUME NEW k \in 1..n PROVE p[k] = s[k]
    <3>1. k \in 1..n + S /\ k <= n
      OBVIOUS
    <3> QED BY <2>3, <3>1
  <2>6. p \in Seq(Seen) /\ Len(p) = n + S
    BY <2>3
  <2> QED BY <2>2, <2>4, <2>5, <2>6
<1>6. ASSUME NEW k \in 1..n + S PROVE r[k] = p[k]
  <2>1. CASE k <= n
    <3>1. k \in 1..n
      BY <2>1
    <3>2. r[k] = (Base(t)')[k].vel /\ s[k] = Base(t)[k].vel /\ Base(t)[k] = (Base(t)')[k]
      BY <1>2, <1>3, <1>4, <3>1
    <3> QED BY <1>5, <3>1, <3>2
  <2>2. CASE k > n
    <3>1. PICK j \in 1..S : k = n + j
      <4>1. k - n \in 1..S /\ k = n + (k - n)
        BY <2>2
      <4> QED BY <4>1
    <3>2. (Base(t)')[n + j].vel = d[j]
      BY <1>1
    <3> QED BY <1>3, <1>5, <3>1, <3>2
  <2>3. k <= n \/ k > n
    OBVIOUS
  <2> QED BY <2>1, <2>2, <2>3
<1> QED BY <1>1, <1>2, <1>3, <1>5, <1>6, SeqEqual

\* What CoupledSteps sees: its variables winds and seen.
WindsShown == IF Followed THEN winds ELSE <<>>
AllShown == [t \in Turbines |-> IF Followed THEN Shown(t) ELSE <<>>]

LEMMA SameFollowed ==
  ASSUME c' = c
  PROVE  /\ Turbines' = Turbines /\ Followed' = Followed
         /\ WindsShown' = IF Followed THEN winds' ELSE <<>>
         /\ AllShown' = [t \in Turbines |-> IF Followed THEN Shown(t)' ELSE <<>>]
<1>1. Turbines' = Turbines
  BY SameSetUp
<1>2. Followed' = Followed
  BY <1>1 DEF Followed
<1> QED BY <1>1, <1>2 DEF WindsShown, AllShown

\* Output is a driver step of CoupledSteps.
LEMMA OutputIsDriverStep ==
  ASSUME OrderlyIInv, OrderlyIInv', Followed, WindInv, WindInv', Output
  PROVE  Abstract!DriverStep
<1> Orderly /\ IInv /\ IInv' /\ TypeInv /\ TypeInv' /\ CheckpointInv /\ CheckpointInv' /\ Scalars
  BY SetUp DEF OrderlyIInv, IInv, WindInv
<1>1. /\ c' = c /\ pc = "output" /\ ~After /\ pc /= "down"
      /\ nt_global' = nt_global + c.nSubsteps /\ winds' = Append(winds, ThisPass)
  BY DEF Output, Followed, After, Filing
<1>2. /\ winds \in Seq(Sample) /\ Len(winds) = nt /\ winds' \in Seq(Sample)
      /\ Len(winds') = nt + 1 /\ winds'[nt + 1] = ThisPass
  <2>1. winds \in Seq(Sample) /\ Len(winds) = nt
    BY <1>1 DEF IInv, TypeInv, HistoryInv, Followed
  <2>2. winds' \in Seq(Sample)
    BY DEF TypeInv
  <2> QED BY <1>1, <2>1, <2>2
<1>3. Abstract!Latest(winds) = WindAt(nt) /\ Abstract!Latest(winds') = ThisPass
  <2>1. Abstract!Latest(winds) = WindAt(nt)
    <3>1. CASE nt = 0
      <4>1. winds = <<>>
        BY <1>2, <3>1, EmptySeq
      <4> QED BY <3>1, <4>1 DEF Abstract!Latest, WindAt, Wind0, Abstract!Wind0
    <3>2. CASE nt /= 0
      <4>1. winds /= <<>> /\ ~(nt < 1)
        BY <1>2, <3>2, Numbers
      <4> QED BY <1>2, <4>1 DEF Abstract!Latest, WindAt
    <3> QED BY <3>1, <3>2
  <2>2. winds' /= <<>>
    BY <1>2, Numbers
  <2> QED BY <1>2, <2>1, <2>2 DEF Abstract!Latest
<1>4. PICK S \in Nat : S = c.nSubsteps
  BY Numbers
<1>5. WindAt(nt) \in Sample /\ ThisPass \in Sample
  <2>1. ThisPass \in Sample
    BY <1>2, ElementOfSeq, Numbers
  <2>2. WindAt(nt) \in Sample
    <3>1. Wind0 \in Sample
      BY DEF Wind0, Sample
    <3>2. ~(nt < 1) => winds[nt] \in Sample
      BY <1>2, ElementOfSeq, Numbers
    <3> QED BY <3>1, <3>2 DEF WindAt
  <2> QED BY <2>1, <2>2
<1>6. ASSUME NEW t \in Turbines, NEW d, d = Abstract!Driven(t, WindAt(nt), ThisPass)
      PROVE  /\ d \in Seq(Seen) /\ Len(d) = S
             /\ \A k \in 1..S : d[k] = Wanted(t, WindAt(nt), ThisPass, k)
  <2>1. d = [k \in 1..S |-> Wanted(t, WindAt(nt), ThisPass, k)]
    BY <1>4, <1>6 DEF Abstract!Driven, Abstract!Follows, Wanted, Abstract!Blend, Blend,
                      Abstract!OwnWind, OwnWind, Abstract!NoWind, NoWind
  <2>2. \A k \in 1..S : Wanted(t, WindAt(nt), ThisPass, k) \in Seen
    <3>1. OwnWind \in Seen
      BY DEF OwnWind, NoWind, Seen, Sample
    <3>2. \A k \in 1..S : Blend(WindAt(nt), ThisPass, k, S) \in Seen
      BY <1>5 DEF Blend, Seen
    <3> QED BY <1>4, <3>1, <3>2 DEF Wanted
  <2>3. d \in [1..S -> Seen]
    BY <2>1, <2>2
  <2>4. d \in Seq(Seen)
    BY <2>3, SeqDef
  <2>5. DOMAIN d = 1..S /\ DOMAIN d = 1..Len(d) /\ Len(d) \in Nat
    BY <2>3, <2>4, LenProperties
  <2> QED BY <2>1, <2>4, <2>5
<1>7. ASSUME NEW t \in Turbines
      PROVE  Shown(t)' = Shown(t) \o Abstract!Driven(t, WindAt(nt), ThisPass)
  <2>1. PICK d \in Seq(Seen) : /\ d = Abstract!Driven(t, WindAt(nt), ThisPass) /\ Len(d) = S
                               /\ \A k \in 1..S : d[k] = Wanted(t, WindAt(nt), ThisPass, k)
    BY <1>6
  <2>2. Base(t) = Past(Base(t)', nt_global) /\ Base(t)' = Curr(T[t])
    BY OutputKeepsWind
  <2>3. Len(Curr(T[t])) = nt_global + S
    <3>1. nt < c.nt_end
      BY <1>1 DEF IInv, CountInv, InPass
    <3> QED BY <1>1, <1>4, <3>1, AllReady DEF Ready
  <2>4. OfThisPass(t, Curr(T[t]))
    BY <1>1 DEF WindInv, PassInv
  <2>5. \A k \in 1..S : (Base(t)')[nt_global + k].vel = d[k]
    <3>1. \A k \in 1..S : nt_global + k <= nt_global + S
      BY Numbers
    <3> QED BY <1>4, <2>1, <2>2, <2>3, <2>4, <3>1 DEF OfThisPass
  <2>6. nt_global' = nt_global + S
    BY <1>1, <1>4
  <2>7. Shown(t)' = Shown(t) \o d
    BY <1>1, <2>1, <2>2, <2>5, <2>6, OutputShown
  <2> QED BY <2>1, <2>7
<1>8. WindsShown = winds /\ WindsShown' = winds'
  BY <1>1, SameFollowed DEF WindsShown
<1>9. AllShown' = [t \in DOMAIN AllShown |->
                     AllShown[t] \o Abstract!Driven(t, WindAt(nt), ThisPass)]
  <2>1. /\ DOMAIN AllShown = Turbines /\ \A t \in Turbines : AllShown[t] = Shown(t)
        /\ AllShown' = [t \in Turbines |-> Shown(t)']
    BY <1>1, SameFollowed DEF AllShown
  <2> QED BY <1>7, <2>1
<1>10. WindsShown' = Append(WindsShown, Abstract!Latest(WindsShown'))
  BY <1>1, <1>3, <1>8
<1>11. AllShown' = [t \in DOMAIN AllShown |->
          AllShown[t] \o Abstract!Driven(t, Abstract!Latest(WindsShown),
                                         Abstract!Latest(WindsShown'))]
  BY <1>3, <1>8, <1>9
<1> QED BY <1>1, <1>10, <1>11 DEF Abstract!DriverStep, WindsShown, AllShown, Shown

\* Restart goes back to an earlier driver step.
LEMMA RestartIsGoBack ==
  ASSUME OrderlyIInv, OrderlyIInv', Followed, WindInv, WindInv', Restart
  PROVE  Abstract!GoBack
<1> Orderly /\ IInv /\ IInv' /\ TypeInv /\ TypeInv' /\ CheckpointInv /\ CheckpointInv' /\ Scalars
  BY SetUp DEF OrderlyIInv, IInv, WindInv
<1>1. c' = c /\ winds' = SubSeq(winds, 1, nt')
  BY DEF Restart, Followed
<1>2. nt_global' <= nt_global /\ \A t \in Turbines : Base(t)' = Past(Base(t), nt_global')
  BY RestartKeepsWind
<1>3. PICK k \in Nat : k = nt' /\ Len(winds') = k /\ nt_global' = k * c.nSubsteps
  <2>1. pc' = "main" /\ ~After'
    BY DEF Restart, After, Filing
  <2>2. Len(winds') = nt' /\ nt_global' = nt' * c'.nSubsteps
    BY <1>1, <2>1 DEF IInv, HistoryInv, CountInv, Followed
  <2>3. nt' \in Nat
    BY <1>1, Numbers DEF TypeInv
  <2> QED BY <1>1, <2>2, <2>3
<1>4. k \in 0..Len(winds)
  <2>1. PICK m \in Nat : m = Len(winds)
    BY DEF TypeInv
  <2>2. k * c.nSubsteps <= m * c.nSubsteps
    BY <1>2, <1>3, <2>1 DEF CheckpointInv
  <2>3. k <= m
    BY <2>2, Cancel, Numbers
  <2> QED BY <2>1, <2>3
<1>5. WindsShown = winds /\ WindsShown' = winds'
  BY <1>1, SameFollowed DEF WindsShown
<1>6. AllShown' = [t \in DOMAIN AllShown |-> SubSeq(AllShown[t], 1, k * c.nSubsteps)]
  <2>1. /\ DOMAIN AllShown = Turbines /\ \A t \in Turbines : AllShown[t] = Shown(t)
        /\ AllShown' = [t \in Turbines |-> Shown(t)']
    BY <1>1, SameFollowed DEF AllShown
  <2>2. \A t \in Turbines : Shown(t)' = SubSeq(Shown(t), 1, nt_global')
    BY <1>1, <1>2, RestartShown
  <2> QED BY <1>3, <2>1, <2>2
<1>7. k \in 0..Len(WindsShown) /\ WindsShown' = SubSeq(WindsShown, 1, k)
  BY <1>1, <1>3, <1>4, <1>5
<1> QED BY <1>1, <1>6, <1>7 DEF Abstract!GoBack, WindsShown, AllShown, Shown

\* Every step is one of CoupledSteps, or shows nothing.
LEMMA StepMaps ==
  ASSUME OrderlyIInv, OrderlyIInv', FollowInv, [Next]_vars
  PROVE  FollowInv' /\ [Abstract!DriverStep \/ Abstract!GoBack]_(Abstract!vars)
<1>1. c' = c
  BY SetUpStays
<1>2. CASE ~Followed
  <2>1. WindsShown' = WindsShown /\ AllShown' = AllShown
    BY <1>1, <1>2, SameFollowed DEF WindsShown, AllShown
  <2>2. UNCHANGED Abstract!vars
    BY <1>1, <2>1 DEF Abstract!vars, WindsShown, AllShown, Shown
  <2> QED BY <1>1, <1>2, <2>2, SameFollowed DEF FollowInv
<1>3. CASE Followed
  <2>1. WindInv /\ WindInv' /\ (Output \/ Restart \/ Stays)
    BY <1>3, NextFollows DEF FollowInv
  <2> SUFFICES [Abstract!DriverStep \/ Abstract!GoBack]_(Abstract!vars)
    BY <2>1 DEF FollowInv
  <2>2. CASE Output
    BY <1>3, <2>1, <2>2, OutputIsDriverStep
  <2>3. CASE Restart
    BY <1>3, <2>1, <2>3, RestartIsGoBack
  <2>4. CASE Stays
    <3>1. \A t \in Turbines : Shown(t)' = Shown(t)
      BY <2>1, <2>4, StaysShown DEF OrderlyIInv, IInv, WindInv
    <3>2. WindsShown' = WindsShown /\ AllShown' = AllShown
      BY <1>1, <1>3, <2>4, <3>1, SameFollowed DEF WindsShown, AllShown, Stays
    <3> QED BY <1>1, <3>2 DEF Abstract!vars, WindsShown, AllShown, Shown
  <2> QED BY <2>1, <2>2, <2>3, <2>4
<1> QED BY <1>2, <1>3

LEMMA InitMaps ==
  ASSUME Init, Orderly
  PROVE  FollowInv /\ Abstract!Init
<1>1. FollowInv
  BY InitFollows DEF FollowInv
<1>2. WindsShown = <<>>
  BY DEF WindsShown, Init
<1>3. AllShown = [t \in DOMAIN c.kind |-> <<>>]
  <2>1. nt_global = 0
    BY DEF Init
  <2>2. \A t \in Turbines : Shown(t) = <<>>
    BY <2>1 DEF Shown
  <2> QED BY <2>2 DEF AllShown, Turbines
<1> QED BY <1>1, <1>2, <1>3 DEF Abstract!Init, WindsShown, AllShown, Shown

-----------------------------------------------------------------------------

\* CoupledDriver implements CoupledSteps: each turbine takes the time steps of
\* each accepted driver step once, in order, under the winds of that step.
THEOREM DriverKeepsPromise == Spec /\ Orderly => Refines
<1>1. Init /\ Orderly => FollowInv /\ Abstract!Init
  BY InitMaps
<1>2. OrderlyIInv /\ OrderlyIInv' /\ FollowInv /\ [Next]_vars
         => FollowInv' /\ [Abstract!DriverStep \/ Abstract!GoBack]_(Abstract!vars)
  BY StepMaps
<1> QED BY <1>1, <1>2, StaysOrderly, PTL DEF Spec, Refines, Abstract!Spec

=============================================================================
