-------------------------- MODULE SolverStep_proofs --------------------------
(***************************************************************************)
(* Proofs about FAST_SolverStep for every set of solver parameters, every  *)
(* error a call may return and every number of calls.                      *)
(***************************************************************************)
EXTENDS SolverStep, TLAPS

\* The ceiling of a quotient is an integer.
LEMMA CeilDivInt ==
    ASSUME NEW a \in Nat, NEW b \in Nat \ {0}
    PROVE  CeilDiv(a, b) \in Int
  <1>1. a + b - 1 \in Int /\ b > 0
    OBVIOUS
  <1> QED
    BY <1>1 DEF CeilDiv

\* The update intervals that FAST_SolverInit computes are integers.
LEMMA IntervalsAreIntegers ==
    ASSUME NEW q \in Params
    PROVE  NStep_UJac(q) \in Int /\ NIter_UJac(q) \in Int
  <1>1. /\ q.DT \in Nat \ {0} /\ q.DT_UJac \in Nat /\ q.MaxConvIter \in Nat
    BY SolverAssumption DEF ParamType
  <1>2. q.DT_UJac * q.MaxConvIter \in Nat
    BY <1>1
  <1>3. Huge \in Int
    BY DEF Huge
  <1> QED
    BY <1>1, <1>2, <1>3, CeilDivInt DEF NStep_UJac, NIter_UJac

\* The state after FAST_SolverStep0 is type correct.
LEMMA TypeInit == Init => TypeOK
  <1> SUFFICES ASSUME Init PROVE TypeOK
    OBVIOUS
  <1>1. p.NumCrctn \in Nat
    BY SolverAssumption DEF Init, ParamType
  <1> QED
    BY <1>1, SolverAssumption DEF Init, TypeOK, None, ErrID

\* The lists that FAST_SolverInit builds hold modules in use only.
LEMMA ListsOfModules ==
    ASSUME NEW q
    PROVE  /\ iModTC(q) \subseteq q.mods /\ iModOpt1(q) \subseteq q.mods
           /\ iModOpt2(q) \subseteq q.mods /\ iModPost(q) \subseteq q.mods
           /\ Solver(q) \subseteq q.mods
  BY DEF iModTC, iModOpt1, iModOpt2, iModPost, Solver

\* A call never lowers the error level, and ends the routine exactly when the
\* level has reached the abort level.
LEMMA TryType ==
    ASSUME ErrStat \in ErrID, NEW next, Try(next)
    PROVE  /\ ErrStat' \in ErrID
           /\ ErrStat >= Warn => ErrStat' >= Warn
           /\ pc' = next \/ pc' = "failed"
           /\ Failed \/ pc' = next
           /\ next /= "failed" => (Failed <=> pc' = "failed")
  BY SolverAssumption DEF Try, ErrID, MaxOf, Warn

\* Every step keeps the type invariant.
LEMMA TypeStep == TypeOK /\ [Next]_vars => TypeOK'
  <1> SUFFICES ASSUME TypeOK, [Next]_vars PROVE TypeOK'
    OBVIOUS
  <1> USE DEF TypeOK, counters, jacobian
  <1>1. /\ p.NumCrctn \in Nat
        /\ NStep_UJac(p) \in Int /\ NIter_UJac(p) \in Int
    BY IntervalsAreIntegers, SolverAssumption DEF ParamType
  <1>2. CASE BeginStep
    BY <1>1, <1>2, SolverAssumption DEF BeginStep, None, ErrID
  <1>3. CASE Predict
    BY <1>3, ListsOfModules, TryType DEF Predict, Done
  <1>4. CASE Option2
    BY <1>4, ListsOfModules, TryType DEF Option2, Done
  <1>5. CASE Option1
    BY <1>5, ListsOfModules, TryType DEF Option1, Done
  <1>6. CASE CalcOutputs
    BY <1>6, ListsOfModules, TryType DEF CalcOutputs, Done
  <1>7. CASE NothingToSolve
    BY <1>7 DEF NothingToSolve
  <1>8. CASE IterationsLeft
    BY <1>8 DEF IterationsLeft
  <1>9. CASE DivergedFatal
    BY <1>9 DEF DivergedFatal, IterationLimit, MaxOf, Fatal, ErrID
  <1>10. CASE DivergedRetry
    BY <1>10 DEF DivergedRetry, IterationLimit, MayRetry, MaxConvUJac,
                RetryCorrections
  <1>11. CASE DivergedWarn
    BY <1>11 DEF DivergedWarn, IterationLimit, MaxOf, Warn, ErrID
  <1>12. CASE FormRHS
    BY <1>12, TryType DEF FormRHS
  <1>13. CASE KeepJacobian
    BY <1>13 DEF KeepJacobian
  <1>14. CASE BuildJacobianTC
    BY <1>1, <1>14, TryType DEF BuildJacobianTC
  <1>15. CASE SolveUpdate
    BY <1>15, TryType DEF SolveUpdate
  <1>16. CASE Converged
    BY <1>16 DEF Converged
  <1>17. CASE ApplyUpdate
    BY <1>17, ListsOfModules, TryType DEF ApplyUpdate, Done
  <1>18. CASE PostSolve
    BY <1>18, ListsOfModules, TryType DEF PostSolve, Done
  <1>19. CASE Return
    BY <1>19 DEF Return
  <1>20. CASE UNCHANGED vars
    BY <1>20 DEF vars
  <1> QED
    BY <1>2, <1>3, <1>4, <1>5, <1>6, <1>7, <1>8, <1>9, <1>10, <1>11, <1>12, <1>13, <1>14, <1>15, <1>16, <1>17, <1>18, <1>19, <1>20 DEF Next, Routine, Over

\* Type correctness of the model of FAST_SolverStep.
THEOREM TypeCorrect == Spec => []TypeOK
  <1>1. Init => TypeOK
    BY TypeInit
  <1>2. TypeOK /\ [Next]_vars => TypeOK'
    BY TypeStep
  <1> QED
    BY <1>1, <1>2, PTL DEF Spec

-----------------------------------------------------------------------------
(* The correction loop is bounded although it moves its own limit: retries  *)
(* are counted by ConvUJac, and each moves the limit by at most one.        *)

InLoop == {"opt2", "opt1", "calc", "check", "rhs", "jacobian", "solve", "test", "post"}

RetryInv ==
    /\ ConvUJac <= MaxConvUJac
    /\ NumCorrections <= p.NumCrctn + ConvUJac
    /\ CorrIter <= NumCorrections + 1
    /\ pc \in InLoop => CorrIter <= NumCorrections

\* Every step keeps the bound on the correction loop.
LEMMA RetryStep == TypeOK /\ RetryInv /\ [Next]_vars => RetryInv'
  <1> SUFFICES ASSUME TypeOK, RetryInv, [Next]_vars PROVE RetryInv'
    OBVIOUS
  <1> USE DEF TypeOK, RetryInv, InLoop, MaxConvUJac, counters, jacobian
  <1>1. p.NumCrctn \in Nat
    BY SolverAssumption DEF ParamType
  <1>2. CASE BeginStep
    BY <1>1, <1>2 DEF BeginStep
  <1>3. CASE Predict
    BY <1>1, <1>3, TryType DEF Predict
  <1>4. CASE Option2
    BY <1>1, <1>4, TryType DEF Option2
  <1>5. CASE Option1
    BY <1>1, <1>5, TryType DEF Option1
  <1>6. CASE CalcOutputs
    BY <1>1, <1>6, TryType DEF CalcOutputs
  <1>7. CASE NothingToSolve
    BY <1>1, <1>7 DEF NothingToSolve
  <1>8. CASE IterationsLeft
    BY <1>1, <1>8 DEF IterationsLeft
  <1>9. CASE DivergedFatal
    BY <1>1, <1>9 DEF DivergedFatal, IterationLimit
  <1>10. CASE DivergedRetry
    BY <1>1, <1>10 DEF DivergedRetry, IterationLimit, MayRetry, RetryCorrections
  <1>11. CASE DivergedWarn
    BY <1>1, <1>11 DEF DivergedWarn, IterationLimit
  <1>12. CASE FormRHS
    BY <1>1, <1>12, TryType DEF FormRHS
  <1>13. CASE KeepJacobian
    BY <1>1, <1>13 DEF KeepJacobian, JacobianDue
  <1>14. CASE BuildJacobianTC
    BY <1>1, <1>14, TryType DEF BuildJacobianTC
  <1>15. CASE SolveUpdate
    BY <1>1, <1>15, TryType DEF SolveUpdate
  <1>16. CASE Converged
    BY <1>1, <1>16 DEF Converged, UpdateAccepted
  <1>17. CASE ApplyUpdate
    BY <1>1, <1>17, TryType DEF ApplyUpdate, UpdateAccepted
  <1>18. CASE PostSolve
    BY <1>1, <1>18, TryType DEF PostSolve
  <1>19. CASE Return
    BY <1>1, <1>19 DEF Return
  <1>20. CASE UNCHANGED vars
    BY <1>1, <1>20 DEF vars
  <1> QED
    BY <1>2, <1>3, <1>4, <1>5, <1>6, <1>7, <1>8, <1>9, <1>10, <1>11,
       <1>12, <1>13, <1>14, <1>15, <1>16, <1>17, <1>18, <1>19, <1>20 DEF Next, Routine, Over

-----------------------------------------------------------------------------
(* Convergence iterations: at most MaxConvIter + 1 in each correction       *)
(* iteration, so that their total is bounded by a product.                  *)

Most(q, c) == c * (q.MaxConvIter + 1)

\* The bound grows by MaxConvIter + 1 with each correction iteration.
LEMMA MostGrows ==
    ASSUME NEW q \in Params, NEW c \in Nat
    PROVE  /\ Most(q, 0) = 0
           /\ Most(q, c) \in Nat
           /\ Most(q, c + 1) = Most(q, c) + q.MaxConvIter + 1
  <1>1. q.MaxConvIter \in Nat
    BY SolverAssumption DEF ParamType
  <1> QED
    BY <1>1 DEF Most

IterInv ==
    /\ pc = "calc" => /\ ConvIter <= p.MaxConvIter
                      /\ TotalIter <= Most(p, CorrIter) + ConvIter
    /\ pc \in {"check", "rhs", "jacobian", "solve", "test"} =>
          /\ ConvIter <= p.MaxConvIter
          /\ pc /= "check" => ConvIter < p.MaxConvIter
          /\ TotalIter <= Most(p, CorrIter) + ConvIter + 1
    /\ pc \in {"idle", "while", "opt2", "opt1", "done"} => TotalIter <= Most(p, CorrIter)
    /\ TotalIter <= Most(p, CorrIter) + p.MaxConvIter + 1

\* Every step keeps the bound on the convergence iterations.
LEMMA IterStep == TypeOK /\ IterInv /\ [Next]_vars => IterInv'
  <1> SUFFICES ASSUME TypeOK, IterInv, [Next]_vars PROVE IterInv'
    OBVIOUS
  <1> USE DEF TypeOK, IterInv, counters, jacobian
  <1>1. /\ p.MaxConvIter \in Nat
        /\ Most(p, 0) = 0 /\ Most(p, CorrIter) \in Nat
        /\ Most(p, CorrIter + 1) = Most(p, CorrIter) + p.MaxConvIter + 1
    BY MostGrows, SolverAssumption DEF ParamType
  <1>2. CASE BeginStep
    BY <1>1, <1>2 DEF BeginStep
  <1>3. CASE Predict
    BY <1>1, <1>3, TryType DEF Predict
  <1>4. CASE Option2
    BY <1>1, <1>4, TryType DEF Option2
  <1>5. CASE Option1
    BY <1>1, <1>5, TryType DEF Option1
  <1>6. CASE CalcOutputs
    BY <1>1, <1>6, TryType DEF CalcOutputs
  <1>7. CASE NothingToSolve
    BY <1>1, <1>7 DEF NothingToSolve
  <1>8. CASE IterationsLeft
    BY <1>1, <1>8 DEF IterationsLeft
  <1>9. CASE DivergedFatal
    BY <1>1, <1>9 DEF DivergedFatal, IterationLimit
  <1>10. CASE DivergedRetry
    BY <1>1, <1>10 DEF DivergedRetry, IterationLimit
  <1>11. CASE DivergedWarn
    BY <1>1, <1>11 DEF DivergedWarn, IterationLimit
  <1>12. CASE FormRHS
    BY <1>1, <1>12, TryType DEF FormRHS
  <1>13. CASE KeepJacobian
    BY <1>1, <1>13 DEF KeepJacobian
  <1>14. CASE BuildJacobianTC
    BY <1>1, <1>14, TryType DEF BuildJacobianTC
  <1>15. CASE SolveUpdate
    BY <1>1, <1>15, TryType DEF SolveUpdate
  <1>16. CASE Converged
    BY <1>1, <1>16 DEF Converged, UpdateAccepted
  <1>17. CASE ApplyUpdate
    BY <1>1, <1>17, TryType DEF ApplyUpdate, UpdateAccepted
  <1>18. CASE PostSolve
    BY <1>1, <1>18, TryType DEF PostSolve
  <1>19. CASE Return
    BY <1>1, <1>19 DEF Return
  <1>20. CASE UNCHANGED vars
    BY <1>1, <1>20 DEF vars
  <1> QED
    BY <1>2, <1>3, <1>4, <1>5, <1>6, <1>7, <1>8, <1>9, <1>10, <1>11,
       <1>12, <1>13, <1>14, <1>15, <1>16, <1>17, <1>18, <1>19, <1>20 DEF Next, Routine, Over

-----------------------------------------------------------------------------
(* The Jacobian countdowns.  Between calls and iterations they never exceed *)
(* the interval minus the age of the Jacobian, unless already expired.      *)

JacInv ==
    pc /= "failed" =>
        /\ ~jac.built => UJacIterRemain <= 0
        /\ jac.built =>
              /\ UJacIterRemain <= NIter_UJac(p) - jac.iters \/ UJacIterRemain <= 0
              /\ UJacStepsRemain <= NStep_UJac(p) - jac.steps
        /\ lastConv = "retry" =>
              /\ pc \in {"post", "while", "opt2", "opt1"} => UJacIterRemain <= 0
              /\ pc \in {"calc", "check", "rhs", "jacobian"} /\ ConvIter = 0
                    => UJacIterRemain <= 0
        /\ pc = "solve" =>
              /\ jac.built
              /\ jac.iters = 0 \/ (UJacIterRemain > 0 /\ UJacStepsRemain > 0)
              /\ lastConv = "retry" /\ ConvIter = 0 => jac.iters = 0

\* Every step keeps the relation of the countdowns to the age of the Jacobian.
LEMMA JacStep == TypeOK /\ JacInv /\ [Next]_vars => JacInv'
  <1> SUFFICES ASSUME TypeOK, JacInv, [Next]_vars PROVE JacInv'
    OBVIOUS
  <1> USE DEF TypeOK, JacInv, counters, jacobian
  <1>1. NStep_UJac(p) \in Int /\ NIter_UJac(p) \in Int
    BY IntervalsAreIntegers
  <1>2. CASE BeginStep
    BY <1>1, <1>2 DEF BeginStep
  <1>3. CASE Predict
    BY <1>1, <1>3, TryType DEF Predict
  <1>4. CASE Option2
    BY <1>1, <1>4, TryType DEF Option2
  <1>5. CASE Option1
    BY <1>1, <1>5, TryType DEF Option1
  <1>6. CASE CalcOutputs
    BY <1>1, <1>6, TryType DEF CalcOutputs
  <1>7. CASE NothingToSolve
    BY <1>1, <1>7 DEF NothingToSolve
  <1>8. CASE IterationsLeft
    BY <1>1, <1>8 DEF IterationsLeft
  <1>9. CASE DivergedFatal
    BY <1>1, <1>9 DEF DivergedFatal, IterationLimit
  <1>10. CASE DivergedRetry
    BY <1>1, <1>10 DEF DivergedRetry, IterationLimit, MayRetry, RetryCorrections
  <1>11. CASE DivergedWarn
    BY <1>1, <1>11 DEF DivergedWarn, IterationLimit
  <1>12. CASE FormRHS
    BY <1>1, <1>12, TryType DEF FormRHS
  <1>13. CASE KeepJacobian
    BY <1>1, <1>13 DEF KeepJacobian, JacobianDue
  <1>14. CASE BuildJacobianTC
    BY <1>1, <1>14, TryType DEF BuildJacobianTC, Try
  <1>15. CASE SolveUpdate
    BY <1>1, <1>15, TryType DEF SolveUpdate
  <1>16. CASE Converged
    BY <1>1, <1>16 DEF Converged, UpdateAccepted
  <1>17. CASE ApplyUpdate
    BY <1>1, <1>17, TryType DEF ApplyUpdate, UpdateAccepted
  <1>18. CASE PostSolve
    BY <1>1, <1>18, TryType DEF PostSolve
  <1>19. CASE Return
    BY <1>1, <1>19 DEF Return
  <1>20. CASE UNCHANGED vars
    BY <1>1, <1>20 DEF vars
  <1> QED
    BY <1>2, <1>3, <1>4, <1>5, <1>6, <1>7, <1>8, <1>9, <1>10, <1>11,
       <1>12, <1>13, <1>14, <1>15, <1>16, <1>17, <1>18, <1>19, <1>20 DEF Next, Routine, Over

-----------------------------------------------------------------------------
(* Each retry has been followed by a rebuild, except that the last one may  *)
(* still wait for it.                                                       *)

\* A rebuild has been asked for and the Jacobian has not been looked at since.
AwaitsRebuild ==
    /\ lastConv = "retry"
    /\ \/ pc \in {"post", "while", "opt2", "opt1", "done"}
       \/ pc \in {"calc", "check", "rhs", "jacobian"} /\ ConvIter = 0

WarnInv ==
    /\ lastConv = "retry" => p.NumJ /= 0
    /\ pc /= "failed" /\ p.MaxConvIter > 0 =>
          IF AwaitsRebuild THEN NumUJac >= ConvUJac - 1 ELSE NumUJac >= ConvUJac
    /\ lastConv = "warned" /\ p.MaxConvIter > 0 => ConvUJac >= MaxConvUJac /\ NumUJac >= ConvUJac

\* Every step keeps the count of rebuilds up with the count of retries.
LEMMA WarnStep == TypeOK /\ JacInv /\ WarnInv /\ [Next]_vars => WarnInv'
  <1> SUFFICES ASSUME TypeOK, JacInv, WarnInv, [Next]_vars PROVE WarnInv'
    OBVIOUS
  <1> USE DEF TypeOK, JacInv, WarnInv, AwaitsRebuild, MaxConvUJac, counters, jacobian
  <1>1. p.MaxConvIter \in Nat
    BY SolverAssumption DEF ParamType
  <1>2. CASE BeginStep
    BY <1>1, <1>2 DEF BeginStep
  <1>3. CASE Predict
    BY <1>1, <1>3, TryType DEF Predict
  <1>4. CASE Option2
    BY <1>1, <1>4, TryType DEF Option2
  <1>5. CASE Option1
    BY <1>1, <1>5, TryType DEF Option1
  <1>6. CASE CalcOutputs
    BY <1>1, <1>6, TryType DEF CalcOutputs
  <1>7. CASE NothingToSolve
    BY <1>1, <1>7 DEF NothingToSolve
  <1>8. CASE IterationsLeft
    BY <1>1, <1>8 DEF IterationsLeft
  <1>9. CASE DivergedFatal
    BY <1>1, <1>9 DEF DivergedFatal, IterationLimit
  <1>10. CASE DivergedRetry
    BY <1>1, <1>10 DEF DivergedRetry, IterationLimit, MayRetry
  <1>11. CASE DivergedWarn
    BY <1>1, <1>11 DEF DivergedWarn, IterationLimit, MayRetry
  <1>12. CASE FormRHS
    BY <1>1, <1>12, TryType DEF FormRHS
  <1>13. CASE KeepJacobian
    BY <1>1, <1>13 DEF KeepJacobian, JacobianDue
  <1>14. CASE BuildJacobianTC
    BY <1>1, <1>14, TryType DEF BuildJacobianTC, Try
  <1>15. CASE SolveUpdate
    BY <1>1, <1>15, TryType DEF SolveUpdate
  <1>16. CASE Converged
    BY <1>1, <1>16 DEF Converged, UpdateAccepted
  <1>17. CASE ApplyUpdate
    BY <1>1, <1>17, TryType DEF ApplyUpdate, UpdateAccepted
  <1>18. CASE PostSolve
    BY <1>1, <1>18, TryType DEF PostSolve
  <1>19. CASE Return
    BY <1>1, <1>19 DEF Return
  <1>20. CASE UNCHANGED vars
    BY <1>1, <1>20 DEF vars
  <1> QED
    BY <1>2, <1>3, <1>4, <1>5, <1>6, <1>7, <1>8, <1>9, <1>10, <1>11,
       <1>12, <1>13, <1>14, <1>15, <1>16, <1>17, <1>18, <1>19, <1>20 DEF Next, Routine, Over

-----------------------------------------------------------------------------
(* How a call may end: each outcome of the convergence loop commits the     *)
(* rest of the call.  A retry leaves at least one more correction to do.    *)

OutcomeInv ==
    /\ lastConv = "warned" => ErrStat >= Warn /\ p.ModCoupling = TightAdaptive
    /\ lastConv = "fatal" => pc = "failed"
    /\ p.NumJ /= 0 =>
          /\ pc \in {"post", "while", "done"} /\ lastConv = "converged"
                => ConvError = "small"
          /\ pc = "post" => lastConv \in {"converged", "retry", "warned"}
          /\ pc = "post" /\ lastConv = "retry" => CorrIter < NumCorrections
          /\ pc = "while" /\ lastConv \in {"none", "retry"}
                => CorrIter <= NumCorrections
          /\ pc = "done" => lastConv \in {"converged", "warned"}

\* Every step keeps the record of how the convergence loop ended.
LEMMA OutcomeStep == TypeOK /\ RetryInv /\ OutcomeInv /\ [Next]_vars => OutcomeInv'
  <1> SUFFICES ASSUME TypeOK, RetryInv, OutcomeInv, [Next]_vars PROVE OutcomeInv'
    OBVIOUS
  <1> USE DEF TypeOK, RetryInv, OutcomeInv, InLoop, counters, jacobian
  <1>1. p.NumCrctn \in Nat
    BY SolverAssumption DEF ParamType
  <1>2. CASE BeginStep
    BY <1>1, <1>2 DEF BeginStep
  <1>3. CASE Predict
    BY <1>1, <1>3, TryType DEF Predict
  <1>4. CASE Option2
    BY <1>1, <1>4, TryType DEF Option2
  <1>5. CASE Option1
    BY <1>1, <1>5, TryType DEF Option1
  <1>6. CASE CalcOutputs
    BY <1>1, <1>6, TryType DEF CalcOutputs
  <1>7. CASE NothingToSolve
    BY <1>1, <1>7 DEF NothingToSolve
  <1>8. CASE IterationsLeft
    BY <1>1, <1>8 DEF IterationsLeft
  <1>9. CASE DivergedFatal
    BY <1>1, <1>9 DEF DivergedFatal, IterationLimit, TightAdaptive, Loose, TightFixed
  <1>10. CASE DivergedRetry
    BY <1>1, <1>10 DEF DivergedRetry, IterationLimit, MayRetry, RetryCorrections
  <1>11. CASE DivergedWarn
    BY <1>1, <1>11 DEF DivergedWarn, IterationLimit, MaxOf, Warn, ErrID
  <1>12. CASE FormRHS
    BY <1>1, <1>12, TryType DEF FormRHS
  <1>13. CASE KeepJacobian
    BY <1>1, <1>13 DEF KeepJacobian, JacobianDue
  <1>14. CASE BuildJacobianTC
    BY <1>1, <1>14, TryType DEF BuildJacobianTC
  <1>15. CASE SolveUpdate
    BY <1>1, <1>15, TryType DEF SolveUpdate
  <1>16. CASE Converged
    BY <1>1, <1>16 DEF Converged, UpdateAccepted
  <1>17. CASE ApplyUpdate
    BY <1>1, <1>17, TryType DEF ApplyUpdate, UpdateAccepted
  <1>18. CASE PostSolve
    BY <1>1, <1>18, TryType DEF PostSolve
  <1>19. CASE Return
    BY <1>1, <1>19 DEF Return
  <1>20. CASE UNCHANGED vars
    BY <1>1, <1>20 DEF vars
  <1> QED
    BY <1>2, <1>3, <1>4, <1>5, <1>6, <1>7, <1>8, <1>9, <1>10, <1>11,
       <1>12, <1>13, <1>14, <1>15, <1>16, <1>17, <1>18, <1>19, <1>20 DEF Next, Routine, Over

-----------------------------------------------------------------------------
(* With two iterations or more, the last iteration is reached only through  *)
(* an update that was not accepted.                                         *)

LargeInv ==
    p.MaxConvIter >= 2 =>
        /\ pc = "test" => ConvError /= "undefined"
        /\ pc \in {"calc", "check", "rhs", "jacobian", "solve"} /\ ConvIter >= 2
              => ConvError = "large"
        /\ lastConv = "fatal" => pc = "failed"
        /\ DivergenceIsReal

\* Every step keeps the record of the size of the last update.
LEMMA LargeStep == TypeOK /\ LargeInv /\ [Next]_vars => LargeInv'
  <1> SUFFICES ASSUME TypeOK, LargeInv, [Next]_vars PROVE LargeInv'
    OBVIOUS
  <1> USE DEF TypeOK, LargeInv, DivergenceIsReal, counters, jacobian
  <1>1. p.MaxConvIter \in Nat
    BY SolverAssumption DEF ParamType
  <1>2. CASE BeginStep
    BY <1>1, <1>2 DEF BeginStep
  <1>3. CASE Predict
    BY <1>1, <1>3, TryType DEF Predict
  <1>4. CASE Option2
    BY <1>1, <1>4, TryType DEF Option2
  <1>5. CASE Option1
    BY <1>1, <1>5, TryType DEF Option1
  <1>6. CASE CalcOutputs
    BY <1>1, <1>6, TryType DEF CalcOutputs
  <1>7. CASE NothingToSolve
    BY <1>1, <1>7 DEF NothingToSolve
  <1>8. CASE IterationsLeft
    BY <1>1, <1>8 DEF IterationsLeft
  <1>9. CASE DivergedFatal
    BY <1>1, <1>9 DEF DivergedFatal, IterationLimit
  <1>10. CASE DivergedRetry
    BY <1>1, <1>10 DEF DivergedRetry, IterationLimit, MayRetry, RetryCorrections
  <1>11. CASE DivergedWarn
    BY <1>1, <1>11 DEF DivergedWarn, IterationLimit
  <1>12. CASE FormRHS
    BY <1>1, <1>12, TryType DEF FormRHS
  <1>13. CASE KeepJacobian
    BY <1>1, <1>13 DEF KeepJacobian, JacobianDue
  <1>14. CASE BuildJacobianTC
    BY <1>1, <1>14, TryType DEF BuildJacobianTC
  <1>15. CASE SolveUpdate
    BY <1>1, <1>15, TryType DEF SolveUpdate, Try
  <1>16. CASE Converged
    BY <1>1, <1>16 DEF Converged, UpdateAccepted
  <1>17. CASE ApplyUpdate
    BY <1>1, <1>17, TryType DEF ApplyUpdate, UpdateAccepted
  <1>18. CASE PostSolve
    BY <1>1, <1>18, TryType DEF PostSolve
  <1>19. CASE Return
    BY <1>1, <1>19 DEF Return
  <1>20. CASE UNCHANGED vars
    BY <1>1, <1>20 DEF vars
  <1> QED
    BY <1>2, <1>3, <1>4, <1>5, <1>6, <1>7, <1>8, <1>9, <1>10, <1>11,
       <1>12, <1>13, <1>14, <1>15, <1>16, <1>17, <1>18, <1>19, <1>20 DEF Next, Routine, Over

-----------------------------------------------------------------------------
(* Each list updates a module's states at most once, and the lists overlap  *)
(* in such a way that each module is updated by exactly one of them.        *)

\* A module that the Newton solve owns is in the Option 2 list too, where its
\* states are not updated.
LEMMA OneUpdater ==
    ASSUME NEW q \in Params, NEW m \in iModOpt2(q) \cup Solver(q)
    PROVE  /\ m \in iModTC(q) => m \notin UpdatedByOption2(q) /\ m \notin UpdatedByOption1(q)
           /\ m \notin iModTC(q) => (m \in UpdatedByOption2(q) <=> m \notin UpdatedByOption1(q))
  <1>1. iModTC(q) \subseteq iModOpt2(q)
    BY DEF iModTC, iModOpt2
  <1> QED
    BY <1>1 DEF UpdatedByOption2, UpdatedByOption1, Solver

UpdateInv ==
    /\ pc = "opt2" => \A m \in p.mods : updates[m] = 0
    /\ pc = "opt1" =>
          \A m \in p.mods : updates[m] = IF m \in UpdatedByOption2(p) THEN 1 ELSE 0
    /\ pc \in {"calc", "check", "rhs", "jacobian", "solve", "test"} =>
          \A m \in p.mods : updates[m] =
              (IF m \in UpdatedByOption2(p) THEN 1 ELSE 0) +
              (IF m \in UpdatedByOption1(p) THEN 1 ELSE 0)

\* Every step keeps the count of the updates.
LEMMA UpdateStep == TypeOK /\ UpdateInv /\ [Next]_vars => UpdateInv'
  <1> SUFFICES ASSUME TypeOK, UpdateInv, [Next]_vars PROVE UpdateInv'
    OBVIOUS
  <1> USE DEF TypeOK, UpdateInv, counters, jacobian
  <1>1. /\ UpdatedByOption2(p) \subseteq iModOpt2(p)
        /\ UpdatedByOption1(p) \subseteq Solver(p)
    BY DEF UpdatedByOption2, UpdatedByOption1, Solver
  <1>2. CASE BeginStep
    BY <1>1, <1>2 DEF BeginStep
  <1>3. CASE Predict
    BY <1>1, <1>3, TryType DEF Predict, Done
  <1>4. CASE Option2
    BY <1>1, <1>4, TryType DEF Option2, Done
  <1>5. CASE Option1
    BY <1>1, <1>5, TryType DEF Option1, Done
  <1>6. CASE CalcOutputs
    BY <1>1, <1>6, TryType DEF CalcOutputs, Done
  <1>7. CASE NothingToSolve
    BY <1>1, <1>7 DEF NothingToSolve
  <1>8. CASE IterationsLeft
    BY <1>1, <1>8 DEF IterationsLeft
  <1>9. CASE DivergedFatal
    BY <1>1, <1>9 DEF DivergedFatal, IterationLimit
  <1>10. CASE DivergedRetry
    BY <1>1, <1>10 DEF DivergedRetry, IterationLimit
  <1>11. CASE DivergedWarn
    BY <1>1, <1>11 DEF DivergedWarn, IterationLimit
  <1>12. CASE FormRHS
    BY <1>1, <1>12, TryType DEF FormRHS
  <1>13. CASE KeepJacobian
    BY <1>1, <1>13 DEF KeepJacobian
  <1>14. CASE BuildJacobianTC
    BY <1>1, <1>14, TryType DEF BuildJacobianTC
  <1>15. CASE SolveUpdate
    BY <1>1, <1>15, TryType DEF SolveUpdate
  <1>16. CASE Converged
    BY <1>1, <1>16 DEF Converged, UpdateAccepted
  <1>17. CASE ApplyUpdate
    BY <1>1, <1>17, TryType DEF ApplyUpdate, UpdateAccepted, Done
  <1>18. CASE PostSolve
    BY <1>1, <1>18, TryType DEF PostSolve, Done
  <1>19. CASE Return
    BY <1>1, <1>19 DEF Return
  <1>20. CASE UNCHANGED vars
    BY <1>1, <1>20 DEF vars
  <1> QED
    BY <1>2, <1>3, <1>4, <1>5, <1>6, <1>7, <1>8, <1>9, <1>10, <1>11,
       <1>12, <1>13, <1>14, <1>15, <1>16, <1>17, <1>18, <1>19, <1>20 DEF Next, Routine, Over

-----------------------------------------------------------------------------
(* Outputs are computed after the last change of states and inputs, except  *)
(* for the inputs that are solved for at the end.                           *)

FreshInv ==
    /\ pc = "opt1" => iModOpt2(p) \subseteq fresh
    /\ pc = "calc" => iModOpt2(p) \ Solver(p) \subseteq fresh
    /\ pc \in {"check", "rhs", "jacobian", "solve", "test", "post"} =>
          iModOpt2(p) \cup Solver(p) \subseteq fresh
    /\ (pc = "while" /\ CorrIter > 0) \/ pc = "done" =>
          (iModOpt2(p) \cup Solver(p)) \ iModPost(p) \subseteq fresh

\* Every step keeps the outputs up to date.
LEMMA FreshStep == TypeOK /\ FreshInv /\ [Next]_vars => FreshInv'
  <1> SUFFICES ASSUME TypeOK, FreshInv, [Next]_vars PROVE FreshInv'
    OBVIOUS
  <1> USE DEF TypeOK, FreshInv, counters, jacobian
  <1>1. CorrIter \in Nat /\ NumCorrections \in Nat
    OBVIOUS
  <1>2. CASE BeginStep
    BY <1>1, <1>2 DEF BeginStep
  <1>3. CASE Predict
    BY <1>1, <1>3, TryType DEF Predict, Done
  <1>4. CASE Option2
    BY <1>1, <1>4, TryType DEF Option2, Done
  <1>5. CASE Option1
    BY <1>1, <1>5, TryType DEF Option1, Done
  <1>6. CASE CalcOutputs
    BY <1>1, <1>6, TryType DEF CalcOutputs, Done
  <1>7. CASE NothingToSolve
    BY <1>1, <1>7 DEF NothingToSolve
  <1>8. CASE IterationsLeft
    BY <1>1, <1>8 DEF IterationsLeft
  <1>9. CASE DivergedFatal
    BY <1>1, <1>9 DEF DivergedFatal, IterationLimit
  <1>10. CASE DivergedRetry
    BY <1>1, <1>10 DEF DivergedRetry, IterationLimit
  <1>11. CASE DivergedWarn
    BY <1>1, <1>11 DEF DivergedWarn, IterationLimit
  <1>12. CASE FormRHS
    BY <1>1, <1>12, TryType DEF FormRHS
  <1>13. CASE KeepJacobian
    BY <1>1, <1>13 DEF KeepJacobian
  <1>14. CASE BuildJacobianTC
    BY <1>1, <1>14, TryType DEF BuildJacobianTC
  <1>15. CASE SolveUpdate
    BY <1>1, <1>15, TryType DEF SolveUpdate
  <1>16. CASE Converged
    BY <1>1, <1>16 DEF Converged, UpdateAccepted
  <1>17. CASE ApplyUpdate
    BY <1>1, <1>17, TryType DEF ApplyUpdate, UpdateAccepted, Done
  <1>18. CASE PostSolve
    BY <1>1, <1>18, TryType DEF PostSolve, Done
  <1>19. CASE Return
    BY <1>1, <1>19 DEF Return
  <1>20. CASE UNCHANGED vars
    BY <1>1, <1>20 DEF vars
  <1> QED
    BY <1>2, <1>3, <1>4, <1>5, <1>6, <1>7, <1>8, <1>9, <1>10, <1>11,
       <1>12, <1>13, <1>14, <1>15, <1>16, <1>17, <1>18, <1>19, <1>20 DEF Next, Routine, Over

-----------------------------------------------------------------------------
(* The theorems.                                                            *)

\* The correction loop of a call is entered at most NumCrctn + MaxConvUJac + 1
\* times, with at most MaxConvIter + 1 convergence iterations each time,
\* whatever converges and whatever fails.
THEOREM CorrectionLoopBounded == Spec => []CorrectionsBounded
  <1>1. Init => RetryInv /\ IterInv
    <2> SUFFICES ASSUME Init PROVE RetryInv /\ IterInv
      OBVIOUS
    <2>1. p \in Params /\ p.NumCrctn \in Nat /\ p.MaxConvIter \in Nat
      BY SolverAssumption DEF Init, ParamType
    <2>2. Most(p, 0) = 0
      BY <2>1, MostGrows
    <2> QED
      BY <2>1, <2>2 DEF Init, RetryInv, IterInv, MaxConvUJac, InLoop
  <1>2. TypeOK /\ RetryInv /\ IterInv => CorrectionsBounded
    <2> SUFFICES ASSUME TypeOK, RetryInv, IterInv PROVE CorrectionsBounded
      OBVIOUS
    <2>1. Most(p, CorrIter + 1) = Most(p, CorrIter) + p.MaxConvIter + 1
      BY MostGrows DEF TypeOK
    <2>2. TotalIter <= Most(p, CorrIter + 1)
      BY <2>1 DEF IterInv
    <2> QED
      BY <2>2, SolverAssumption
         DEF RetryInv, TypeOK, ParamType, MaxConvUJac, CorrectionsBounded, Most
  <1> QED
    BY <1>1, <1>2, TypeInit, TypeStep, RetryStep, IterStep, PTL DEF Spec

\* No Newton update is computed with a Jacobian older than DT_UJac allows,
\* or with the one that just failed, whatever the caller repeats or undoes.
THEOREM JacobianIsFresh == Spec => []JacobianFresh
  <1>1. Init => JacInv
    BY DEF Init, JacInv
  <1>2. TypeOK /\ JacInv => JacobianFresh
    BY IntervalsAreIntegers DEF JacInv, JacobianFresh, TypeOK
  <1> QED
    BY <1>1, <1>2, TypeInit, TypeStep, JacStep, PTL DEF Spec

\* A call that returns normally has converged or has warned.
THEOREM DivergenceNotSilent == Spec => []NoSilentDivergence
  <1>1. Init => RetryInv /\ OutcomeInv
    BY SolverAssumption DEF Init, RetryInv, OutcomeInv, ParamType, MaxConvUJac, InLoop
  <1>2. OutcomeInv => NoSilentDivergence
    BY DEF OutcomeInv, NoSilentDivergence
  <1> QED
    BY <1>1, <1>2, TypeInit, TypeStep, RetryStep, OutcomeStep, PTL DEF Spec

\* A convergence failure is only declared on an update that was too large,
\* provided MaxConvIter allows a second iteration.
THEOREM DivergenceReal == Spec => []DivergenceIsReal
  <1>1. Init => LargeInv
    BY DEF Init, LargeInv, DivergenceIsReal
  <1>2. LargeInv => DivergenceIsReal
    BY DEF LargeInv, DivergenceIsReal
  <1> QED
    BY <1>1, <1>2, TypeInit, TypeStep, LargeStep, PTL DEF Spec

\* In a correction iteration, the states of each module are advanced once, by
\* the Option 2 loop, by the Option 1 loop or by the Newton solve.
THEOREM StatesUpdatedOnce == Spec => []UpdatedOnce
  <1>1. Init => UpdateInv
    BY DEF Init, UpdateInv
  <1>2. TypeOK /\ UpdateInv => UpdatedOnce
    <2> SUFFICES ASSUME TypeOK, UpdateInv, pc = "calc",
                        NEW m \in iModOpt2(p) \cup Solver(p)
                 PROVE  updates[m] = IF m \in iModTC(p) THEN 0 ELSE 1
      BY DEF UpdatedOnce
    <2>1. p \in Params /\ m \in p.mods
      BY ListsOfModules DEF TypeOK
    <2> QED
      BY <2>1, OneUpdater DEF UpdateInv
  <1> QED
    BY <1>1, <1>2, TypeInit, TypeStep, UpdateStep, PTL DEF Spec

\* A call that returns normally leaves outputs that belong to the states and
\* inputs it leaves, except for ServoDyn and ExternalInflow.
THEOREM OutputsAreFresh == Spec => []OutputsMatchInputs
  <1>1. Init => FreshInv
    BY DEF Init, FreshInv
  <1>2. FreshInv => OutputsMatchInputs
    BY DEF FreshInv, OutputsMatchInputs
  <1> QED
    BY <1>1, <1>2, TypeInit, TypeStep, FreshStep, PTL DEF Spec

\* Whoever is warned that a step did not converge knows that the Jacobian was
\* rebuilt in it, at least once for each retry the adaptive method allows.
THEOREM WarningIsLastResort == Spec => []WarnedAfterRebuilds
  <1>1. Init => JacInv /\ WarnInv
    BY DEF Init, JacInv, WarnInv, AwaitsRebuild
  <1>2. TypeOK /\ WarnInv => WarnedAfterRebuilds
    BY SolverAssumption DEF TypeOK, WarnInv, WarnedAfterRebuilds, MaxConvUJac, ParamType
  <1> QED
    BY <1>1, <1>2, TypeInit, TypeStep, JacStep, WarnStep, PTL DEF Spec

=============================================================================
