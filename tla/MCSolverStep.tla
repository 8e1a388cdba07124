---------------------------- MODULE MCSolverStep ----------------------------
(* Small parameter sets for TLC: every coupling method and abort level, the *)
(* limits 0, 1 and 2 on corrections and iterations, intervals between       *)
(* Jacobians that are shorter and longer than the time step, and turbines   *)
(* that put a module into several lists.                                    *)
EXTENDS SolverStep

Land     == {"ED", "BD", "SrvD", "AD"}
Floating == {"ED", "HD", "MAP"}
Simple   == {"SED", "SrvD", "ADsk", "IfW"}

Parameters(mods, srvd, mhk, couplings, crctns, iters, dtu, numj, aborts) ==
    [mods : mods, ModCoupling : couplings, SrvDOpt1 : srvd, MHK : mhk,
     NumCrctn : crctns, MaxConvIter : iters, DT : {2}, DT_UJac : dtu,
     NumJ : numj, AbortErrLev : aborts]

\* The two loops: all methods, limits of 0, 1, 2 iterations.
ControlParams ==
    Parameters({Floating}, {FALSE}, {FALSE}, {Loose, TightFixed, TightAdaptive},
               {0, 1, 2}, {0, 1, 2}, {0, 4}, {0, 1}, {Warn, Fatal})

\* Age of the Jacobian: intervals of 0, 1/2, 1, 3/2 and 5/2 time steps.
JacobianParams ==
    Parameters({Floating}, {FALSE}, {FALSE}, {TightFixed, TightAdaptive},
               {0, 1}, {2, 3}, {0, 1, 2, 3, 5}, {1}, {Severe})

\* Lists of modules: every way a module can be in several of them.
ListParams ==
    Parameters({Land, Floating, Simple},
               BOOLEAN, BOOLEAN, {Loose, TightAdaptive}, {0, 1}, {2}, {2}, {1}, {Fatal})

SafetyParams == ControlParams \cup JacobianParams \cup ListParams

OneIteration == {q \in ControlParams : q.MaxConvIter = 1 /\ q.ModCoupling = TightFixed}

SomeErrors == {None, Warn, Fatal}
FatalOnly  == {None, Fatal}
NoErrors   == {None}
=============================================================================
