-------------------------- MODULE MCRegressionCase --------------------------
(***************************************************************************)
(* Instances of RegressionCase: every script alone, and pairs side by      *)
(* side, in a tree that CMake has configured (reg_tests/CMakeLists.txt).   *)
(***************************************************************************)
EXTENDS RegressionCase

CONSTANTS t1, t2

MCTests == {t1, t2}
Pair(a, b) == [t \in MCTests |-> IF t = t1 THEN a ELSE b]

\* Each script by itself; pairs that share nothing or only what is configured; and
\* pairs that contest a directory: of turbine data that the configure step leaves
\* out, or one that they merge into.
Alone == {Pair(s, <<>>) : s \in Scripts}
Quiet ==
  {Pair(OpenfastScript(TRUE), AeroAcousticScript), Pair(HydrodynScript, SubdynScript),
   Pair(AerodynScript(TRUE), AerodynScript(FALSE)), Pair(HydrodynScript, SeaStatePyScript),
   Pair(UnsteadyAeroScript, SimpleElastodynScript)}
Contesting ==
  {Pair(OpenfastScript(FALSE), OpenfastScript(FALSE)),
   Pair(OpenfastLinearScript, OpenfastLinearScript), Pair(OpenfastLinearScript, HydrodynScript),
   Pair(FASTFarmScript, FASTFarmScript),
   Pair(OpenfastCppScript(FALSE), OpenfastCppScript(FALSE)), Pair(PythonScript, PythonScript)}
Suite == Alone \cup Quiet \cup Contesting

\* Two cases of the glue code, one of which may be linearised.
WithLinear == {Pair(OpenfastScript(FALSE), s) : s \in {OpenfastScript(FALSE), OpenfastLinearScript}}

\* A test by itself is run again in what its first attempt has left, and so are those of
\* one pair; in the other pairs a second attempt finds what the second test does.
Again == Alone \cup {Pair(AerodynScript(TRUE), AerodynScript(FALSE))}
MCMaxAttempts == [p \in Programs |-> IF p \in Again THEN 2 ELSE 1]

MCTestDir == [t \in MCTests |-> <<"case", t>>]

MCConfigured ==
  {<<"aerodyn", "BAR_Baseline">>}
  \cup {<<"openfast", d>> : d \in {"5MW_Baseline", "AOC", "AWT27", "SWRT", "UAE_VI", "WP_Baseline"}}
  \cup {<<"python", "5MW_Baseline">>}
  \cup {<<"fast-farm", d>> : d \in {"5MW_Baseline", "WAT_MannBoxDB"}}

\* Success, an error the program reports, and an abort by a signal.
Codes == {0, 1, -6}

\* The theorems about RegressionCase apply to these instances: what the test
\* suite and the configured tree have to provide.
ASSUME TestSuiteAssumption ==
  /\ OwnDirectories(Suite)
  /\ CodesReported(Codes)
=============================================================================
