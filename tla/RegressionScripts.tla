-------------------------- MODULE RegressionScripts --------------------------
(***************************************************************************)
(* The regression scripts of reg_tests, one per kind of test, as programs  *)
(* of the instructions that RegressionCase executes: what a script copies  *)
(* into the build tree and how, what it does with the baseline results of  *)
(* its case, how it treats the return code of the program under test and   *)
(* which output it compares.  Building paths, reading arguments, printing  *)
(* and plotting are left out.                                              *)
(***************************************************************************)
EXTENDS Integers, Sequences

\* The order of the checks that every script makes before anything else.
Validate == [op |-> "validate"]

\* Copy a directory of shared data into the build tree unless it is there.
CopyIfAbsent(d) == [op |-> "copy", dir |-> d, merge |-> FALSE]

\* The same, but a directory that is there gets every plain file of the source
\* again, and the sub-directories it lacks.
CopyOrMerge(d) == [op |-> "copy", dir |-> d, merge |-> TRUE]

CopyEach(glue, names) ==
  [i \in 1..Len(names) |-> CopyIfAbsent(<<glue, names[i]>>)]

\* Copy the files of the case unless its directory is there.  The baseline of
\* the compared output is "left out", "renamed", or "kept" under the name the
\* program will write.
CaseFiles(baseline) == [op |-> "case", baseline |-> baseline]

DeleteOutputs == [op |-> "delete"]

\* Execute the program; an error ends the script with ten times the return code.
Execute == [op |-> "run", scale |-> 10]
\* The same, but any error ends the script with status 1.
ExecuteOrFail == [op |-> "run", scale |-> 0]
\* A second execution from what the first one wrote: not guarded by noExec.
ExecuteRestart == [op |-> "restart", scale |-> 10]
\* Execute once per driver file found, noting errors and going on.
ExecuteEach == [op |-> "each", scale |-> 0]
\* Run the library inside the process of the script: an error is an exception.
CallLibrary == [op |-> "library", scale |-> 0]

Compare == [op |-> "compare"]

-----------------------------------------------------------------------------

\* The glue codes.
OpenfastScript(restart) ==
  <<Validate>>
  \o CopyEach("openfast", <<"5MW_Baseline", "AOC", "AWT27", "_DummyTurbineData",
                            "SWRT", "UAE_VI", "WP_Baseline">>)
  \o <<CaseFiles("renamed"), Execute>>
  \o (IF restart THEN <<ExecuteRestart>> ELSE <<>>)
  \o <<Compare>>

OpenfastLinearScript ==
  <<Validate>>
  \o CopyEach("openfast", <<"Ideal_Beam", "WP_Baseline", "Damped_Beam">>)
  \o <<CopyOrMerge(<<"openfast", "5MW_Baseline">>), CaseFiles("renamed"), Execute, Compare>>

AeroAcousticScript == <<Validate, CaseFiles("renamed"), Execute, Compare>>

FASTFarmScript ==
  <<Validate, CopyOrMerge(<<"fast-farm", "5MW_Baseline">>),
    CopyIfAbsent(<<"fast-farm", "WAT_MannBoxDB">>),
    CaseFiles("renamed"), Execute, Compare>>

OpenfastCppScript(restart) ==
  <<Validate, CopyOrMerge(<<"openfast-cpp", "5MW_Baseline">>), CaseFiles("renamed"), Execute>>
  \o (IF restart THEN <<ExecuteRestart>> ELSE <<>>)
  \o <<Compare>>

PythonScript ==
  <<Validate>>
  \o CopyEach("python", <<"AOC", "AWT27", "SWRT", "UAE_VI", "WP_Baseline">>)
  \o <<CopyOrMerge(<<"python", "5MW_Baseline">>), CaseFiles("left out"), CallLibrary, Compare>>

\* The wave tank reads the directory of a case of the OpenFAST glue code.
WavetankPyScript ==
  <<Validate, CaseFiles("left out"),
    CopyIfAbsent(<<"openfast", "MHK_RM1_Floating_Tank-scaled">>), Execute, Compare>>

-----------------------------------------------------------------------------

\* The drivers of single modules.

\* "ad_driver.outb" is renamed; the outputs of a second turbine or of a fourth
\* load case, which are compared when they exist, are not.
AerodynScript(several) ==
  <<Validate, CopyIfAbsent(<<"aerodyn", "BAR_Baseline">>),
    CaseFiles(IF several THEN "kept" ELSE "renamed"), Execute, Compare>>

AerodynPyScript == <<Validate, CaseFiles("renamed"), Execute, Compare>>

\* "adsk_driver.outb" is renamed, "adsk_driver.out" is compared.
AerodiskScript == <<Validate, CaseFiles("kept"), Execute, Compare>>

\* "sed_driver.outb" is renamed, "sed_driver.out" is compared.
SimpleElastodynScript == <<Validate, CaseFiles("kept"), ExecuteOrFail, Compare>>

BeamdynScript == <<Validate, CaseFiles("left out"), Execute, Compare>>

\* The wave data come after the files of the case, from another glue code's tree.
HydrodynScript ==
  <<Validate, CaseFiles("left out"),
    CopyIfAbsent(<<"openfast", "5MW_Baseline">>), Execute, Compare>>

HydrodynPyScript == <<Validate, CaseFiles("kept"), Execute, Compare>>

InflowwindScript == <<Validate, CaseFiles("left out"), Execute, Compare>>

InflowwindPyScript == <<Validate, CaseFiles("left out"), Execute, Compare>>

MoordynScript == <<Validate, CaseFiles("left out"), Execute, Compare>>

MoordynPyScript == <<Validate, CaseFiles("renamed"), Execute, Compare>>

SeaStateScript == <<Validate, CaseFiles("renamed"), Execute, Compare>>

\* "*dat" copies the baseline of "Points.Results.dat" as well.
SeaStatePyScript == <<Validate, CaseFiles("kept"), Execute, Compare>>

SubdynScript == <<Validate, CaseFiles("renamed"), DeleteOutputs, Execute, Compare>>

UnsteadyAeroScript == <<Validate, CaseFiles("renamed"), ExecuteEach, Compare>>

Scripts ==
  {OpenfastScript(r) : r \in BOOLEAN} \cup {OpenfastCppScript(r) : r \in BOOLEAN}
  \cup {AerodynScript(s) : s \in BOOLEAN}
  \cup {OpenfastLinearScript, AeroAcousticScript, FASTFarmScript, PythonScript,
        WavetankPyScript, AerodynPyScript, AerodiskScript, SimpleElastodynScript,
        BeamdynScript, HydrodynScript, HydrodynPyScript, InflowwindScript,
        InflowwindPyScript, MoordynScript, MoordynPyScript, SeaStateScript,
        SeaStatePyScript, SubdynScript, UnsteadyAeroScript}

-----------------------------------------------------------------------------

(***************************************************************************)
(* Return codes: sys.exit keeps eight bits of ten times the return code of *)
(* the program under test, or the script exits with status 1.              *)
(***************************************************************************)
ExitStatus_scaledAlways(scale, rc) == (scale * rc) % 256
ExitStatus_unbounded(scale, rc) == IF scale = 0 THEN 1 ELSE scale * rc
ExitStatus(scale, rc) == IF scale = 0 THEN 1 ELSE (scale * rc) % 256
=============================================================================
