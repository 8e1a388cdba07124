------------------------ MODULE RegressionCase_proofs ------------------------
(***************************************************************************)
(* The tests of RegressionCase, for every set of tests, every assignment   *)
(* of scripts to them, every return code of the programs and any number of *)
(* attempts and timeouts: the values of the variables, that a failure is   *)
(* reported, and that a test which passes has compared what it wrote.      *)
(***************************************************************************)
EXTENDS RegressionCase, SequenceTheorems, TLAPS

\* The directories of turbine data that the scripts name.
DataDirs ==
  {"openfast", "openfast-cpp", "fast-farm", "python", "aerodyn"}
  \X {"5MW_Baseline", "AOC", "AWT27", "_DummyTurbineData", "SWRT", "UAE_VI", "WP_Baseline",
      "Ideal_Beam", "Damped_Beam", "WAT_MannBoxDB", "BAR_Baseline", "MHK_RM1_Floating_Tank-scaled"}
\* What becomes of the baseline when the files of a case are copied.
Baselines == {"renamed", "kept", "left out"}

\* The instructions before anything is executed.
Preparing == {"validate", "copy", "case", "delete"}
\* All instructions of the scripts.
Instruction ==
  [op : {"validate", "delete", "compare"}]
  \cup [op : {"copy"}, dir : DataDirs, merge : BOOLEAN]
  \cup [op : {"case"}, baseline : Baselines]
  \cup [op : Executions, scale : {0, 10}]

\* A piece of a script that only prepares, and deletes nothing.
Prepares(s) ==
  s \in Seq(Instruction) /\ \A i \in 1..Len(s) : s[i].op \in Preparing \ {"delete"}

\* e is the place of the first execution; outputs are deleted just before it, or not
\* at all.
Shape(s, e) ==
  /\ s \in Seq(Instruction)
  /\ e \in 2..(Len(s) - 1)
  /\ \A i \in 1..(e - 2) : s[i].op # "delete"
  /\ \A i \in 1..Len(s) : IF i < e THEN s[i].op \in Preparing
                          ELSE IF i < Len(s) THEN s[i].op \in Executions
                          ELSE s[i].op = "compare"
  /\ \E i \in 1..(e - 1) : s[i].op = "case"
\* Preparation, with a copy of the case; then executions; then one comparison.
WellFormed(s) == \E e \in Nat : Shape(s, e)

\* What the instructions of RegressionScripts are.
LEMMA Instructions ==
  /\ Validate \in Instruction /\ Validate.op = "validate"
  /\ DeleteOutputs \in Instruction /\ DeleteOutputs.op = "delete"
  /\ Compare \in Instruction /\ Compare.op = "compare"
  /\ \A b \in Baselines : CaseFiles(b) \in Instruction /\ CaseFiles(b).op = "case"
  /\ \A d \in DataDirs : /\ CopyIfAbsent(d) \in Instruction /\ CopyIfAbsent(d).op = "copy"
                            /\ CopyOrMerge(d) \in Instruction /\ CopyOrMerge(d).op = "copy"
  /\ \A x \in {Execute, ExecuteOrFail, ExecuteRestart, ExecuteEach, CallLibrary} :
       x \in Instruction /\ x.op \in Executions
BY DEF Instruction, Validate, DeleteOutputs, Compare, CaseFiles, CopyIfAbsent, CopyOrMerge,
  Execute, ExecuteOrFail, ExecuteRestart, ExecuteEach, CallLibrary, Executions

\* Two pieces that prepare, one after the other.
LEMMA PreparesConcat ==
  ASSUME NEW a, NEW b, Prepares(a), Prepares(b)
  PROVE  Prepares(a \o b)
<1>1. /\ a \o b \in Seq(Instruction) /\ Len(a \o b) = Len(a) + Len(b)
      /\ \A i \in 1..(Len(a) + Len(b)) : (a \o b)[i] = IF i <= Len(a) THEN a[i] ELSE b[i - Len(a)]
  BY ConcatProperties DEF Prepares
<1>2. Len(a) \in Nat /\ Len(b) \in Nat
  BY LenProperties DEF Prepares
<1>. QED BY <1>1, <1>2 DEF Prepares

\* A well-formed script stays well formed behind a piece that prepares.
LEMMA PrepareThen ==
  ASSUME NEW a, NEW b, Prepares(a), WellFormed(b)
  PROVE  WellFormed(a \o b)
<1>. SUFFICES ASSUME NEW s, s = a \o b PROVE WellFormed(s)
  OBVIOUS
<1>1. /\ s \in Seq(Instruction) /\ Len(s) = Len(a) + Len(b)
      /\ \A i \in 1..(Len(a) + Len(b)) : s[i] = IF i <= Len(a) THEN a[i] ELSE b[i - Len(a)]
  BY ConcatProperties DEF Prepares, WellFormed, Shape
<1>2. Len(a) \in Nat /\ Len(b) \in Nat
  BY LenProperties DEF Prepares, WellFormed, Shape
<1>3. PICK e \in Nat : Shape(b, e)
  BY DEF WellFormed
<1>4. PICK c \in 1..(e - 1) : b[c].op = "case"
  BY <1>3 DEF Shape
<1>5. s[Len(a) + c].op = "case" /\ Len(a) + c \in 1..(Len(a) + e - 1)
  BY <1>1, <1>2, <1>3, <1>4 DEF Shape
<1>6. ASSUME NEW i \in 1..Len(s)
      PROVE  IF i < Len(a) + e THEN s[i].op \in Preparing
             ELSE IF i < Len(s) THEN s[i].op \in Executions
             ELSE s[i].op = "compare"
  <2>1. CASE i <= Len(a)
    <3>1. s[i] = a[i] /\ i \in 1..Len(a) /\ i < Len(a) + e
      BY <1>1, <1>2, <1>3, <2>1 DEF Shape
    <3>. QED BY <3>1 DEF Prepares
  <2>2. CASE i > Len(a)
    <3>0. i - Len(a) \in 1..Len(b)
      BY <1>1, <1>2, <2>2
    <3>1. PICK j \in 1..Len(b) : j = i - Len(a)
      BY <3>0
    <3>2. s[i] = b[j]
      BY <1>1, <1>2, <2>2, <3>1
    <3>3. (i < Len(a) + e <=> j < e) /\ (i < Len(s) <=> j < Len(b))
      BY <1>1, <1>2, <1>3, <3>1 DEF Shape
    <3>. QED BY <1>3, <3>1, <3>2, <3>3 DEF Shape
  <2>. QED BY <1>1, <1>2, <2>1, <2>2
<1>10. ASSUME NEW i \in 1..(Len(a) + e - 2) PROVE s[i].op # "delete"
  <2>1. CASE i <= Len(a)
    <3>1. s[i] = a[i] /\ i \in 1..Len(a)
      BY <1>1, <1>2, <1>3, <2>1 DEF Shape
    <3>. QED BY <3>1 DEF Prepares
  <2>2. CASE i > Len(a)
    <3>1. i \in 1..(Len(a) + Len(b)) /\ ~(i <= Len(a)) /\ i - Len(a) \in 1..(e - 2)
      BY <1>1, <1>2, <1>3, <2>2 DEF Shape
    <3>2. PICK j \in 1..(e - 2) : j = i - Len(a)
      BY <3>1
    <3>3. s[i] = b[j]
      BY <1>1, <3>1, <3>2
    <3>4. b[j].op # "delete"
      BY <1>3, <3>2 DEF Shape
    <3>. QED BY <3>3, <3>4
  <2>3. i <= Len(a) \/ i > Len(a)
    BY <1>2
  <2>. QED BY <2>1, <2>2, <2>3, Zenon
<1>7. Len(a) + e \in 2..(Len(s) - 1)
  BY <1>1, <1>2, <1>3 DEF Shape
<1>8. PICK k \in Nat : k = Len(a) + e
  BY <1>2, <1>3
<1>9. Shape(s, k)
  <2>1. \A i \in 1..Len(s) : IF i < k THEN s[i].op \in Preparing
                             ELSE IF i < Len(s) THEN s[i].op \in Executions
                             ELSE s[i].op = "compare"
    BY <1>6, <1>8
  <2>2. k \in 2..(Len(s) - 1)
    BY <1>7, <1>8
  <2>3. \E i \in 1..(k - 1) : s[i].op = "case"
    <3>1. Len(a) + c \in 1..(k - 1)
      BY <1>5, <1>8
    <3>. QED BY <1>5, <3>1
  <2>4. ASSUME NEW i \in 1..(k - 2) PROVE s[i].op # "delete"
    <3>1. i \in 1..(Len(a) + e - 2)
      BY <1>2, <1>8
    <3>. QED BY <1>10, <3>1
  <2>. QED BY <1>1, <2>1, <2>2, <2>3, <2>4, Zenon DEF Shape
<1>. QED BY <1>9 DEF WellFormed

\* Copying a list of directories is preparation.
LEMMA EachPrepares ==
  ASSUME NEW glue, NEW names, Len(names) \in Nat,
         \A i \in 1..Len(names) : <<glue, names[i]>> \in DataDirs
  PROVE  Prepares(CopyEach(glue, names))
<1>1. \A i \in 1..Len(names) : CopyEach(glue, names)[i] \in Instruction
                               /\ CopyEach(glue, names)[i].op \in Preparing \ {"delete"}
  BY Instructions DEF CopyEach, Preparing
<1>2. CopyEach(glue, names) \in Seq(Instruction) /\ Len(CopyEach(glue, names)) = Len(names)
  BY <1>1 DEF CopyEach
<1>. QED BY <1>1, <1>2 DEF Prepares

\* What is left of a script without its last instruction.
Begun(s) ==
  /\ s \in Seq(Instruction)
  /\ \E e \in 2..Len(s) :
       /\ \A i \in 1..Len(s) : s[i].op \in (IF i < e THEN Preparing \ {"delete"} ELSE Executions)
       /\ \E i \in 1..(e - 1) : s[i].op = "case"

\* The same for a script whose comparison is still missing.
LEMMA PrepareBegun ==
  ASSUME NEW a, NEW b, Prepares(a), Begun(b)
  PROVE  Begun(a \o b)
<1>1. /\ a \o b \in Seq(Instruction) /\ Len(a \o b) = Len(a) + Len(b)
      /\ \A i \in 1..(Len(a) + Len(b)) : (a \o b)[i] = IF i <= Len(a) THEN a[i] ELSE b[i - Len(a)]
  BY ConcatProperties DEF Prepares, Begun
<1>2. Len(a) \in Nat /\ Len(b) \in Nat
  BY LenProperties DEF Prepares, Begun
<1>3. PICK e \in 2..Len(b) :
        /\ \A i \in 1..Len(b) : b[i].op \in (IF i < e THEN Preparing \ {"delete"} ELSE Executions)
        /\ \E i \in 1..(e - 1) : b[i].op = "case"
  BY DEF Begun
<1>4. PICK c \in 1..(e - 1) : b[c].op = "case"
  BY <1>3
<1>5. (a \o b)[Len(a) + c].op = "case" /\ Len(a) + c \in 1..(Len(a) + e - 1)
  BY <1>1, <1>2, <1>4
<1>6. \A i \in 1..Len(a \o b) :
         (a \o b)[i].op \in (IF i < Len(a) + e THEN Preparing \ {"delete"} ELSE Executions)
  <2>. SUFFICES ASSUME NEW i \in 1..Len(a \o b)
                PROVE  (a \o b)[i].op \in (IF i < Len(a) + e THEN Preparing \ {"delete"} ELSE Executions)
    OBVIOUS
  <2>1. CASE i <= Len(a)
    <3>1. (a \o b)[i] = a[i] /\ i \in 1..Len(a) /\ i < Len(a) + e
      BY <1>1, <1>2, <2>1
    <3>. QED BY <3>1 DEF Prepares
  <2>2. CASE i > Len(a)
    <3>1. (a \o b)[i] = b[i - Len(a)] /\ i - Len(a) \in 1..Len(b)
          /\ (i < Len(a) + e <=> i - Len(a) < e)
      BY <1>1, <1>2, <2>2
    <3>. QED BY <1>3, <3>1
  <2>. QED BY <1>1, <1>2, <2>1, <2>2
<1>7. PICK k \in 2..Len(a \o b) : k = Len(a) + e
  BY <1>1, <1>2
<1>8. /\ \A i \in 1..Len(a \o b) : (a \o b)[i].op \in (IF i < k THEN Preparing \ {"delete"} ELSE Executions)
      /\ \E i \in 1..(k - 1) : (a \o b)[i].op = "case"
  <2>1. \A i \in 1..Len(a \o b) : (a \o b)[i].op \in (IF i < k THEN Preparing \ {"delete"} ELSE Executions)
    BY <1>6, <1>7, Zenon
  <2>2. Len(a) + c \in 1..(k - 1)
    BY <1>5, <1>7
  <2>. QED BY <1>5, <2>1, <2>2
<1>. QED BY <1>1, <1>8 DEF Begun

\* Restarting from the checkpoint is one more execution.
LEMMA BegunRestart ==
  ASSUME NEW s, Begun(s), NEW r \in BOOLEAN
  PROVE  Begun(s \o (IF r THEN <<ExecuteRestart>> ELSE <<>>))
<1>1. CASE ~r
  BY <1>1, ConcatEmptySeq DEF Begun
<1>2. CASE r
  <2>1. <<ExecuteRestart>> \in Seq(Instruction) /\ ExecuteRestart.op \in Executions
    BY Instructions
  <2>2. /\ s \o <<ExecuteRestart>> \in Seq(Instruction) /\ Len(s \o <<ExecuteRestart>>) = Len(s) + 1
        /\ \A i \in 1..(Len(s) + 1) :
             (s \o <<ExecuteRestart>>)[i] = IF i <= Len(s) THEN s[i] ELSE <<ExecuteRestart>>[i - Len(s)]
    BY <2>1, ConcatProperties DEF Begun
  <2>3. Len(s) \in Nat
    BY LenProperties DEF Begun
  <2>4. (s \o <<ExecuteRestart>>)[Len(s) + 1] = ExecuteRestart
    BY <2>2, <2>3
  <2>. QED BY <1>2, <2>1, <2>2, <2>3, <2>4 DEF Begun
<1>. QED BY <1>1, <1>2

\* The comparison completes a script.
LEMMA BegunCompare ==
  ASSUME NEW s, Begun(s)
  PROVE  WellFormed(s \o <<Compare>>)
<1>1. <<Compare>> \in Seq(Instruction) /\ Compare.op = "compare"
  BY Instructions
<1>2. /\ s \o <<Compare>> \in Seq(Instruction) /\ Len(s \o <<Compare>>) = Len(s) + 1
      /\ \A i \in 1..(Len(s) + 1) :
           (s \o <<Compare>>)[i] = IF i <= Len(s) THEN s[i] ELSE <<Compare>>[i - Len(s)]
  BY <1>1, ConcatProperties DEF Begun
<1>3. Len(s) \in Nat
  BY LenProperties DEF Begun
<1>4. (s \o <<Compare>>)[Len(s) + 1] = Compare
  BY <1>2, <1>3
<1>5. PICK e \in 2..Len(s) :
        /\ \A i \in 1..Len(s) : s[i].op \in (IF i < e THEN Preparing \ {"delete"} ELSE Executions)
        /\ \E i \in 1..(e - 1) : s[i].op = "case"
  BY DEF Begun
<1>6. Shape(s \o <<Compare>>, e)
  BY <1>1, <1>2, <1>3, <1>4, <1>5 DEF Shape
<1>. QED BY <1>6 DEF WellFormed

\* The shortest scripts, and how the others end.
LEMMA ShortScripts ==
  ASSUME NEW b \in Baselines,
         NEW x \in {Execute, ExecuteOrFail, ExecuteEach, CallLibrary}
  PROVE  /\ Begun(<<CaseFiles(b), x>>)
         /\ Prepares(<<Validate>>)
         /\ WellFormed(<<Validate, CaseFiles(b), x, Compare>>)
         /\ WellFormed(<<Validate, CaseFiles(b), DeleteOutputs, x, Compare>>)
         /\ \A d \in DataDirs : 
              /\ Begun(<<Validate, CopyOrMerge(d), CaseFiles(b), x>>)
              /\ WellFormed(<<CopyOrMerge(d), CaseFiles(b), x, Compare>>)
              /\ WellFormed(<<Validate, CopyIfAbsent(d), CaseFiles(b), x, Compare>>)
              /\ WellFormed(<<Validate, CaseFiles(b), CopyIfAbsent(d), x, Compare>>)
              /\ \A f \in DataDirs : 
                   WellFormed(<<Validate, CopyOrMerge(d), CopyIfAbsent(f), CaseFiles(b), x, Compare>>)
<1> USE Instructions DEF Preparing
<1>1. Begun(<<CaseFiles(b), x>>) 
  BY DEF Begun
<1>2. Prepares(<<Validate>>)
  BY DEF Prepares
<1>3. Shape(<<Validate, CaseFiles(b), x, Compare>>, 3)
  BY DEF Shape
<1>4. Shape(<<Validate, CaseFiles(b), DeleteOutputs, x, Compare>>, 4)
  BY DEF Shape
<1>5. ASSUME NEW d \in DataDirs
      PROVE  /\ Begun(<<Validate, CopyOrMerge(d), CaseFiles(b), x>>)
             /\ Shape(<<CopyOrMerge(d), CaseFiles(b), x, Compare>>, 3)
             /\ Shape(<<Validate, CopyIfAbsent(d), CaseFiles(b), x, Compare>>, 4)
             /\ Shape(<<Validate, CaseFiles(b), CopyIfAbsent(d), x, Compare>>, 4)
  BY DEF Shape, Begun
<1>6. ASSUME NEW d \in DataDirs, NEW f \in DataDirs
      PROVE  Shape(<<Validate, CopyOrMerge(d), CopyIfAbsent(f), CaseFiles(b), x, Compare>>, 5)
  BY DEF Shape
<1>. QED BY <1>1, <1>2, <1>3, <1>4, <1>5, <1>6 DEF WellFormed

\* Every script of the test suite prepares, executes and then compares, once.
LEMMA ScriptsWellFormed == \A s \in Scripts : WellFormed(s)
<1>1. ASSUME NEW r \in BOOLEAN
      PROVE  WellFormed(OpenfastScript(r))
  <2> DEFINE names == <<"5MW_Baseline", "AOC", "AWT27", "_DummyTurbineData",
                                              "SWRT", "UAE_VI", "WP_Baseline">>
             a == <<Validate>> \o CopyEach("openfast", names)
             b == a \o <<CaseFiles("renamed"), Execute>>
  <2>1. Prepares(CopyEach("openfast", names))
    BY EachPrepares DEF DataDirs
  <2>2. Prepares(<<Validate>>)
    BY ShortScripts DEF Baselines
  <2>3. Prepares(a)
    BY <2>1, <2>2, PreparesConcat
  <2>4. Begun(<<CaseFiles("renamed"), Execute>>)
    BY ShortScripts DEF Baselines
  <2>5. Begun(b)
    BY <2>3, <2>4, PrepareBegun
  <2>. QED BY <2>5, BegunRestart, BegunCompare DEF OpenfastScript
<1>2. WellFormed(OpenfastLinearScript)
  <2> DEFINE names == <<"Ideal_Beam", "WP_Baseline", "Damped_Beam">>
             a == <<Validate>> \o CopyEach("openfast", names)
  <2>1. Prepares(CopyEach("openfast", names))
    BY EachPrepares DEF DataDirs
  <2>2. Prepares(<<Validate>>)
    BY ShortScripts DEF Baselines
  <2>3. Prepares(a)
    BY <2>1, <2>2, PreparesConcat
  <2>4. WellFormed(<<CopyOrMerge(<<"openfast", "5MW_Baseline">>), CaseFiles("renamed"), Execute, Compare>>)
    BY ShortScripts DEF DataDirs, Baselines
  <2>. QED BY <2>3, <2>4, PrepareThen DEF OpenfastLinearScript
<1>3. ASSUME NEW r \in BOOLEAN
      PROVE  WellFormed(OpenfastCppScript(r))
  <2>1. Begun(<<Validate, CopyOrMerge(<<"openfast-cpp", "5MW_Baseline">>), CaseFiles("renamed"), Execute>>)
    BY ShortScripts DEF DataDirs, Baselines
  <2>. QED BY <2>1, BegunRestart, BegunCompare DEF OpenfastCppScript
<1>4. WellFormed(PythonScript)
  <2> DEFINE names == <<"AOC", "AWT27", "SWRT", "UAE_VI", "WP_Baseline">>
             a == <<Validate>> \o CopyEach("python", names)
  <2>1. Prepares(CopyEach("python", names))
    BY EachPrepares DEF DataDirs
  <2>2. Prepares(<<Validate>>)
    BY ShortScripts DEF Baselines
  <2>3. Prepares(a)
    BY <2>1, <2>2, PreparesConcat
  <2>4. WellFormed(<<CopyOrMerge(<<"python", "5MW_Baseline">>), CaseFiles("left out"), CallLibrary, Compare>>)
    BY ShortScripts DEF DataDirs, Baselines
  <2>. QED BY <2>3, <2>4, PrepareThen DEF PythonScript
<1>5. /\ WellFormed(FASTFarmScript) /\ WellFormed(WavetankPyScript) /\ WellFormed(HydrodynScript)
      /\ \A several \in BOOLEAN : WellFormed(AerodynScript(several))
  BY ShortScripts DEF FASTFarmScript, WavetankPyScript, HydrodynScript, AerodynScript, DataDirs, Baselines
<1>6. WellFormed(SubdynScript)
  BY ShortScripts DEF SubdynScript, Baselines
<1>7. /\ WellFormed(AeroAcousticScript) /\ WellFormed(AerodynPyScript) /\ WellFormed(AerodiskScript)
      /\ WellFormed(SimpleElastodynScript) /\ WellFormed(BeamdynScript)
      /\ WellFormed(HydrodynPyScript) /\ WellFormed(InflowwindScript)
      /\ WellFormed(InflowwindPyScript) /\ WellFormed(MoordynScript) /\ WellFormed(MoordynPyScript)
      /\ WellFormed(SeaStateScript) /\ WellFormed(SeaStatePyScript) /\ WellFormed(UnsteadyAeroScript)
  BY ShortScripts DEF AeroAcousticScript, AerodynPyScript, AerodiskScript, SimpleElastodynScript,
    BeamdynScript, HydrodynPyScript, InflowwindScript, InflowwindPyScript, MoordynScript,
    MoordynPyScript, SeaStateScript, SeaStatePyScript, UnsteadyAeroScript, Baselines
<1>. QED BY <1>1, <1>2, <1>3, <1>4, <1>5, <1>6, <1>7 DEF Scripts

-----------------------------------------------------------------------------

\* What may be found under the name of the output.
Outputs == {NoFile, Baseline} \cup ({"output"} \X Tests \X Nat)
\* A part of a directory.
Cell == [made : BOOLEAN, writers : SUBSET Tests, whole : BOOLEAN]
\* What an attempt has read and compared.
Sight == [torn : SUBSET Dirs, silent : BOOLEAN, compared : SUBSET Outputs]
\* The directories of the cases.
CaseDirs == {TestDir[t] : t \in Tests}
\* What is known of the end of an attempt.
Statuses == {NotRun, Running, TimedOut} \cup 0..255

\* TypeOK, and what it leaves open: pc, out, seen and status are functions, and an
\* attempt under way has a number.
TypeInv ==
  /\ script \in Programs
  /\ rtest \in BOOLEAN
  /\ noExec \in [Tests -> BOOLEAN]
  /\ pc \in [Tests -> Nat]
  /\ \A t \in Tests : pc[t] <= Len(script[t])
  /\ phase \in [Tests -> {"ready", "copying", "merging", "running"}]
  /\ todo \in [Tests -> SUBSET Parts]
  /\ tree \in [Dirs -> [Parts -> Cell]]
  /\ out \in [CaseDirs -> Outputs]
  /\ errors \in [Tests -> BOOLEAN]
  /\ attempt \in [Tests -> Nat]
  /\ \A t \in Tests : pc[t] # 0 => attempt[t] # 0
  /\ seen \in [Tests -> Sight]
  /\ status \in [Tests -> Statuses]
  /\ kills \in 0..MaxKills
  /\ cut \subseteq Dirs

\* Eight bits.
LEMMA ExitStatusType ==
  ASSUME NEW scale \in {0, 10}, NEW rc \in Int
  PROVE  ExitStatus(scale, rc) \in 0..255
BY DEF ExitStatus

\* The length of a well-formed script.
LEMMA ScriptLength ==
  ASSUME NEW program \in Programs, NEW t \in Tests
  PROVE  Len(program[t]) \in Nat
<1>1. program[t] \in Scripts \cup {<<>>}
  BY RegressionAssumption
<1>2. program[t] \in Scripts => WellFormed(program[t])
  BY ScriptsWellFormed
<1>. QED BY <1>1, <1>2, LenProperties, EmptySeq DEF WellFormed, Shape

\* A test that is under way is at an instruction of a well-formed script.
LEMMA InstructionOf ==
  ASSUME TypeInv, NEW t \in Tests, pc[t] # 0
  PROVE  /\ WellFormed(script[t])
         /\ pc[t] \in 1..Len(script[t]) /\ Len(script[t]) \in Nat
         /\ Instr(t) \in Instruction
         /\ Instr(t).op = "compare" <=> pc[t] = Len(script[t])
<1>1. script[t] \in Scripts \cup {<<>>} /\ pc[t] \in Nat /\ pc[t] <= Len(script[t])
  BY RegressionAssumption DEF TypeInv
<1>2. script[t] # <<>>
  BY <1>1
<1>3. WellFormed(script[t])
  BY <1>1, <1>2, ScriptsWellFormed
<1>4. PICK e \in Nat : Shape(script[t], e)
  BY <1>3 DEF WellFormed
<1>5. pc[t] \in 1..Len(script[t]) /\ Len(script[t]) \in Nat
  BY <1>1, <1>4, LenProperties DEF Shape
<1>6. Instr(t) \in Instruction
  BY <1>4, <1>5, ElementOfSeq DEF Shape, Instr
<1>7. Instr(t).op = "compare" <=> pc[t] = Len(script[t])
  BY <1>4, <1>5 DEF Shape, Instr, Preparing, Executions
<1>. QED BY <1>3, <1>5, <1>6, <1>7

\* What a test copies is a directory of the tree.
LEMMA TargetInDirs ==
  ASSUME TypeInv, NEW t \in Tests, At(t, {"copy", "case"})
  PROVE  Target(t) \in Dirs
<1>1. pc[t] \in 1..Len(script[t])
  BY InstructionOf DEF At
<1>2. CASE Instr(t).op = "case"
  BY <1>2 DEF Target, Dirs
<1>3. CASE Instr(t).op = "copy"
  BY <1>1, <1>3 DEF Target, Dirs, SharedIn, Instr
<1>. QED BY <1>2, <1>3 DEF At

\* A script that stays as it is names the same directories.
LEMMA SameDirs == UNCHANGED script => Dirs' = Dirs /\ Sight' = Sight
BY DEF Dirs, SharedIn, Sight

\* What an attempt has seen at its start, and what it has seen next.
LEMMA UnseenType == Unseen \in Sight
BY DEF Unseen, Sight

\* The types hold in the initial states.
LEMMA TypeInit == Init => TypeInv
<1> SUFFICES ASSUME Init PROVE TypeInv
  OBVIOUS
<1>1. tree \in [Dirs -> [Parts -> Cell]]
  BY DEF Init, Cell, Present, Missing
<1>2. \A t \in Tests : 0 <= Len(script[t])
  BY ScriptLength DEF Init
<1>. QED BY <1>1, <1>2, UnseenType, RegressionAssumption
     DEF Init, TypeInv, CaseDirs, Outputs, Statuses, NotRun

\* ... and when a test is started.
LEMMA TypeStart ==
  ASSUME TypeInv, NEW t \in Tests, Start(t)
  PROVE  TypeInv'
<1>1. 1 <= Len(script[t])
  BY ScriptsWellFormed, RegressionAssumption, LenProperties DEF TypeInv, Start, WellFormed, Shape
<1>2. Dirs' = Dirs /\ Sight' = Sight
  BY SameDirs DEF Start
<1>3. tree' \in [Dirs' -> [Parts -> Cell]]
  BY <1>2 DEF TypeInv, Start
<1>4. attempt' \in [Tests -> Nat] /\ \A u \in Tests : pc'[u] # 0 => attempt'[u] # 0
  BY RegressionAssumption DEF TypeInv, Start
<1>5. seen' \in [Tests -> Sight']
  BY <1>2, UnseenType DEF TypeInv, Start
<1>6. pc' \in [Tests -> Nat] /\ \A u \in Tests : pc'[u] <= Len(script[u])
  BY <1>1 DEF TypeInv, Start
<1>7. noExec' \in [Tests -> BOOLEAN]
  BY DEF TypeInv, Start
<1>8. errors' \in [Tests -> BOOLEAN]
  BY DEF TypeInv, Start
<1>9. status' \in [Tests -> Statuses]
  BY DEF TypeInv, Start, Statuses
<1>. QED BY <1>2, <1>3, <1>4, <1>5, <1>6, <1>7, <1>8, <1>9 DEF TypeInv, Start

\* The part of TypeInv about where the tests are.
Places ==
  /\ pc \in [Tests -> Nat]
  /\ \A t \in Tests : pc[t] <= Len(script[t])
  /\ \A t \in Tests : pc[t] # 0 => attempt[t] # 0
  /\ phase \in [Tests -> {"ready", "copying", "merging", "running"}]
  /\ status \in [Tests -> Statuses]

\* The next instruction is one of the script, except after the comparison.
LEMMA PlacesAdvance ==
  ASSUME TypeInv, NEW t \in Tests, pc[t] # 0, Instr(t).op # "compare",
         Advance(t), UNCHANGED <<script, attempt, status>>
  PROVE  Places'
<1>1. pc[t] + 1 <= Len(script[t])
  BY InstructionOf
<1>. QED BY <1>1 DEF TypeInv, Advance, Places

\* A test that has ended is nowhere.
LEMMA PlacesExit ==
  ASSUME TypeInv, NEW t \in Tests, NEW code \in Statuses,
         Exit(t, code), UNCHANGED <<script, attempt>>
  PROVE  Places'
<1>1. 0 <= Len(script[t])
  BY DEF TypeInv
<1>. QED BY <1>1 DEF TypeInv, Exit, Places

\* A part of a directory that exists may change.
LEMMA TreeUpdate ==
  ASSUME TypeInv, NEW d \in Dirs, NEW p \in Parts, NEW c \in Cell,
         tree' = [tree EXCEPT ![d][p] = c], UNCHANGED script
  PROVE  tree' \in [Dirs' -> [Parts -> Cell]] /\ Sight' = Sight /\ Dirs' = Dirs
<1>1. Dirs' = Dirs /\ Sight' = Sight
  BY SameDirs
<1>. QED BY <1>1 DEF TypeInv

\* The directories are those the scripts name, and no script changes.
LEMMA TreeSame ==
  ASSUME TypeInv, UNCHANGED <<script, tree>>
  PROVE  tree' \in [Dirs' -> [Parts -> Cell]] /\ Sight' = Sight /\ Dirs' = Dirs
BY SameDirs DEF TypeInv

\* The output of an attempt is one of the outputs.
LEMMA OutputType ==
  ASSUME TypeInv, NEW t \in Tests, pc[t] # 0
  PROVE  /\ Output(t) \in Outputs /\ NoFile \in Outputs /\ Baseline \in Outputs
         /\ \A o \in Outputs : [out EXCEPT ![TestDir[t]] = o] \in [CaseDirs -> Outputs]
<1>1. attempt[t] \in Nat
  BY RegressionAssumption DEF TypeInv
<1>2. TestDir[t] \in CaseDirs
  BY DEF CaseDirs
<1>. QED BY <1>1, <1>2 DEF Output, Outputs, TypeInv

\* The types hold after a step of the preparation.
LEMMA TypePreparation ==
  ASSUME TypeInv, NEW t \in Tests,
         CheckArguments(t) \/ CheckDirectory(t) \/ SkipPart(t) \/ EndCopy(t) \/ RemoveOutputs(t)
  PROVE  TypeInv'
<1> USE DEF Ready, At
<1>1. CASE CheckArguments(t)
  <2>1. Places'
    <3>1. CASE rtest
      BY <1>1, <3>1, PlacesAdvance DEF CheckArguments
    <3>2. CASE ~rtest
      <4>1. Exit(t, 1) /\ 1 \in Statuses
        BY <1>1, <3>2 DEF CheckArguments, Statuses
      <4>. QED BY <1>1, <4>1, PlacesExit DEF CheckArguments
    <3>. QED BY <3>1, <3>2
  <2>. QED BY <1>1, <2>1, TreeSame DEF CheckArguments, TypeInv, Places
<1>2. CASE CheckDirectory(t)
  <2>1. Places' /\ todo' \in [Tests -> SUBSET Parts]
    <3>1. CASE Advance(t) /\ UNCHANGED todo
      BY <1>2, <3>1, PlacesAdvance DEF CheckDirectory, TypeInv
    <3>2. CASE UNCHANGED pc /\ todo' = [todo EXCEPT ![t] = Parts] /\ 
               phase' = [phase EXCEPT ![t] = IF Exists(Target(t)) THEN "merging" ELSE "copying"]
      BY <1>2, <3>2 DEF CheckDirectory, TypeInv, Places
    <3>. QED BY <1>2, <3>1, <3>2 DEF CheckDirectory
  <2>. QED BY <1>2, <2>1, TreeSame DEF CheckDirectory, TypeInv, Places
<1>3. CASE SkipPart(t)
  BY <1>3, TreeSame DEF SkipPart, TypeInv
<1>4. CASE EndCopy(t)
  <2>1. Places'
    BY <1>4, PlacesAdvance DEF EndCopy
  <2>2. out' \in [CaseDirs -> Outputs]
    BY <1>4, OutputType DEF EndCopy, TypeInv
  <2>. QED BY <1>4, <2>1, <2>2, TreeSame DEF EndCopy, TypeInv, Places
<1>5. CASE RemoveOutputs(t)
  <2>1. Places'
    BY <1>5, PlacesAdvance DEF RemoveOutputs
  <2>2. out' \in [CaseDirs -> Outputs]
    BY <1>5, OutputType DEF RemoveOutputs, TypeInv
  <2>. QED BY <1>5, <2>1, <2>2, TreeSame DEF RemoveOutputs, TypeInv, Places
<1>. QED BY <1>1, <1>2, <1>3, <1>4, <1>5

\* ... of a copy,
LEMMA TypeParts ==
  ASSUME TypeInv, NEW t \in Tests, NEW p \in Parts, BeginPart(t, p) \/ EndPart(t, p)
  PROVE  TypeInv'
<1>1. Target(t) \in Dirs
  BY TargetInDirs DEF BeginPart, EndPart
<1>2. PICK d \in Dirs : d = Target(t)
  BY <1>1
<1>3. PICK cell \in Cell : cell = tree[d][p]
  BY DEF TypeInv
<1>4. CASE BeginPart(t, p)
  <2>1. PICK c \in Cell : c = [made |-> TRUE, writers |-> cell.writers \cup {t}, whole |-> FALSE]
    BY DEF Cell
  <2>2. tree' = [tree EXCEPT ![d][p] = c]
    BY <1>2, <1>3, <1>4, <2>1 DEF BeginPart
  <2>3. tree' \in [Dirs' -> [Parts -> Cell]] /\ Sight' = Sight /\ Dirs' = Dirs
    BY <1>4, <2>2, TreeUpdate DEF BeginPart
  <2>. QED BY <1>4, <2>3 DEF BeginPart, TypeInv
<1>5. CASE EndPart(t, p)
  <2>1. PICK w \in BOOLEAN : w = (cell.writers = {t})
    OBVIOUS
  <2>2. PICK c \in Cell : c = [made |-> TRUE, writers |-> cell.writers \ {t}, whole |-> w]
    BY DEF Cell
  <2>3. tree' = [tree EXCEPT ![d][p] = c]
    BY <1>2, <1>3, <1>5, <2>1, <2>2 DEF EndPart
  <2>4. tree' \in [Dirs' -> [Parts -> Cell]] /\ Sight' = Sight /\ Dirs' = Dirs
    BY <1>5, <2>3, TreeUpdate DEF EndPart
  <2>5. todo' \in [Tests -> SUBSET Parts]
    BY <1>5 DEF EndPart, TypeInv
  <2>. QED BY <1>5, <2>4, <2>5 DEF EndPart, TypeInv
<1>. QED BY <1>4, <1>5

\* ... of an execution,
LEMMA TypeRun ==
  ASSUME TypeInv, NEW t \in Tests, SkipRun(t) \/ BeginRun(t) \/ EndRun(t)
  PROVE  TypeInv'
<1> USE DEF Ready, At
<1>0. pc[t] # 0 /\ Instr(t).op \in Executions /\ Instr(t).op # "compare"
  BY DEF SkipRun, BeginRun, EndRun, Executions
<1>1. CASE SkipRun(t)
  <2>1. Places'
    BY <1>0, <1>1, PlacesAdvance DEF SkipRun
  <2>. QED BY <1>1, <2>1, TreeSame DEF SkipRun, TypeInv, Places
<1>2. CASE BeginRun(t)
  <2>1. Places'
    <3>1. CASE phase' = [phase EXCEPT ![t] = "running"] /\ UNCHANGED <<pc, status>>
      BY <1>2, <3>1 DEF BeginRun, TypeInv, Places
    <3>2. CASE Advance(t) /\ UNCHANGED status
      BY <1>0, <1>2, <3>2, PlacesAdvance DEF BeginRun
    <3>3. CASE Exit(t, 1)
      <4>1. 1 \in Statuses
        BY DEF Statuses
      <4>. QED BY <1>2, <3>3, <4>1, PlacesExit DEF BeginRun
    <3>. QED BY <1>2, <3>1, <3>2, <3>3 DEF BeginRun
  <2>2. seen' \in [Tests -> Sight]
    <3>1. PICK found \in SUBSET Dirs : found = {d \in ReadBy(t) : ~Whole(d)}
      BY DEF ReadBy, Dirs
    <3>2. PICK sight \in Sight : sight = [seen[t] EXCEPT !.torn = @ \cup found]
      BY DEF TypeInv, Sight
    <3>3. seen' = [seen EXCEPT ![t] = sight]
      BY <1>2, <3>1, <3>2 DEF BeginRun
    <3>. QED BY <3>3 DEF TypeInv
  <2>. QED BY <1>2, <2>1, <2>2, TreeSame DEF BeginRun, TypeInv, Places
<1>3. CASE EndRun(t)
  <2>1. PICK rc \in ReturnCodes, written \in BOOLEAN :
       /\ out' = IF written THEN [out EXCEPT ![TestDir[t]] = Output(t)] ELSE out
       /\ seen' = [seen EXCEPT ![t].silent = @ \/ (rc = 0 /\ ~written)]
       /\ IF rc = 0 \/ Instr(t).op = "each"
          THEN Advance(t) /\ UNCHANGED status
          ELSE Exit(t, ExitStatus(Instr(t).scale, rc))
       /\ errors' = [errors EXCEPT ![t] = @ \/ rc # 0]
    BY <1>3 DEF EndRun
  <2>2. Places'
    <3>1. CASE Advance(t) /\ UNCHANGED status
      BY <1>0, <1>3, <3>1, PlacesAdvance DEF EndRun
    <3>2. CASE Exit(t, ExitStatus(Instr(t).scale, rc))
      <4>1. Instr(t) \in Instruction
        BY <1>0, InstructionOf
      <4>2. Instr(t).scale \in {0, 10} /\ rc \in Int
        BY <1>0, <4>1, RegressionAssumption DEF Instruction, Executions
      <4>3. ExitStatus(Instr(t).scale, rc) \in Statuses
        BY <4>2, ExitStatusType DEF Statuses
      <4>. QED BY <1>3, <3>2, <4>3, PlacesExit DEF EndRun
    <3>. QED BY <2>1, <3>1, <3>2
  <2>3. out' \in [CaseDirs -> Outputs]
    BY <1>0, <2>1, OutputType DEF TypeInv
  <2>4. errors' \in [Tests -> BOOLEAN]
    BY <2>1 DEF TypeInv
  <2>5. seen' \in [Tests -> Sight]
    <3>1. PICK quiet \in BOOLEAN : quiet <=> (seen[t].silent \/ (rc = 0 /\ ~written))
      OBVIOUS
    <3>2. seen' = [seen EXCEPT ![t].silent = quiet]
      BY <2>1, <3>1
    <3>. QED BY <3>2 DEF TypeInv, Sight
  <2>. QED BY <1>3, <2>2, <2>3, <2>4, <2>5, TreeSame DEF EndRun, TypeInv, Places
<1>. QED BY <1>1, <1>2, <1>3

\* ... of the comparison,
LEMMA TypeCompare ==
  ASSUME TypeInv, NEW t \in Tests, CompareOutput(t)
  PROVE  TypeInv'
<1>1. \E code \in {0, 1} : Exit(t, code)
  BY DEF CompareOutput
<1>2. Places'
  BY <1>1, PlacesExit DEF CompareOutput, Statuses
<1>3. seen' \in [Tests -> Sight]
  <2>1. PICK one \in SUBSET Outputs : one = {out[TestDir[t]]}
    BY DEF TypeInv, CaseDirs
  <2>2. PICK sight \in Sight : sight = [seen[t] EXCEPT !.compared = one]
    BY DEF TypeInv, Sight
  <2>3. UNCHANGED seen \/ seen' = [seen EXCEPT ![t] = sight]
    BY <2>1, <2>2 DEF CompareOutput
  <2>. QED BY <2>3 DEF TypeInv
<1>. QED BY <1>2, <1>3, TreeSame DEF CompareOutput, TypeInv, Places

\* ... and after a timeout.
LEMMA TypeTimeOut ==
  ASSUME TypeInv, NEW t \in Tests, TimeOut(t)
  PROVE  TypeInv'
<1>1. Places'
  BY PlacesExit DEF TimeOut, Statuses
<1>2. tree' \in [Dirs' -> [Parts -> Cell]]
  <2>1. \A c \in Cell : [c EXCEPT !.writers = @ \ {t}] \in Cell
    BY DEF Cell
  <2>2. Dirs' = Dirs
    BY SameDirs DEF TimeOut
  <2>3. \A d \in Dirs, p \in Parts : [tree[d][p] EXCEPT !.writers = @ \ {t}] \in Cell
    <3>1. \A d \in Dirs, p \in Parts : tree[d][p] \in Cell
      BY DEF TypeInv
    <3>. QED BY <2>1, <3>1
  <2>4. tree' = [d \in Dirs |-> [p \in Parts |-> [tree[d][p] EXCEPT !.writers = @ \ {t}]]]
    BY DEF TimeOut
  <2>. QED BY <2>2, <2>3, <2>4
<1>3. out' \in [CaseDirs -> Outputs]
  BY OutputType DEF TimeOut, TypeInv
<1>4. kills' \in 0..MaxKills
  BY RegressionAssumption DEF TimeOut, TypeInv
<1>5. todo' \in [Tests -> SUBSET Parts]
  BY DEF TimeOut, TypeInv
<1>6. cut' \subseteq Dirs' /\ Sight' = Sight
  <2>1. At(t, {"copy", "case"}) => Target(t) \in Dirs
    BY TargetInDirs
  <2>2. Dirs' = Dirs /\ Sight' = Sight
    BY SameDirs DEF TimeOut
  <2>. QED BY <2>1, <2>2 DEF TimeOut, TypeInv
<1>. QED BY <1>1, <1>2, <1>3, <1>4, <1>5, <1>6 DEF TimeOut, TypeInv, Places

\* Every step preserves the types.
LEMMA TypeStep == TypeInv /\ [Next]_vars => TypeInv'
<1> SUFFICES ASSUME TypeInv, [Next]_vars PROVE TypeInv'
  OBVIOUS
<1>1. ASSUME NEW t \in Tests, Start(t) \/ Script(t) \/ TimeOut(t)
      PROVE  TypeInv'
  BY <1>1, TypeStart, TypePreparation, TypeParts, TypeRun, TypeCompare, TypeTimeOut DEF Script
<1>2. CASE UNCHANGED vars
  BY <1>2, SameDirs DEF vars, TypeInv
<1>. QED BY <1>1, <1>2 DEF Next

(****************************************************************************)
(* The variables keep their types, whatever the tests do to each other: in *)
(* particular no test is ever past the end of its script.                  *)
(****************************************************************************)
THEOREM TypeAlways == Spec => []TypeInv
BY TypeInit, TypeStep, PTL DEF Spec

(****************************************************************************)
(* The type invariant that the runs check: among other things the status of an*)
(* attempt always fits in the eight bits that ctest sees of sys.exit.      *)
(****************************************************************************)
THEOREM TypeCorrect == Spec => []TypeOK
<1>1. TypeInv => TypeOK
  <2> SUFFICES ASSUME TypeInv PROVE TypeOK
    OBVIOUS
  <2>1. \A t \in Tests : pc[t] \in 0..Len(script[t])
    BY ScriptLength DEF TypeInv
  <2>2. \A t \in Tests : out[TestDir[t]] \in Outputs /\ seen[t] \in Sight
    BY DEF TypeInv, CaseDirs
  <2>. QED BY <2>1, <2>2 DEF TypeInv, TypeOK, Cell, Outputs, Statuses, Sight
<1>. QED BY <1>1, TypeAlways, PTL

\* Ten times a return code is zero in eight bits for the multiples of 128 only.
LEMMA LostCodes ==
  ASSUME NEW rc \in Int
  PROVE  ExitStatus(10, rc) = 0 <=> rc % 128 = 0
<1>1. (10 * rc) % 256 = 0 => rc % 128 = 0
  OBVIOUS
<1>2. rc % 128 = 0 => (10 * rc) % 256 = 0
  OBVIOUS
<1>. QED BY <1>1, <1>2 DEF ExitStatus

\* The exit status of a script that stops after a failure is not zero.
LEMMA ExitReports ==
  ASSUME CodesReported(ReturnCodes), NEW rc \in ReturnCodes, rc # 0, NEW scale \in {0, 10}
  PROVE  ExitStatus(scale, rc) # 0
BY LostCodes, RegressionAssumption DEF CodesReported, ExitStatus

\* Every step preserves that failures are reported.
LEMMA ReportedStep ==
  ASSUME CodesReported(ReturnCodes), TypeInv, FailureReported, [Next]_vars
  PROVE  FailureReported'
<1>1. ASSUME NEW t \in Tests, Advance(t), UNCHANGED <<errors, status>>
      PROVE  FailureReported'
  BY <1>1 DEF TypeInv, FailureReported, Advance
<1>2. ASSUME NEW t \in Tests, NEW code, code # 0 \/ ~errors'[t], Exit(t, code), 
             \A u \in Tests \ {t} : errors'[u] = errors[u]
      PROVE  FailureReported'
  BY <1>2 DEF TypeInv, FailureReported, Exit
<1>3. ASSUME NEW t \in Tests, Script(t)
      PROVE  FailureReported'
  <2>1. CASE CheckArguments(t)
    BY <1>1, <1>2, <2>1 DEF CheckArguments
  <2>2. CASE CheckDirectory(t)
    BY <1>1, <2>2 DEF CheckDirectory, FailureReported
  <2>3. CASE SkipPart(t) \/ \E p \in Parts : BeginPart(t, p) \/ EndPart(t, p)
    BY <2>3 DEF SkipPart, BeginPart, EndPart, FailureReported
  <2>4. CASE EndCopy(t) \/ RemoveOutputs(t) \/ SkipRun(t)
    BY <1>1, <2>4 DEF EndCopy, RemoveOutputs, SkipRun
  <2>5. CASE BeginRun(t)
    BY <1>1, <1>2, <2>5 DEF BeginRun, FailureReported
  <2>6. CASE EndRun(t)
    <3>1. PICK rc \in ReturnCodes :
         /\ IF rc = 0 \/ Instr(t).op = "each"
            THEN Advance(t) /\ UNCHANGED status
            ELSE Exit(t, ExitStatus(Instr(t).scale, rc))
         /\ errors' = [errors EXCEPT ![t] = @ \/ rc # 0]
      BY <2>6 DEF EndRun
    <3>2. \A u \in Tests \ {t} : errors'[u] = errors[u]
      BY <3>1 DEF TypeInv
    <3>3. CASE rc = 0 \/ Instr(t).op = "each"
      BY <3>1, <3>2, <3>3 DEF TypeInv, FailureReported, Advance
    <3>4. CASE rc # 0 /\ Instr(t).op # "each"
      <4>1. Instr(t).scale \in {0, 10}
        BY <2>6, InstructionOf DEF EndRun, At, Instruction, Executions
      <4>2. ExitStatus(Instr(t).scale, rc) # 0
        BY <3>4, <4>1, ExitReports
      <4>. QED BY <1>2, <3>1, <3>2, <3>4, <4>2
    <3>. QED BY <3>3, <3>4
  <2>7. CASE CompareOutput(t)
    <3>1. \E code \in {0, 1} : Exit(t, code) /\ (code # 0 \/ ~errors[t])
      BY <2>7 DEF CompareOutput
    <3>. QED BY <1>2, <2>7, <3>1 DEF CompareOutput
  <2>. QED BY <1>3, <2>1, <2>2, <2>3, <2>4, <2>5, <2>6, <2>7 DEF Script
<1>4. ASSUME NEW t \in Tests, Start(t)
      PROVE  FailureReported'
  BY <1>4 DEF Start, TypeInv, FailureReported
<1>5. ASSUME NEW t \in Tests, TimeOut(t)
      PROVE  FailureReported'
  BY <1>2, <1>5 DEF TimeOut, TimedOut
<1>6. CASE UNCHANGED vars
  BY <1>6 DEF vars, FailureReported
<1>. QED BY <1>3, <1>4, <1>5, <1>6 DEF Next

(****************************************************************************)
(* A failed execution is reported by the exit status of its script, if no program*)
(* returns a multiple of 128: the scripts of the single modules exit with ten*)
(* times the return code, of which eight bits are left.                    *)
(****************************************************************************)
THEOREM FailuresReported ==
  ASSUME CodesReported(ReturnCodes)
  PROVE  Spec => []FailureReported
<1>1. Init => FailureReported
  BY DEF Init, FailureReported
<1>2. TypeInv /\ FailureReported /\ [Next]_vars => FailureReported'
  BY ReportedStep
<1>. QED BY <1>1, <1>2, TypeAlways, PTL DEF Spec

-----------------------------------------------------------------------------

\* A test runs at an execution, copies at a copy, and is ready when it is nowhere.
PhaseOK(t) ==
  /\ pc[t] = 0 => phase[t] = "ready"
  /\ pc[t] # 0 /\ phase[t] = "running" => Instr(t).op \in Executions
  /\ pc[t] # 0 /\ phase[t] \in {"copying", "merging"} => Instr(t).op \in {"copy", "case"}
\* So for every test.
PhaseInv == \A t \in Tests : PhaseOK(t)

\* Every step preserves it.
LEMMA PhaseStep == TypeInv /\ PhaseInv /\ [Next]_vars => PhaseInv'
<1> SUFFICES ASSUME TypeInv, PhaseInv, [Next]_vars PROVE PhaseInv'
  OBVIOUS
<1>1. ASSUME NEW t \in Tests, phase' = [phase EXCEPT ![t] = "ready"], UNCHANGED script,
             \A u \in Tests \ {t} : pc'[u] = pc[u]
      PROVE  PhaseInv'
  BY <1>1 DEF PhaseInv, PhaseOK, TypeInv, Instr
<1>2. ASSUME NEW t \in Tests, Advance(t), UNCHANGED script
      PROVE  PhaseInv'
  BY <1>1, <1>2 DEF Advance, TypeInv
<1>3. ASSUME NEW t \in Tests, NEW code, Exit(t, code), UNCHANGED script
      PROVE  PhaseInv'
  BY <1>1, <1>3 DEF Exit, TypeInv
<1>4. ASSUME NEW t \in Tests, NEW ph, phase' = [phase EXCEPT ![t] = ph], UNCHANGED <<pc, script>>, pc[t] # 0,
             \/ ph = "running" /\ Instr(t).op \in Executions
             \/ ph \in {"copying", "merging"} /\ Instr(t).op \in {"copy", "case"}
      PROVE  PhaseInv'
  BY <1>4 DEF PhaseInv, PhaseOK, TypeInv, Instr
<1>5. ASSUME UNCHANGED <<pc, phase, script>>
      PROVE  PhaseInv'
  BY <1>5 DEF PhaseInv, PhaseOK, Instr
<1>6. ASSUME NEW t \in Tests, Start(t)
      PROVE  PhaseInv'
  BY <1>6 DEF Start, PhaseInv, PhaseOK, TypeInv, Instr
<1>7. ASSUME NEW t \in Tests, TimeOut(t)
      PROVE  PhaseInv'
  BY <1>3, <1>7 DEF TimeOut
<1>8. ASSUME NEW t \in Tests, Script(t)
      PROVE  PhaseInv'
  <2>1. CASE CheckArguments(t)
    BY <1>2, <1>3, <2>1 DEF CheckArguments
  <2>2. CASE CheckDirectory(t)
    BY <1>2, <1>4, <2>2 DEF CheckDirectory, Ready, At
  <2>3. CASE SkipPart(t) \/ \E p \in Parts : BeginPart(t, p) \/ EndPart(t, p)
    BY <1>5, <2>3 DEF SkipPart, BeginPart, EndPart
  <2>4. CASE EndCopy(t) \/ RemoveOutputs(t) \/ SkipRun(t)
    BY <1>2, <2>4 DEF EndCopy, RemoveOutputs, SkipRun
  <2>5. CASE BeginRun(t)
    BY <1>2, <1>3, <1>4, <2>5 DEF BeginRun, Ready, At
  <2>6. CASE EndRun(t)
    BY <1>2, <1>3, <2>6 DEF EndRun
  <2>7. CASE CompareOutput(t)
    BY <1>3, <2>7 DEF CompareOutput
  <2>. QED BY <1>8, <2>1, <2>2, <2>3, <2>4, <2>5, <2>6, <2>7 DEF Script
<1>9. CASE UNCHANGED vars
  BY <1>5, <1>9 DEF vars
<1>. QED BY <1>6, <1>7, <1>8, <1>9 DEF Next

\* PhaseInv is invariant.
LEMMA PhaseAlways == Spec => []PhaseInv
<1>1. Init => PhaseInv
  BY DEF Init, PhaseInv, PhaseOK
<1>. QED BY <1>1, PhaseStep, TypeAlways, PTL DEF Spec

\* The attempt has executed something, or passed over it.
Past(t) == \E i \in 1..(pc[t] - 1) : script[t][i].op \in Executions

\* An attempt under way has no verdict; after its executions it has noted an error,
\* or its own output is in place, or an execution was silent, or it had nothing whole
\* to execute.
Fresh(t) ==
  /\ pc[t] # 0 => status[t] = Running
  /\ pc[t] # 0 /\ ~noExec[t] /\ Past(t) =>
       \/ errors[t] \/ out[TestDir[t]] = Output(t) \/ seen[t].silent
       \/ PerDriver(t) /\ TestDir[t] \in seen[t].torn
  /\ pc[t] # 0 /\ ~noExec[t] /\ PerDriver(t) /\ (Past(t) \/ phase[t] = "running") =>
       TestDir[t] \in seen[t].torn \/ Whole(TestDir[t])
  /\ status[t] = 0 /\ ~noExec[t] =>
       \/ seen[t].compared = {Output(t)}
       \/ seen[t].silent /\ \E o \in Leftovers(t) : seen[t].compared = {o}
       \/ PerDriver(t) /\ TestDir[t] \in seen[t].torn

\* The script has deleted the outputs.
Deleted(t) == \E i \in 1..(pc[t] - 1) : script[t][i] = DeleteOutputs

\* What is found under the name of the output.
OutputOK(t) ==
  /\ out[TestDir[t]] \in {NoFile, Baseline} \cup {<<"output", t, k>> : k \in 1..attempt[t]}
  /\ out[TestDir[t]] = Baseline => HasInstr(t, CaseFiles("kept"))
  /\ pc[t] # 0 /\ ~noExec[t] /\ Deleted(t) => out[TestDir[t]] \in {NoFile, Output(t)}

\* A test that still prepares has executed nothing; one that compares has.
LEMMA PastWhere ==
  ASSUME TypeInv, NEW t \in Tests, pc[t] # 0
  PROVE  /\ Instr(t).op \in Preparing => ~Past(t)
         /\ Instr(t).op = "compare" => Past(t)
<1>1. PICK e \in Nat : Shape(script[t], e)
  BY InstructionOf DEF WellFormed
<1>2. pc[t] \in 1..Len(script[t]) /\ Len(script[t]) \in Nat
  BY InstructionOf
<1>3. Instr(t).op \in Preparing => pc[t] < e
  BY <1>1, <1>2 DEF Shape, Instr, Preparing, Executions
<1>4. pc[t] < e => ~Past(t)
  <2>1. SUFFICES ASSUME pc[t] < e, NEW i \in 1..(pc[t] - 1)
                 PROVE  script[t][i].op \notin Executions
    BY DEF Past
  <2>2. i \in 1..Len(script[t]) /\ i < e
    BY <1>2, <2>1
  <2>3. script[t][i].op \in Preparing
    BY <1>1, <2>2 DEF Shape
  <2>. QED BY <2>3 DEF Preparing, Executions
<1>5. Instr(t).op = "compare" => Past(t)
  <2>1. SUFFICES ASSUME Instr(t).op = "compare" PROVE Past(t)
    OBVIOUS
  <2>2. pc[t] = Len(script[t])
    BY <2>1, InstructionOf
  <2>3. e \in 1..(pc[t] - 1) /\ script[t][e].op \in Executions
    BY <1>1, <1>2, <2>2 DEF Shape
  <2>. QED BY <2>3 DEF Past
<1>. QED BY <1>3, <1>4, <1>5

\* An execution is past once the test goes on to the next instruction.
LEMMA PastAdvance ==
  ASSUME TypeInv, NEW t \in Tests, pc[t] # 0, Advance(t), UNCHANGED script
  PROVE  Past(t)' <=> Past(t) \/ Instr(t).op \in Executions
<1>1. pc'[t] = pc[t] + 1 /\ pc[t] \in 1..Len(script[t]) /\ Len(script[t]) \in Nat
  BY InstructionOf DEF TypeInv, Advance
<1>. QED BY <1>1 DEF Past, Instr

\* A copy changes one directory.
LEMMA WholeElsewhere ==
  ASSUME TypeInv, NEW t \in Tests, NEW p \in Parts, NEW d \in Dirs, Target(t) # d,
         BeginPart(t, p) \/ EndPart(t, p)
  PROVE  \A q \in Parts : tree'[d][q] = tree[d][q]
BY TargetInDirs DEF BeginPart, EndPart, TypeInv

\* A timeout tears nothing that was whole.
LEMMA WholeAfterTimeOut ==
  ASSUME TypeInv, NEW t \in Tests, NEW d \in Dirs, TimeOut(t), Whole(d)
  PROVE  Whole(d)'
<1>1. \A p \in Parts : tree[d][p] \in Cell
  BY DEF TypeInv
<1>2. \A p \in Parts : tree'[d][p] = [tree[d][p] EXCEPT !.writers = @ \ {t}]
  BY DEF TimeOut
<1>3. \A p \in Parts : tree'[d][p].whole = tree[d][p].whole
                       /\ tree'[d][p].writers = tree[d][p].writers \ {t}
  BY <1>1, <1>2 DEF Cell
<1>. QED BY <1>3 DEF Whole, WholePart

\* A step of one test leaves the state of another alone.
LEMMA OthersState ==
  ASSUME TypeInv, NEW t \in Tests, NEW u \in Tests \ {t}, Start(u) \/ Script(u) \/ TimeOut(u)
  PROVE  /\ pc'[t] = pc[t] /\ phase'[t] = phase[t] /\ status'[t] = status[t]
         /\ noExec'[t] = noExec[t] /\ errors'[t] = errors[t] /\ attempt'[t] = attempt[t]
         /\ seen'[t] = seen[t] /\ todo'[t] = todo[t]
         /\ script' = script
<1>1. CASE Start(u)
  BY <1>1 DEF Start, TypeInv
<1>2. CASE TimeOut(u)
  BY <1>2 DEF TimeOut, Exit, TypeInv
<1>3. CASE CheckArguments(u) \/ CheckDirectory(u) \/ SkipPart(u)
  BY <1>3 DEF CheckArguments, CheckDirectory, SkipPart, Advance, Exit, TypeInv
<1>4. CASE \E p \in Parts : BeginPart(u, p) \/ EndPart(u, p)
  BY <1>4 DEF BeginPart, EndPart, TypeInv
<1>5. CASE EndCopy(u) \/ RemoveOutputs(u) \/ SkipRun(u)
  BY <1>5 DEF EndCopy, RemoveOutputs, SkipRun, Advance, TypeInv
<1>6. CASE BeginRun(u) \/ CompareOutput(u)
  BY <1>6 DEF BeginRun, CompareOutput, Advance, Exit, TypeInv
<1>7. CASE EndRun(u)
  <2>1. PICK rc \in ReturnCodes, written \in BOOLEAN :
       /\ seen' = [seen EXCEPT ![u].silent = @ \/ (rc = 0 /\ ~written)]
       /\ (Advance(u) /\ UNCHANGED status) \/ Exit(u, ExitStatus(Instr(u).scale, rc))
       /\ errors' = [errors EXCEPT ![u] = @ \/ rc # 0]
    BY <1>7 DEF EndRun
  <2>2. errors'[t] = errors[t] /\ seen'[t] = seen[t]
    BY <2>1 DEF TypeInv
  <2>3. pc'[t] = pc[t] /\ phase'[t] = phase[t] /\ status'[t] = status[t]
    BY <2>1 DEF Advance, Exit, TypeInv
  <2>. QED BY <1>7, <2>2, <2>3 DEF EndRun
<1>. QED BY <1>1, <1>2, <1>3, <1>4, <1>5, <1>6, <1>7 DEF Script

\* ... and, where tests have directories of their own, its output and its case.
LEMMA OthersStep ==
  ASSUME TypeInv, OwnDirectories(Programs), NEW t \in Tests, NEW u \in Tests \ {t},
         Start(u) \/ Script(u) \/ TimeOut(u)
  PROVE  /\ out'[TestDir[t]] = out[TestDir[t]]
         /\ Whole(TestDir[t]) => Whole(TestDir[t])'
<1>1. TestDir[t] \in Dirs /\ TestDir[t] # TestDir[u] /\ TestDir[t] \in CaseDirs
  BY DEF OwnDirectories, Dirs, CaseDirs
<1>2. At(u, {"copy", "case"}) => Target(u) # TestDir[t]
  <2>1. CASE At(u, {"copy"})
    <3>1. Instr(u).dir \in SharedIn(script[u])
      BY <2>1, InstructionOf DEF At, Instr, SharedIn
    <3>2. TestDir[t] \notin SharedIn(script[u])
      BY DEF OwnDirectories, TypeInv
    <3>. QED BY <2>1, <3>1, <3>2 DEF At, Target
  <2>2. CASE At(u, {"case"})
    BY <1>1, <2>2 DEF At, Target
  <2>. QED BY <2>1, <2>2 DEF At
<1>3. CASE Start(u) \/ CheckArguments(u) \/ CheckDirectory(u) \/ SkipPart(u) \/ SkipRun(u)
           \/ BeginRun(u) \/ CompareOutput(u)
  BY <1>3 DEF Start, CheckArguments, CheckDirectory, SkipPart, SkipRun, BeginRun, CompareOutput,
     Whole, WholePart
<1>4. CASE TimeOut(u)
  BY <1>1, <1>4, WholeAfterTimeOut DEF TimeOut, TypeInv
<1>5. ASSUME NEW p \in Parts, BeginPart(u, p) \/ EndPart(u, p)
      PROVE  \A q \in Parts : tree'[TestDir[t]][q] = tree[TestDir[t]][q]
  BY <1>1, <1>2, <1>5, WholeElsewhere DEF BeginPart, EndPart
<1>6. CASE \E p \in Parts : BeginPart(u, p) \/ EndPart(u, p)
  BY <1>5, <1>6 DEF BeginPart, EndPart, Whole, WholePart
<1>7. CASE EndCopy(u) \/ RemoveOutputs(u)
  BY <1>1, <1>7 DEF EndCopy, RemoveOutputs, TypeInv, Whole, WholePart
<1>8. CASE EndRun(u)
  BY <1>1, <1>8 DEF EndRun, TypeInv, Whole, WholePart
<1>. QED BY <1>3, <1>4, <1>6, <1>7, <1>8 DEF Script

\* ... and what is found under the name of its output.
LEMMA OutputOthers ==
  ASSUME TypeInv, OwnDirectories(Programs), NEW t \in Tests, NEW u \in Tests \ {t}, OutputOK(t),
         Start(u) \/ Script(u) \/ TimeOut(u)
  PROVE  OutputOK(t)'
<1>1. (Deleted(t)' <=> Deleted(t)) /\ Output(t)' = Output(t)
  BY OthersState DEF Deleted, Output
<1>2. HasInstr(t, CaseFiles("kept"))' <=> HasInstr(t, CaseFiles("kept"))
  BY OthersState DEF HasInstr
<1>. QED BY <1>1, <1>2, OthersState, OthersStep DEF OutputOK

\* The next instruction, where nothing is deleted.
LEMMA DeletedAdvance ==
  ASSUME TypeInv, NEW t \in Tests, pc[t] # 0, Advance(t), UNCHANGED script
  PROVE  Deleted(t)' <=> Deleted(t) \/ Instr(t) = DeleteOutputs
<1>1. pc'[t] = pc[t] + 1 /\ pc[t] \in 1..Len(script[t]) /\ Len(script[t]) \in Nat
  BY InstructionOf DEF TypeInv, Advance
<1>. QED BY <1>1 DEF Deleted, Instr

\* Nothing is deleted before the files of the case are copied.
LEMMA CopiedFirst ==
  ASSUME TypeInv, NEW t \in Tests, At(t, {"copy", "case"})
  PROVE  ~Deleted(t)
<1>1. PICK e \in Nat : Shape(script[t], e)
  BY InstructionOf DEF WellFormed, At
<1>2. pc[t] \in 1..Len(script[t]) /\ Len(script[t]) \in Nat
  BY InstructionOf DEF At
<1>3. pc[t] < e
  BY <1>1, <1>2 DEF Shape, At, Instr, Preparing, Executions
<1>4. SUFFICES ASSUME NEW i \in 1..(pc[t] - 1) PROVE script[t][i].op # "delete"
  BY Instructions DEF Deleted
<1>5. i \in 1..(e - 2)
  BY <1>2, <1>3
<1>. QED BY <1>1, <1>5 DEF Shape

\* A step that leaves the outputs as they are.
LEMMA OutputSame ==
  ASSUME TypeInv, NEW t \in Tests, OutputOK(t), UNCHANGED <<script, out, noExec, attempt>>,
         pc[t] # 0, pc'[t] \in {0, pc[t]} \/ (Advance(t) /\ Instr(t).op # "delete")
  PROVE  OutputOK(t)'
<1>1. pc'[t] # 0 /\ Deleted(t)' => Deleted(t)
  BY DeletedAdvance, Instructions DEF Deleted
<1>2. Output(t)' = Output(t) /\ (HasInstr(t, CaseFiles("kept"))' <=> HasInstr(t, CaseFiles("kept")))
  BY DEF Output, HasInstr
<1>. QED BY <1>1, <1>2 DEF OutputOK

\* A step that puts the output of the attempt in place.
LEMMA OutputWritten ==
  ASSUME TypeInv, NEW t \in Tests, pc[t] # 0, UNCHANGED <<script, attempt>>,
         out' = [out EXCEPT ![TestDir[t]] = Output(t)], Output(t) # Baseline
  PROVE  OutputOK(t)'
<1>1. out'[TestDir[t]] = Output(t) /\ Output(t)' = Output(t)
  BY DEF TypeInv, CaseDirs, Output
<1>2. attempt[t] \in 1..attempt[t]
  BY RegressionAssumption DEF TypeInv
<1>. QED BY <1>1, <1>2 DEF OutputOK, Output

\* The steps of the test itself.
LEMMA OutputSelf ==
  ASSUME TypeInv, NEW t \in Tests, OutputOK(t), Start(t) \/ Script(t) \/ TimeOut(t)
  PROVE  OutputOK(t)'
<1>0. Output(t) # Baseline
  BY DEF Output, Baseline
<1>1. CASE Start(t)
  <2>1. pc'[t] = 1 /\ UNCHANGED <<script, out>> /\ attempt'[t] = attempt[t] + 1 /\ attempt[t] \in Nat
    BY <1>1, RegressionAssumption DEF Start, TypeInv
  <2>2. ~Deleted(t)' /\ (HasInstr(t, CaseFiles("kept"))' <=> HasInstr(t, CaseFiles("kept")))
    BY <2>1 DEF Deleted, HasInstr
  <2>. QED BY <2>1, <2>2 DEF OutputOK
<1>2. CASE TimeOut(t)
  <2>1. pc[t] # 0 /\ pc'[t] = 0 /\ UNCHANGED <<script, noExec, attempt>>
    BY <1>2 DEF TimeOut, Exit, TypeInv
  <2>2. out' = out \/ out' = [out EXCEPT ![TestDir[t]] = Output(t)]
    BY <1>2 DEF TimeOut
  <2>. QED BY <1>0, <2>1, <2>2, OutputSame, OutputWritten
<1>3. CASE \/ CheckArguments(t) \/ CheckDirectory(t) \/ SkipPart(t) \/ SkipRun(t)
           \/ BeginRun(t) \/ CompareOutput(t) \/ \E p \in Parts : BeginPart(t, p) \/ EndPart(t, p)
  <2>1. pc[t] # 0 /\ UNCHANGED <<script, out, noExec, attempt>>
    BY <1>3 DEF CheckArguments, CheckDirectory, SkipPart, SkipRun, BeginRun, CompareOutput,
       BeginPart, EndPart, Ready, At
  <2>2. pc'[t] \in {0, pc[t]} \/ (Advance(t) /\ Instr(t).op # "delete")
    BY <1>3 DEF CheckArguments, CheckDirectory, SkipPart, SkipRun, BeginRun, CompareOutput,
       BeginPart, EndPart, Ready, At, Exit, TypeInv, Executions
  <2>. QED BY <2>1, <2>2, OutputSame
<1>4. CASE EndCopy(t)
  <2>1. pc[t] # 0 /\ Advance(t) /\ Instr(t).op # "delete" /\ UNCHANGED <<script, noExec, attempt>>
    BY <1>4 DEF EndCopy, At
  <2>2. CASE UNCHANGED out
    BY <2>1, <2>2, OutputSame
  <2>3. CASE /\ Instr(t).op = "case" /\ Instr(t).baseline = "kept"
             /\ out' = [out EXCEPT ![TestDir[t]] = Baseline]
    <3>1. pc[t] \in 1..Len(script[t]) /\ Instr(t) \in Instruction
      BY <2>1, InstructionOf
    <3>2. Instr(t) = CaseFiles("kept")
      BY <2>3, <3>1 DEF Instruction, CaseFiles, Executions
    <3>3. HasInstr(t, CaseFiles("kept"))'
      BY <2>1, <3>1, <3>2 DEF HasInstr, Instr
    <3>4. ~Deleted(t)'
      BY <1>4, <2>1, CopiedFirst, DeletedAdvance, Instructions DEF EndCopy
    <3>5. out'[TestDir[t]] = Baseline
      BY <2>3 DEF TypeInv, CaseDirs
    <3>. QED BY <3>3, <3>4, <3>5 DEF OutputOK
  <2>. QED BY <1>4, <2>2, <2>3 DEF EndCopy
<1>5. CASE RemoveOutputs(t)
  <2>1. pc[t] # 0 /\ Advance(t) /\ UNCHANGED <<script, noExec, attempt>>
    BY <1>5 DEF RemoveOutputs, Ready, At
  <2>2. HasInstr(t, CaseFiles("kept"))' <=> HasInstr(t, CaseFiles("kept"))
    BY <2>1 DEF HasInstr
  <2>3. CASE noExec[t]
    BY <1>5, <2>1, <2>2, <2>3 DEF RemoveOutputs, OutputOK
  <2>4. CASE ~noExec[t]
    <3>1. out'[TestDir[t]] = NoFile /\ NoFile # Baseline
      BY <1>5, <2>4 DEF RemoveOutputs, TypeInv, CaseDirs, NoFile, Baseline
    <3>. QED BY <3>1 DEF OutputOK
  <2>. QED BY <2>3, <2>4
<1>6. CASE EndRun(t)
  <2>1. pc[t] # 0 /\ Instr(t).op # "delete" /\ UNCHANGED <<script, noExec, attempt>>
    BY <1>6 DEF EndRun, At, Executions
  <2>2. pc'[t] = 0 \/ Advance(t)
    BY <1>6 DEF EndRun, Exit, TypeInv
  <2>3. out' = out \/ out' = [out EXCEPT ![TestDir[t]] = Output(t)]
    BY <1>6 DEF EndRun
  <2>. QED BY <1>0, <2>1, <2>2, <2>3, OutputSame, OutputWritten
<1>. QED BY <1>1, <1>2, <1>3, <1>4, <1>5, <1>6 DEF Script

\* ... and what the other test has shown so far.
LEMMA FreshOthers ==
  ASSUME TypeInv, OwnDirectories(Programs), NEW t \in Tests, NEW u \in Tests \ {t}, Fresh(t),
         Start(u) \/ Script(u) \/ TimeOut(u)
  PROVE  Fresh(t)'
<1>1. Past(t)' <=> Past(t)
  BY OthersState DEF Past
<1>2. PerDriver(t)' <=> PerDriver(t)
  BY OthersState DEF PerDriver
<1>3. Output(t)' = Output(t) /\ Leftovers(t)' = Leftovers(t)
  <2>1. script' = script /\ attempt'[t] = attempt[t]
    BY OthersState
  <2>. QED BY <2>1 DEF Output, Leftovers, HasInstr
<1>. QED BY <1>1, <1>2, <1>3, OthersState, OthersStep DEF Fresh

\* Nothing is claimed of an attempt that failed.
LEMMA FreshEnd ==
  ASSUME TypeInv, NEW t \in Tests, NEW code, Exit(t, code), code # 0
  PROVE  Fresh(t)'
<1>1. pc'[t] = 0 /\ status'[t] = code
  BY DEF Exit, TypeInv
<1>. QED BY <1>1 DEF Fresh

\* Before the first execution there is nothing to show.
LEMMA FreshBefore ==
  ASSUME TypeInv, NEW t \in Tests, status'[t] = Running, ~Past(t)', phase'[t] # "running"
  PROVE  Fresh(t)'
BY DEF Fresh, Running

\* An attempt under way has no verdict yet.
LEMMA FreshRunning == ASSUME NEW t \in Tests, Fresh(t), pc[t] # 0 PROVE status[t] = Running
BY DEF Fresh

\* The preparation shows nothing.
LEMMA FreshPreparation ==
  ASSUME TypeInv, NEW t \in Tests, Fresh(t), pc[t] # 0, Instr(t).op \in Preparing,
         UNCHANGED <<script, status>>, Advance(t) \/ UNCHANGED pc,
         phase'[t] # "running"
  PROVE  Fresh(t)'
<1>1. ~Past(t)
  BY PastWhere
<1>2. ~Past(t)'
  BY <1>1, PastAdvance DEF Past, Preparing, Executions
<1>. QED BY <1>2, FreshRunning, FreshBefore

\* What there is to compare is the output of the attempt or was left over.
LEMMA LeftoverOrOutput ==
  ASSUME TypeInv, NEW t \in Tests, OutputOK(t), Ready(t, {"compare"}), ~noExec[t],
         out[TestDir[t]] # NoFile
  PROVE  out[TestDir[t]] = Output(t) \/ out[TestDir[t]] \in Leftovers(t)
<1>1. pc[t] # 0 /\ Instr(t).op = "compare"
  BY DEF Ready, At
<1>2. pc[t] = Len(script[t]) /\ Len(script[t]) \in Nat
  BY <1>1, InstructionOf
<1>3. HasInstr(t, DeleteOutputs) => Deleted(t)
  <2>1. SUFFICES ASSUME NEW i \in 1..Len(script[t]), script[t][i] = DeleteOutputs
                 PROVE  Deleted(t)
    BY DEF HasInstr
  <2>2. i # pc[t]
    BY <1>1, <2>1, Instructions DEF Instr
  <2>. QED BY <1>2, <2>1, <2>2 DEF Deleted
<1>4. CASE HasInstr(t, DeleteOutputs)
  BY <1>1, <1>3, <1>4 DEF OutputOK
<1>5. CASE ~HasInstr(t, DeleteOutputs)
  <2>1. CASE out[TestDir[t]] = Baseline
    BY <1>5, <2>1 DEF Leftovers, OutputOK
  <2>2. CASE out[TestDir[t]] # Baseline
    <3>1. PICK k \in 1..attempt[t] : out[TestDir[t]] = <<"output", t, k>>
      BY <2>2 DEF OutputOK
    <3>2. attempt[t] \in Nat
      BY RegressionAssumption DEF TypeInv
    <3>3. k = attempt[t] \/ k \in 1..(attempt[t] - 1)
      BY <3>1, <3>2
    <3>. QED BY <1>5, <3>1, <3>3 DEF Leftovers, Output
  <2>. QED BY <2>1, <2>2
<1>. QED BY <1>4, <1>5

\* The steps of the test itself.
LEMMA FreshSelf ==
  ASSUME TypeInv, CodesReported(ReturnCodes), NEW t \in Tests, PhaseOK(t), OutputOK(t), Fresh(t),
         Start(t) \/ Script(t) \/ TimeOut(t)
  PROVE  Fresh(t)'
<1>1. CASE Start(t)
  <2>1. pc'[t] = 1 /\ status'[t] = Running /\ phase'[t] = "ready"
    BY <1>1 DEF Start, TypeInv, PhaseOK
  <2>2. ~Past(t)'
    BY <2>1 DEF Past
  <2>. QED BY <2>1, <2>2, FreshBefore
<1>2. CASE TimeOut(t)
  BY <1>2, FreshEnd DEF TimeOut, TimedOut
<1>3. CASE CheckArguments(t)
  <2>1. pc[t] # 0 /\ Instr(t).op \in Preparing
    BY <1>3 DEF CheckArguments, Ready, At, Preparing
  <2>2. CASE rtest
    BY <1>3, <2>1, <2>2, FreshPreparation DEF CheckArguments, Advance, TypeInv
  <2>3. CASE ~rtest
    BY <1>3, <2>3, FreshEnd DEF CheckArguments
  <2>. QED BY <2>2, <2>3
<1>4. CASE CheckDirectory(t)
  BY <1>4, FreshPreparation DEF CheckDirectory, Ready, At, Preparing, Advance, TypeInv
<1>5. CASE SkipPart(t) \/ \E p \in Parts : BeginPart(t, p)
  BY <1>5, FreshPreparation DEF SkipPart, BeginPart, At, Preparing, TypeInv
<1>6. CASE \E p \in Parts : EndPart(t, p)
  <2>1. pc[t] # 0 /\ Instr(t).op \in {"copy", "case"}
    BY <1>6 DEF EndPart, At
  <2>2. phase[t] # "running"
    BY <2>1 DEF PhaseOK, Executions
  <2>. QED BY <1>6, <2>1, <2>2, FreshPreparation DEF EndPart, Preparing
<1>7. CASE EndCopy(t) \/ RemoveOutputs(t)
  BY <1>7, FreshPreparation DEF EndCopy, RemoveOutputs, Ready, At, Preparing, Advance, TypeInv
<1>8. CASE SkipRun(t)
  <2>1. noExec'[t] /\ status'[t] = Running 
    BY <1>8, FreshRunning DEF SkipRun, Ready, At, TypeInv
  <2>. QED BY <2>1 DEF Fresh
<1>9. CASE BeginRun(t)
  <2>1. pc[t] # 0 /\ Instr(t).op \in Executions /\ status[t] = Running
    BY <1>9, FreshRunning DEF BeginRun, Ready, At
  <2>2. /\ seen'[t].torn = seen[t].torn \cup {d \in ReadBy(t) : ~Whole(d)}
        /\ seen'[t].silent = seen[t].silent
    BY <1>9 DEF BeginRun, TypeInv, Sight
  <2>3. TestDir[t] \in ReadBy(t)
    BY DEF ReadBy
  <2>4. /\ PerDriver(t)' <=> PerDriver(t)
        /\ Output(t)' = Output(t)
        /\ Whole(TestDir[t])' <=> Whole(TestDir[t])
    BY <1>9 DEF BeginRun, PerDriver, Output, Whole, WholePart
  <2>5. CASE phase' = [phase EXCEPT ![t] = "running"] /\ UNCHANGED <<pc, status>>
    <3>1. Past(t)' <=> Past(t)
      BY <1>9, <2>5 DEF BeginRun, Past
    <3>. QED BY <1>9, <2>1, <2>2, <2>3, <2>4, <2>5, <3>1 DEF Fresh, BeginRun, Running
  <2>6. CASE Instr(t).op = "each" /\ Advance(t) /\ UNCHANGED status /\ ~Whole(TestDir[t])
    <3>1. PerDriver(t) /\ TestDir[t] \in seen'[t].torn
      BY <2>1, <2>2, <2>3, <2>6, InstructionOf DEF PerDriver, Instr
    <3>. QED BY <2>1, <2>4, <2>6, <3>1 DEF Fresh, Running
  <2>7. CASE Exit(t, 1)
    BY <2>7, FreshEnd
  <2>. QED BY <1>9, <2>5, <2>6, <2>7 DEF BeginRun
<1>10. CASE EndRun(t)
  <2>0. pc[t] # 0 /\ phase[t] = "running" /\ Instr(t).op \in Executions /\ status[t] = Running
    BY <1>10, FreshRunning DEF EndRun, At
  <2>1. PICK rc \in ReturnCodes, written \in BOOLEAN :
       /\ out' = IF written THEN [out EXCEPT ![TestDir[t]] = Output(t)] ELSE out
       /\ seen' = [seen EXCEPT ![t].silent = @ \/ (rc = 0 /\ ~written)]
       /\ IF rc = 0 \/ Instr(t).op = "each"
          THEN Advance(t) /\ UNCHANGED status
          ELSE Exit(t, ExitStatus(Instr(t).scale, rc))
       /\ errors' = [errors EXCEPT ![t] = @ \/ rc # 0]
    BY <1>10 DEF EndRun
  <2>2. CASE rc = 0 \/ Instr(t).op = "each"
    <3>1. errors'[t] \/ out'[TestDir[t]] = Output(t) \/ seen'[t].silent
      BY <2>1, <2>2 DEF TypeInv, CaseDirs, Sight
    <3>2. Output(t)' = Output(t) /\ (PerDriver(t)' <=> PerDriver(t))
      BY <1>10 DEF EndRun, Output, PerDriver
    <3>3. PerDriver(t) /\ ~noExec[t] => TestDir[t] \in seen[t].torn \/ Whole(TestDir[t])
      BY <2>0 DEF Fresh
    <3>4. Whole(TestDir[t])' <=> Whole(TestDir[t])
      BY <1>10 DEF EndRun, Whole, WholePart
    <3>5. status'[t] = Running /\ seen'[t].torn = seen[t].torn /\ noExec' = noExec
      BY <1>10, <2>0, <2>1, <2>2 DEF EndRun, TypeInv, Sight
    <3>. QED BY <3>1, <3>2, <3>3, <3>4, <3>5 DEF Fresh, Running
  <2>3. CASE rc # 0 /\ Instr(t).op # "each"
    <3>1. Instr(t).scale \in {0, 10}
      BY <2>0, InstructionOf DEF Instruction, Executions
    <3>2. Exit(t, ExitStatus(Instr(t).scale, rc)) /\ ExitStatus(Instr(t).scale, rc) # 0
      BY <2>1, <2>3, <3>1, ExitReports
    <3>. QED BY <3>2, FreshEnd
  <2>. QED BY <2>2, <2>3
<1>11. CASE CompareOutput(t)
  <2>0. pc[t] # 0 /\ Past(t)
    BY <1>11, PastWhere DEF CompareOutput, Ready, At
  <2>1. noExec' = noExec /\ Output(t)' = Output(t) /\ (PerDriver(t)' <=> PerDriver(t))
    BY <1>11 DEF CompareOutput, Output, PerDriver
  <2>2. pc'[t] = 0
    BY <1>11 DEF CompareOutput, Exit, TypeInv
  <2>3. /\ seen'[t].torn = seen[t].torn /\ seen'[t].silent = seen[t].silent
        /\ Leftovers(t)' = Leftovers(t)
    BY <1>11 DEF CompareOutput, TypeInv, Sight, Leftovers, HasInstr
  <2>4. SUFFICES ASSUME status'[t] = 0, ~noExec[t]
                 PROVE  \/ seen'[t].compared = {Output(t)}
                        \/ seen[t].silent /\ \E o \in Leftovers(t) : seen'[t].compared = {o}
                        \/ PerDriver(t) /\ TestDir[t] \in seen[t].torn
    BY <2>1, <2>2, <2>3 DEF Fresh
  <2>5. CASE /\ ~errors[t] /\ out[TestDir[t]] # NoFile
             /\ seen' = [seen EXCEPT ![t].compared = {out[TestDir[t]]}]
    <3>1. \/ out[TestDir[t]] = Output(t) \/ seen[t].silent
          \/ PerDriver(t) /\ TestDir[t] \in seen[t].torn
      BY <2>0, <2>4, <2>5 DEF Fresh
    <3>2. seen'[t].compared = {out[TestDir[t]]}
      BY <2>5 DEF TypeInv, Sight
    <3>3. out[TestDir[t]] = Output(t) \/ out[TestDir[t]] \in Leftovers(t)
      BY <1>11, <2>0, <2>4, <2>5, LeftoverOrOutput DEF CompareOutput, Ready, At
    <3>. QED BY <3>1, <3>2, <3>3
  <2>6. CASE ~errors[t] /\ PerDriver(t) /\ ~Whole(TestDir[t]) /\ UNCHANGED seen
    BY <2>0, <2>4, <2>6 DEF Fresh
  <2>7. ASSUME NEW code, Exit(t, code)
        PROVE  code = 0
    BY <2>4, <2>7 DEF Exit, TypeInv
  <2>. QED BY <1>11, <2>5, <2>6, <2>7 DEF CompareOutput
<1>. QED BY <1>1, <1>2, <1>3, <1>4, <1>5, <1>6, <1>7, <1>8, <1>9, <1>10, <1>11 DEF Script

(***************************************************************************)
(* A test that executes and passes has compared what its own attempt has   *)
(* written, or what a silent execution has left in its place, if the tests *)
(* have directories of their own and no return code is lost.  What can be  *)
(* left is the copied baseline and the output of an earlier attempt, and   *)
(* nothing where the script deletes the outputs just before it executes.   *)
(* With a lost return code a test would pass having compared nothing new.  *)
(***************************************************************************)
THEOREM PassesAreFresh ==
  ASSUME OwnDirectories(Programs), CodesReported(ReturnCodes)
  PROVE  Spec => []PassIsFresh
<1> DEFINE FreshInv == \A t \in Tests : Fresh(t) /\ OutputOK(t)
<1>1. Init => FreshInv
  <2>. SUFFICES ASSUME Init, NEW t \in Tests PROVE Fresh(t) /\ OutputOK(t)
    OBVIOUS
  <2>1. out[TestDir[t]] = NoFile /\ pc[t] = 0 /\ status[t] = NotRun
    BY DEF Init
  <2>2. NoFile # Baseline
    BY DEF NoFile, Baseline
  <2>3. status[t] # 0
    BY <2>1 DEF NotRun
  <2>. QED BY <2>1, <2>2, <2>3 DEF Fresh, OutputOK
<1>2. TypeInv /\ PhaseInv /\ FreshInv /\ [Next]_vars => FreshInv'
  <2> SUFFICES ASSUME TypeInv, PhaseInv, FreshInv, [Next]_vars, NEW t \in Tests
               PROVE  Fresh(t)' /\ OutputOK(t)'
    OBVIOUS
  <2>1. ASSUME NEW u \in Tests, Start(u) \/ Script(u) \/ TimeOut(u)
        PROVE  Fresh(t)' /\ OutputOK(t)'
    <3>1. CASE u = t
      BY <2>1, <3>1, FreshSelf, OutputSelf DEF PhaseInv
    <3>2. CASE u # t
      BY <2>1, <3>2, FreshOthers, OutputOthers
    <3>. QED BY <3>1, <3>2
  <2>2. CASE UNCHANGED vars
    BY <2>2 DEF vars, Fresh, OutputOK, Deleted, Leftovers, HasInstr, Past, Output, PerDriver, Whole, WholePart
  <2>. QED BY <2>1, <2>2 DEF Next
<1>3. FreshInv => PassIsFresh
  BY DEF Fresh, PassIsFresh
<1>. QED BY <1>1, <1>2, <1>3, TypeAlways, PhaseAlways, PTL DEF Spec
=============================================================================
