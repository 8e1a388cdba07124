--------------------------- MODULE RegressionCase ---------------------------
(***************************************************************************)
(* Tests that ctest runs side by side in one build tree.  Each test runs a *)
(* program of RegressionScripts; they share the directories of turbine     *)
(* data, and the tree outlives them: a test that is run again finds what   *)
(* earlier ones left.  A directory is a plain file and a sub-directory; a  *)
(* copy of either takes two steps, between which its contents are torn.    *)
(***************************************************************************)
EXTENDS RegressionScripts, FiniteSets

CONSTANTS Tests,        \* the tests that ctest may run at the same time
          Programs,     \* the assignments of scripts to tests to consider
          TestDir,      \* TestDir[t]: the directory of the case of test t
          Configured,   \* shared directories the configure step has copied
          ReturnCodes,  \* what the programs under test may return
          MaxAttempts,  \* MaxAttempts[p]: how often ctest runs each test of p
          MaxKills      \* how many tests ctest may time out

ASSUME RegressionAssumption ==
  /\ Programs \subseteq [Tests -> Scripts \cup {<<>>}]
  /\ ReturnCodes \subseteq Int
  /\ MaxAttempts \in [Programs -> Nat] /\ MaxKills \in Nat

VARIABLES script,   \* script[t]: the program of test t
          rtest,    \* whether the submodule with the test data is initialised
          noExec,   \* noExec[t]: the option of the attempt under way
          pc,       \* pc[t]: the instruction of t, 0 when no attempt is under way
          phase,    \* phase[t]: where t is within its instruction
          todo,     \* todo[t]: the parts of a directory t still has to copy
          tree,     \* tree[d]: the parts of directory d of the build tree
          out,      \* out[d]: the output to be compared in the case directory d
          errors,   \* errors[t]: whether the script has noted an error
          attempt,  \* attempt[t]: how often t has been run
          seen,     \* seen[t]: what the attempt has read and compared
          status,   \* status[t]: how the last attempt ended
          kills,    \* how many tests have timed out
          cut       \* the directories whose copy a timeout has cut short

vars == <<script, rtest, noExec, pc, phase, todo, tree, out, errors, attempt,
          seen, status, kills, cut>>

Parts == {"file", "sub"}
NoFile == <<"no file">>
Baseline == <<"baseline">>
Output(t) == <<"output", t, attempt[t]>>

\* Exit statuses of an attempt that has none yet, or was ended from outside.
NotRun == -1
Running == -2
TimedOut == -3

SharedIn(s) == {s[i].dir : i \in {j \in 1..Len(s) : s[j].op = "copy"}}
Dirs == UNION {SharedIn(script[t]) \cup {TestDir[t]} : t \in Tests}

Instr(t) == script[t][pc[t]]
Target(t) == IF Instr(t).op = "case" THEN TestDir[t] ELSE Instr(t).dir
\* What the program under test reads when it starts.
ReadBy(t) == SharedIn(script[t]) \cup {TestDir[t]}

Exists(d) == \E p \in Parts : tree[d][p].made
WholePart(d, p) == tree[d][p].whole /\ tree[d][p].writers = {}
Whole(d) == \A p \in Parts : WholePart(d, p)

Present == [made |-> TRUE, writers |-> {}, whole |-> TRUE]
Missing == [made |-> FALSE, writers |-> {}, whole |-> FALSE]
Unseen == [torn |-> {}, silent |-> FALSE, compared |-> {}]

Init ==
  /\ script \in Programs
  /\ rtest \in BOOLEAN
  /\ noExec = [t \in Tests |-> FALSE]
  /\ pc = [t \in Tests |-> 0]
  /\ phase = [t \in Tests |-> "ready"]
  /\ todo = [t \in Tests |-> {}]
  /\ tree = [d \in Dirs |-> [p \in Parts |-> IF d \in Configured THEN Present ELSE Missing]]
  /\ out = [d \in {TestDir[t] : t \in Tests} |-> NoFile]
  /\ errors = [t \in Tests |-> FALSE]
  /\ attempt = [t \in Tests |-> 0]
  /\ seen = [t \in Tests |-> Unseen]
  /\ status = [t \in Tests |-> NotRun]
  /\ kills = 0
  /\ cut = {}

-----------------------------------------------------------------------------

Advance(t) == pc' = [pc EXCEPT ![t] = @ + 1] /\ phase' = [phase EXCEPT ![t] = "ready"]

Exit(t, code) ==
  /\ pc' = [pc EXCEPT ![t] = 0]
  /\ phase' = [phase EXCEPT ![t] = "ready"]
  /\ status' = [status EXCEPT ![t] = code]

At(t, op) == pc[t] # 0 /\ Instr(t).op \in op
Ready(t, op) == At(t, op) /\ phase[t] = "ready"

\* ctest, or a user, runs the test.
Start(t) ==
  /\ pc[t] = 0
  /\ script[t] # <<>>
  /\ attempt[t] < MaxAttempts[script]
  /\ pc' = [pc EXCEPT ![t] = 1]
  /\ attempt' = [attempt EXCEPT ![t] = @ + 1]
  /\ \E n \in BOOLEAN : noExec' = [noExec EXCEPT ![t] = n]
  /\ errors' = [errors EXCEPT ![t] = FALSE]
  /\ seen' = [seen EXCEPT ![t] = Unseen]
  /\ status' = [status EXCEPT ![t] = Running]
  /\ UNCHANGED <<script, rtest, phase, todo, tree, out, kills, cut>>

\* The executable, the repository and the test data are there, or it ends.
CheckArguments(t) ==
  /\ Ready(t, {"validate"})
  /\ IF rtest THEN Advance(t) /\ UNCHANGED status ELSE Exit(t, 1)
  /\ UNCHANGED <<script, rtest, noExec, todo, tree, out, errors, attempt, seen, kills, cut>>

\* Look for the directory; what follows trusts the answer.
CheckDirectory_again(t) ==
  /\ Ready(t, {"copy", "case"})
  /\ IF Exists(Target(t)) /\ Instr(t).op = "case"
     THEN Advance(t) /\ UNCHANGED todo
     ELSE /\ phase' = [phase EXCEPT ![t] = IF Exists(Target(t)) THEN "merging" ELSE "copying"]
          /\ todo' = [todo EXCEPT ![t] = Parts]
          /\ UNCHANGED pc
  /\ UNCHANGED <<script, rtest, noExec, tree, out, errors, attempt, seen, status, kills, cut>>
CheckDirectory(t) ==
  /\ Ready(t, {"copy", "case"})
  /\ IF Exists(Target(t)) /\ (Instr(t).op = "case" \/ ~Instr(t).merge)
     THEN Advance(t) /\ UNCHANGED todo
     ELSE /\ phase' = [phase EXCEPT ![t] = IF Exists(Target(t)) THEN "merging" ELSE "copying"]
          /\ todo' = [todo EXCEPT ![t] = Parts]
          /\ UNCHANGED pc
  /\ UNCHANGED <<script, rtest, noExec, tree, out, errors, attempt, seen, status, kills, cut>>

Writing(t) == \E p \in Parts : t \in tree[Target(t)][p].writers

\* A merge passes over a sub-directory that is there.
SkipPart(t) ==
  /\ At(t, {"copy"})
  /\ phase[t] = "merging"
  /\ ~Writing(t)
  /\ "sub" \in todo[t] /\ tree[Target(t)]["sub"].made
  /\ todo' = [todo EXCEPT ![t] = @ \ {"sub"}]
  /\ UNCHANGED <<script, rtest, noExec, pc, phase, tree, out, errors, attempt, seen,
                 status, kills, cut>>

\* Open the destination for writing, which empties it.
BeginPart(t, p) ==
  /\ At(t, {"copy", "case"})
  /\ phase[t] \in {"copying", "merging"}
  /\ ~Writing(t)
  /\ p \in todo[t]
  /\ phase[t] = "merging" /\ p = "sub" => ~tree[Target(t)][p].made
  /\ tree' = [tree EXCEPT ![Target(t)][p] =
                [made |-> TRUE, writers |-> @.writers \cup {t}, whole |-> FALSE]]
  /\ UNCHANGED <<script, rtest, noExec, pc, phase, todo, out, errors, attempt, seen,
                 status, kills, cut>>

\* The last writer of a part leaves it whole.
EndPart_again(t, p) ==
  /\ At(t, {"copy", "case"})
  /\ t \in tree[Target(t)][p].writers
  /\ tree' = [tree EXCEPT ![Target(t)][p].writers = @ \ {t}]
  /\ UNCHANGED <<script, rtest, noExec, pc, phase, todo, out, errors, attempt, seen,
                 status, kills, cut>>
EndPart(t, p) ==
  /\ At(t, {"copy", "case"})
  /\ t \in tree[Target(t)][p].writers
  /\ tree' = [tree EXCEPT ![Target(t)][p] =
                [made |-> TRUE, writers |-> @.writers \ {t}, whole |-> @.writers = {t}]]
  /\ todo' = [todo EXCEPT ![t] = @ \ {p}]
  /\ UNCHANGED <<script, rtest, noExec, pc, phase, out, errors, attempt, seen, status, kills, cut>>

\* The files of the case may hold the baseline under the name of the output.
EndCopy(t) ==
  /\ At(t, {"copy", "case"})
  /\ phase[t] \in {"copying", "merging"}
  /\ todo[t] = {}
  /\ Advance(t)
  /\ out' = IF Instr(t).op = "case" /\ Instr(t).baseline = "kept"
            THEN [out EXCEPT ![TestDir[t]] = Baseline] ELSE out
  /\ UNCHANGED <<script, rtest, noExec, todo, tree, errors, attempt, seen, status, kills, cut>>

\* Only before a run.
RemoveOutputs(t) ==
  /\ Ready(t, {"delete"})
  /\ Advance(t)
  /\ out' = IF noExec[t] THEN out ELSE [out EXCEPT ![TestDir[t]] = NoFile]
  /\ UNCHANGED <<script, rtest, noExec, todo, tree, errors, attempt, seen, status, kills, cut>>

Executions == {"run", "each", "library", "restart"}

\* The option that prevents execution; a restart does not ask for it.
SkipRun_always(t) ==
  /\ Ready(t, Executions \ {"restart"})
  /\ Advance(t)
  /\ UNCHANGED <<script, rtest, noExec, todo, tree, out, errors, attempt, seen, status, kills, cut>>
SkipRun(t) ==
  /\ Ready(t, Executions \ {"restart"})
  /\ noExec[t]
  /\ Advance(t)
  /\ UNCHANGED <<script, rtest, noExec, todo, tree, out, errors, attempt, seen, status, kills, cut>>

\* The input file of the case is looked up, and the program reads its inputs.
\* In a torn directory the input file may be missing: that ends a script, except
\* the one that runs whatever driver files it finds.
BeginRun(t) ==
  /\ Ready(t, Executions)
  /\ noExec[t] => Instr(t).op = "restart"
  /\ seen' = [seen EXCEPT ![t].torn = @ \cup {d \in ReadBy(t) : ~Whole(d)}]
  /\ \/ /\ phase' = [phase EXCEPT ![t] = "running"]
        /\ UNCHANGED <<pc, status>>
     \/ /\ ~Whole(TestDir[t])
        /\ IF Instr(t).op = "each" THEN Advance(t) /\ UNCHANGED status ELSE Exit(t, 1)
  /\ UNCHANGED <<script, rtest, noExec, todo, tree, out, errors, attempt, kills, cut>>

\* The program returns.  The scripts look at the return code alone: a program that
\* succeeds has written its outputs or has been silent, and one that fails may have
\* written them.  Only the library hands its outputs over when it returns.
EndRun(t) ==
  /\ At(t, Executions)
  /\ phase[t] = "running"
  /\ \E rc \in ReturnCodes, written \in BOOLEAN :
       /\ rc = 0 /\ Instr(t).op = "library" => written
       /\ out' = IF written THEN [out EXCEPT ![TestDir[t]] = Output(t)] ELSE out
       /\ seen' = [seen EXCEPT ![t].silent = @ \/ (rc = 0 /\ ~written)]
       /\ IF rc = 0 \/ Instr(t).op = "each"
          THEN Advance(t) /\ UNCHANGED status
          ELSE Exit(t, ExitStatus(Instr(t).scale, rc))
       /\ errors' = [errors EXCEPT ![t] = @ \/ rc # 0]
  /\ UNCHANGED <<script, rtest, noExec, todo, tree, attempt, kills, cut>>

InMemory(t) == \E i \in 1..Len(script[t]) : script[t][i].op = "library"
PerDriver(t) == \E i \in 1..Len(script[t]) : script[t][i].op = "each"

\* The output must exist; it equals the baseline within the tolerances, or not.
\* A copy of the baseline does.  The script of the Python interface compares the
\* arrays of the run, which do not exist when nothing was run.  The script that
\* runs several drivers may have found none, and then compares nothing.
CompareOutput(t) ==
  /\ Ready(t, {"compare"})
  /\ LET o == out[TestDir[t]] IN
     \/ /\ o # NoFile /\ ~(InMemory(t) /\ noExec[t])
        /\ seen' = [seen EXCEPT ![t].compared = {o}]
        /\ \E close \in BOOLEAN :
             /\ o = Baseline => close
             /\ Exit(t, IF close /\ ~errors[t] THEN 0 ELSE 1)
     \/ /\ o = NoFile \/ (InMemory(t) /\ noExec[t])
        /\ Exit(t, 1)
        /\ UNCHANGED seen
     \/ /\ PerDriver(t) /\ ~Whole(TestDir[t])
        /\ Exit(t, IF errors[t] THEN 1 ELSE 0)
        /\ UNCHANGED seen
  /\ UNCHANGED <<script, rtest, noExec, todo, tree, out, errors, attempt, kills, cut>>

\* ctest's TIMEOUT ends the script and the program it has started.
TimeOut(t) ==
  /\ pc[t] # 0
  /\ kills < MaxKills
  /\ kills' = kills + 1
  /\ cut' = IF At(t, {"copy", "case"}) /\ phase[t] # "ready" THEN cut \cup {Target(t)} ELSE cut
  /\ Exit(t, TimedOut)
  /\ todo' = [todo EXCEPT ![t] = {}]
  /\ tree' = [d \in Dirs |-> [p \in Parts |-> [tree[d][p] EXCEPT !.writers = @ \ {t}]]]
  /\ out' \in {out} \cup (IF phase[t] = "running"
                          THEN {[out EXCEPT ![TestDir[t]] = Output(t)]} ELSE {})
  /\ UNCHANGED <<script, rtest, noExec, errors, attempt, seen>>

Script(t) ==
  \/ CheckArguments(t) \/ CheckDirectory(t) \/ SkipPart(t)
  \/ \E p \in Parts : BeginPart(t, p) \/ EndPart(t, p)
  \/ EndCopy(t) \/ RemoveOutputs(t) \/ SkipRun(t) \/ BeginRun(t) \/ EndRun(t)
  \/ CompareOutput(t)

Next == \E t \in Tests : Start(t) \/ Script(t) \/ TimeOut(t)

Spec == Init /\ [][Next]_vars

\* Scripts and programs run on their own processors; only ctest decides on
\* starting and timing out.
FairSpec == Spec /\ \A t \in Tests : WF_vars(Script(t))

-----------------------------------------------------------------------------

\* The values of the variables; an exit status fits in eight bits whatever the
\* program returned.
TypeOK ==
  /\ script \in Programs
  /\ rtest \in BOOLEAN
  /\ noExec \in [Tests -> BOOLEAN]
  /\ \A t \in Tests : pc[t] \in 0..Len(script[t])
  /\ phase \in [Tests -> {"ready", "copying", "merging", "running"}]
  /\ todo \in [Tests -> SUBSET Parts]
  /\ tree \in [Dirs -> [Parts -> [made : BOOLEAN, writers : SUBSET Tests, whole : BOOLEAN]]]
  /\ \A t \in Tests : out[TestDir[t]] \in
       {NoFile, Baseline} \cup ({"output"} \X Tests \X Nat)
  /\ errors \in [Tests -> BOOLEAN]
  /\ attempt \in [Tests -> Nat]
  /\ \A t \in Tests : seen[t].torn \subseteq Dirs /\ seen[t].silent \in BOOLEAN
  /\ \A t \in Tests : status[t] \in {NotRun, Running, TimedOut} \cup 0..255
  /\ kills \in 0..MaxKills
  /\ cut \subseteq Dirs

\* Every test has a directory of its own, which no script copies for its data.
OwnDirectories(programs) ==
  \A t, u \in Tests :
    /\ t # u => TestDir[t] # TestDir[u]
    /\ \A program \in programs : TestDir[t] \notin SharedIn(program[u])

\* What an execution that writes nothing leaves to be compared: the copied baseline,
\* or the output of an earlier attempt, unless the script deletes the outputs first.
HasInstr(t, instr) == \E i \in 1..Len(script[t]) : script[t][i] = instr
Leftovers(t) ==
  IF HasInstr(t, DeleteOutputs) THEN {}
  ELSE {o \in {Baseline} : HasInstr(t, CaseFiles("kept"))}
       \cup {<<"output", t, k>> : k \in 1..(attempt[t] - 1)}

(***************************************************************************)
(* A test that executes and passes has compared what its own attempt has   *)
(* written.  There are two ways out: a program that reports success and    *)
(* writes nothing leaves the baseline that some scripts copy under the     *)
(* same name, or the output of an earlier attempt, which all scripts but   *)
(* one leave in place; and the script of the unsteady aerodynamics passes  *)
(* without comparing anything when it finds no driver file in its torn     *)
(* directory.                                                              *)
(***************************************************************************)
PassIsFresh ==
  \A t \in Tests :
    status[t] = 0 /\ ~noExec[t] =>
      \/ seen[t].compared = {Output(t)}
      \/ seen[t].silent /\ \E o \in Leftovers(t) : seen[t].compared = {o}
      \/ PerDriver(t) /\ TestDir[t] \in seen[t].torn

\* What a script copies into a directory that is there.
MergedIn(s) == {s[i].dir : i \in {j \in 1..Len(s) : s[j].op = "copy" /\ s[j].merge}}
\* Two tests read the directory, and the configure step has not copied it or one of
\* the two merges into it.
Contested(d) ==
  \E t, u \in Tests :
    /\ t # u
    /\ d \in ReadBy(t) \cap ReadBy(u)
    /\ d \in Configured => d \in MergedIn(script[t])

(***************************************************************************)
(* What a program finds torn when it starts is a directory that two tests  *)
(* contest or one that a timeout has left half copied.  Without a timeout  *)
(* neither a directory of its own nor shared data that the configure step  *)
(* has filled, and nobody merges into, are torn: both are only looked up,  *)
(* without a lock.                                                         *)
(***************************************************************************)
InputsWhole ==
  \A t \in Tests : seen[t].torn \subseteq {d \in Dirs : Contested(d)} \cup cut

\* No program returns a code that is lost: of ten times 128, or a multiple of it,
\* eight bits are all zero.
CodesReported(codes) == \A rc \in codes \ {0} : rc % 128 # 0

(***************************************************************************)
(* A failed execution is reported, by the exit status of a script that     *)
(* stops or by the one that notes errors and goes on.                      *)
(***************************************************************************)
FailureReported == \A t \in Tests : errors[t] /\ pc[t] = 0 => status[t] # 0

(***************************************************************************)
(* Every attempt ends, with a verdict or by the timeout: no script waits   *)
(* for another one, and none copies for ever.                              *)
(***************************************************************************)
EveryAttemptEnds == \A t \in Tests : (status[t] = Running) ~> (status[t] # Running)

(***************************************************************************)
(* "Run all tests with N tests executing in parallel": that the tests are  *)
(* independent of each other, so that each executes on whole inputs.       *)
(***************************************************************************)
TestsAreIndependent == \A t \in Tests : seen[t].torn = {}
=============================================================================
