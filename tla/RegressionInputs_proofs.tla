----------------------- MODULE RegressionInputs_proofs -----------------------
(***************************************************************************)
(* The directories that the programs of RegressionCase read.  A directory  *)
(* that no two tests contest, and that no timeout has left half copied, is *)
(* copied by one test at a time and read by no other one meanwhile: it is  *)
(* the test's own, or the configure step has filled it and nobody else     *)
(* merges into it.  So nothing else is found torn.                         *)
(***************************************************************************)
EXTENDS RegressionCase_proofs

\* The test is between looking for a directory and the end of its copy.
Copies(t) == pc[t] # 0 /\ phase[t] \in {"copying", "merging"}
\* Nobody copies the directory.
Idle(d) == \A t \in Tests : Copies(t) => Target(t) # d
\* The directories the theorem is about.
Undisturbed(d) == ~Contested(d) /\ d \notin cut

\* A directory that nobody copies is not written to, and whole if it is there.
DirOK(d) ==
  Idle(d) => \A p \in Parts : tree[d][p].writers = {} /\ (Exists(d) => tree[d][p].whole)
\* So for the undisturbed ones.
DirsOK == \A d \in Dirs : Undisturbed(d) => DirOK(d)

\* Only t writes to d; the parts it has copied or passed over are whole, and so
\* is, in a merge, what it has not begun to overwrite.
PartsOK(t, d) ==
  \A p \in Parts :
    /\ tree[d][p].writers \subseteq {t}
    /\ p \notin todo[t] => tree[d][p].made /\ WholePart(d, p)
    /\ phase[t] = "merging" /\ tree[d][p].writers = {} => tree[d][p].whole

\* A copy fills a directory that was missing; a merge is one of the script.
CopyOK(t) ==
  Copies(t) =>
    /\ phase[t] = "copying" => Target(t) \notin Configured
    /\ phase[t] = "merging" => Instr(t).op = "copy" /\ Instr(t).merge
    /\ Undisturbed(Target(t)) => PartsOK(t, Target(t))
\* So for every test.
CopiesOK == \A t \in Tests : CopyOK(t)

\* An undisturbed directory is there once it has been looked for.
Found(d) == Undisturbed(d) => Exists(d)
\* The test has found nothing undisturbed torn, and found what it has looked for.
SawOK(t) ==
  /\ \A d \in seen[t].torn : ~Undisturbed(d)
  /\ \A i \in 1..(pc[t] - 1) :
       /\ script[t][i].op = "copy" => Found(script[t][i].dir)
       /\ script[t][i].op = "case" => Found(TestDir[t])

\* The inductive invariant.
CopyInv ==
  /\ DirsOK /\ CopiesOK
  /\ \A d \in Dirs \cap Configured : Exists(d)
  /\ \A t \in Tests : SawOK(t)

\* What is copied is a directory the test reads.
LEMMA CopiesAt ==
  ASSUME TypeInv, PhaseInv, NEW t \in Tests, Copies(t)
  PROVE  /\ At(t, {"copy", "case"}) /\ Target(t) \in Dirs /\ Target(t) \in ReadBy(t)
         /\ Instr(t).op = "copy" /\ Instr(t).merge => Target(t) \in MergedIn(script[t])
<1>1. At(t, {"copy", "case"})
  BY DEF Copies, PhaseInv, PhaseOK, At
<1>2. pc[t] \in 1..Len(script[t])
  BY InstructionOf DEF Copies
<1>3. Target(t) \in ReadBy(t)
  BY <1>1, <1>2 DEF At, Target, ReadBy, SharedIn, Instr
<1>4. Instr(t).op = "copy" /\ Instr(t).merge => Target(t) \in MergedIn(script[t])
  BY <1>1, <1>2 DEF Target, MergedIn, Instr
<1>. QED BY <1>1, <1>3, <1>4, TargetInDirs

\* No other test reads what a test copies, unless they contest it.
LEMMA NobodyElseReads ==
  ASSUME TypeInv, PhaseInv, NEW t \in Tests, NEW u \in Tests \ {t}, Copies(t), CopyOK(t),
         Undisturbed(Target(t))
  PROVE  Target(t) \notin ReadBy(u)
<1>. SUFFICES ASSUME Target(t) \in ReadBy(u) PROVE FALSE
  OBVIOUS
<1>1. Target(t) \in ReadBy(t) \cap ReadBy(u)
  BY CopiesAt
<1>2. Target(t) \in Configured => Target(t) \in MergedIn(script[t])
  BY CopiesAt DEF Copies, CopyOK
<1>. QED BY <1>1, <1>2 DEF Undisturbed, Contested

\* The scripts do not change, and what was cut short stays so.
LEMMA NextScript == [Next]_vars => script' = script /\ cut \subseteq cut'
BY DEF Next, Script, vars, Start, CheckArguments, CheckDirectory, SkipPart, BeginPart, EndPart,
  EndCopy, RemoveOutputs, SkipRun, BeginRun, EndRun, CompareOutput, TimeOut

\* No directory becomes undisturbed again.
LEMMA UndisturbedBefore ==
  ASSUME UNCHANGED script, cut \subseteq cut'
  PROVE  \A d : Undisturbed(d)' => Undisturbed(d)
<1>1. \A d : Contested(d)' <=> Contested(d)
  BY DEF Contested, ReadBy, SharedIn, MergedIn
<1>. QED BY <1>1 DEF Undisturbed

\* Only a timeout disturbs one.
LEMMA UndisturbedSame ==
  ASSUME NEW t \in Tests, Start(t) \/ Script(t)
  PROVE  UNCHANGED <<script, cut>> /\ \A d : Undisturbed(d)' <=> Undisturbed(d)
<1>1. UNCHANGED <<script, cut>>
  BY DEF Script, Start, CheckArguments, CheckDirectory, SkipPart, BeginPart, EndPart,
     EndCopy, RemoveOutputs, SkipRun, BeginRun, EndRun, CompareOutput
<1>2. \A d : Contested(d)' <=> Contested(d)
  BY <1>1 DEF Contested, ReadBy, SharedIn, MergedIn
<1>. QED BY <1>1, <1>2 DEF Undisturbed

\* Nothing is removed from the tree.
LEMMA ExistsStays ==
  ASSUME TypeInv, [Next]_vars
  PROVE  Dirs' = Dirs /\ \A d \in Dirs : Exists(d) => Exists(d)'
<1>1. script' = script
  BY NextScript
<1>2. ASSUME NEW d \in Dirs, NEW p \in Parts, tree[d][p].made
      PROVE  tree'[d][p].made
  <2>1. ASSUME NEW t \in Tests, NEW q \in Parts, BeginPart(t, q) \/ EndPart(t, q)
        PROVE  tree'[d][p].made
    <3>1. PICK f \in Dirs : f = Target(t)
      BY <2>1, TargetInDirs DEF BeginPart, EndPart
    <3>2. CASE BeginPart(t, q)
      BY <1>2, <3>1, <3>2 DEF BeginPart, TypeInv
    <3>3. CASE EndPart(t, q)
      BY <1>2, <3>1, <3>3 DEF EndPart, TypeInv
    <3>. QED BY <2>1, <3>2, <3>3
  <2>2. ASSUME NEW t \in Tests, TimeOut(t)
        PROVE  tree'[d][p].made
    <3>1. PICK c \in Cell : c = tree[d][p]
      BY DEF TypeInv
    <3>2. tree'[d][p] = [c EXCEPT !.writers = @ \ {t}]
      BY <2>2, <3>1 DEF TimeOut
    <3>. QED BY <1>2, <3>1, <3>2 DEF Cell
  <2>3. CASE UNCHANGED tree
    BY <1>2, <2>3
  <2>. QED BY <2>1, <2>2, <2>3 DEF Next, Script, vars, Start, CheckArguments, CheckDirectory, SkipPart,
       EndCopy, RemoveOutputs, SkipRun, BeginRun, EndRun, CompareOutput
<1>. QED BY <1>1, <1>2 DEF Dirs, SharedIn, Exists

\* What has been found is there after any step.
LEMMA FoundStays ==
  ASSUME TypeInv, [Next]_vars, NEW d \in Dirs, Found(d)
  PROVE  Found(d)'
BY NextScript, UndisturbedBefore, ExistsStays DEF Found

\* SawOK after a step that does not go to another instruction,
LEMMA SawSame ==
  ASSUME TypeInv, [Next]_vars, NEW t \in Tests, SawOK(t),
         \A d \in seen'[t].torn : d \in seen[t].torn \/ ~Undisturbed(d),
         pc'[t] \in {pc[t], 0, 1}
  PROVE  SawOK(t)'
<1>1. script' = script /\ pc[t] \in Nat
  BY NextScript DEF TypeInv
<1>2. pc'[t] \in {pc[t], 0, 1}
  OBVIOUS
<1>3. \A d \in seen'[t].torn : ~Undisturbed(d)'
  BY NextScript, UndisturbedBefore DEF SawOK
<1>4. SUFFICES ASSUME NEW i \in 1..(pc[t] - 1)
               PROVE  /\ script[t][i].op = "copy" => Found(script[t][i].dir)'
                      /\ script[t][i].op = "case" => Found(TestDir[t])'
  BY <1>1, <1>2, <1>3 DEF SawOK
<1>5. i \in 1..Len(script[t])
  BY InstructionOf
<1>6. TestDir[t] \in Dirs /\ (script[t][i].op = "copy" => script[t][i].dir \in Dirs)
  BY <1>5 DEF Dirs, SharedIn
<1>. QED BY <1>1, <1>6, FoundStays DEF SawOK

\* ... and after one that does: the directory it was looking for is found.
LEMMA SawAdvance ==
  ASSUME TypeInv, [Next]_vars, NEW t \in Tests, SawOK(t),
         \A d \in seen'[t].torn : d \in seen[t].torn \/ ~Undisturbed(d),
         pc[t] # 0, Advance(t),
         \A d \in Dirs : At(t, {"copy", "case"}) /\ d = Target(t) => Found(d)'
  PROVE  SawOK(t)'
<1>1. script' = script /\ pc'[t] = pc[t] + 1 /\ pc[t] \in 1..Len(script[t]) /\ Len(script[t]) \in Nat
  BY NextScript, InstructionOf DEF TypeInv, Advance
<1>0. \A d \in seen'[t].torn : ~Undisturbed(d)'
  BY NextScript, UndisturbedBefore DEF SawOK
<1>2. SUFFICES ASSUME NEW i \in 1..pc[t]
               PROVE  /\ script[t][i].op = "copy" => Found(script[t][i].dir)'
                      /\ script[t][i].op = "case" => Found(TestDir[t])'
  BY <1>0, <1>1 DEF SawOK
<1>3. CASE i = pc[t]
  <2>1. Instr(t) = script[t][i]
    BY <1>3 DEF Instr
  <2>2. SUFFICES ASSUME Instr(t).op \in {"copy", "case"}
                 PROVE  /\ Instr(t).op = "copy" => Found(script[t][i].dir)'
                        /\ Instr(t).op = "case" => Found(TestDir[t])'
    BY <2>1
  <2>3. At(t, {"copy", "case"})
    BY <2>2 DEF At
  <2>4. PICK d \in Dirs : d = Target(t)
    BY <2>3, TargetInDirs
  <2>5. Found(d)'
    BY <2>3, <2>4
  <2>6. d = IF Instr(t).op = "case" THEN TestDir[t] ELSE script[t][i].dir
    BY <2>1, <2>4 DEF Target
  <2>. QED BY <1>1, <2>5, <2>6
<1>4. CASE i # pc[t]
  <2>1. i \in 1..(pc[t] - 1) /\ i \in 1..Len(script[t])
    BY <1>1, <1>4
  <2>2. TestDir[t] \in Dirs /\ (script[t][i].op = "copy" => script[t][i].dir \in Dirs)
    BY <2>1 DEF Dirs, SharedIn
  <2>. QED BY <1>1, <2>1, <2>2, FoundStays DEF SawOK
<1>. QED BY <1>3, <1>4

\* The copies of the other tests are not affected.
LEMMA OthersCopies ==
  ASSUME TypeInv, NEW t \in Tests, Start(t) \/ Script(t) \/ TimeOut(t)
  PROVE  \A u \in Tests \ {t} :
           /\ Copies(u)' <=> Copies(u)
           /\ Target(u)' = Target(u) /\ Instr(u)' = Instr(u)
           /\ phase'[u] = phase[u] /\ todo'[u] = todo[u] /\ pc'[u] = pc[u] /\ seen'[u] = seen[u]
BY OthersState DEF Copies, Target, Instr

\* ... if the directories they copy are not.
LEMMA OthersOK ==
  ASSUME TypeInv, NEW t \in Tests, Start(t) \/ Script(t) \/ TimeOut(t),
         NEW u \in Tests \ {t}, CopyOK(u),
         \A d : Copies(u) /\ d = Target(u) /\ Undisturbed(d)' =>
                  Undisturbed(d) /\ tree'[d] = tree[d]
  PROVE  CopyOK(u)'
<1>1. /\ Copies(u)' <=> Copies(u)
      /\ Target(u)' = Target(u) /\ Instr(u)' = Instr(u)
      /\ phase'[u] = phase[u] /\ todo'[u] = todo[u]
  BY OthersCopies
<1>2. PICK d : d = Target(u) /\ d = Target(u)'
  BY <1>1
<1>3. SUFFICES ASSUME Copies(u), Undisturbed(d)'
               PROVE  PartsOK(u, d)'
  BY <1>1, <1>2 DEF CopyOK
<1>4. PartsOK(u, d) /\ tree'[d] = tree[d]
  BY <1>2, <1>3 DEF CopyOK
<1>. QED BY <1>1, <1>4 DEF PartsOK, WholePart

\* Directories that are neither copied anew nor changed.
LEMMA DirsSame ==
  ASSUME TypeInv, NEW t \in Tests, Start(t) \/ Script(t), NEW d \in Dirs, DirsOK,
         tree'[d] = tree[d], Copies(t) /\ Target(t) = d => Copies(t)' /\ Target(t)' = d,
         Undisturbed(d)'
  PROVE  DirOK(d)'
<1>1. Idle(d)' => Idle(d)
  BY OthersCopies DEF Idle
<1>2. DirOK(d)
  BY UndisturbedSame DEF DirsOK
<1>. QED BY <1>1, <1>2 DEF DirOK, Exists

\* A step of a test that copies nothing, before or after it.
LEMMA NoCopyStep ==
  ASSUME TypeInv, NEW t \in Tests, Start(t) \/ Script(t), UNCHANGED tree,
         ~Copies(t), ~Copies(t)', DirsOK, CopiesOK
  PROVE  DirsOK' /\ CopiesOK'
<1>1. Dirs' = Dirs
  BY UndisturbedSame, SameDirs
<1>2. ASSUME NEW u \in Tests PROVE CopyOK(u)'
  BY UndisturbedSame, OthersOK DEF CopyOK, CopiesOK
<1>. QED BY <1>1, <1>2, DirsSame DEF DirsOK, CopiesOK

\* The directory is looked for, and is going to be copied.
LEMMA EnterStep ==
  ASSUME TypeInv, PhaseInv, NEW t \in Tests, CheckDirectory(t), Copies(t)',
         DirsOK, CopiesOK, \A d \in Dirs \cap Configured : Exists(d)
  PROVE  DirsOK' /\ CopiesOK'
<1>1. /\ pc[t] # 0 /\ phase[t] = "ready" /\ Instr(t).op \in {"copy", "case"}
      /\ UNCHANGED <<script, tree>> /\ Script(t)
  BY DEF CheckDirectory, Ready, At, Script
<1>2. /\ ~(Exists(Target(t)) /\ (Instr(t).op = "case" \/ ~Instr(t).merge))
      /\ UNCHANGED pc /\ todo'[t] = Parts
      /\ phase'[t] = IF Exists(Target(t)) THEN "merging" ELSE "copying"
  BY DEF CheckDirectory, Copies, Advance, TypeInv
<1>3. PICK d \in Dirs : d = Target(t)
  BY <1>1, TargetInDirs DEF At
<1>4. Target(t)' = Target(t) /\ Instr(t)' = Instr(t)
  BY <1>1, <1>2 DEF Target, Instr
<1>5. d \in ReadBy(t)
  BY <1>1, <1>3, InstructionOf DEF ReadBy, SharedIn, Target, Instr
<1>6. Undisturbed(d) => Idle(d)
  BY <1>1, <1>3, <1>5, NobodyElseReads DEF Idle, Copies, CopiesOK
<1>7. Undisturbed(d)' => PartsOK(t, d)'
  BY <1>1, <1>2, <1>3, <1>4, <1>6, UndisturbedSame DEF PartsOK, DirOK, DirsOK, Exists
<1>8. CopyOK(t)'
  BY <1>1, <1>2, <1>3, <1>4, <1>7 DEF CopyOK, Exists
<1>9. ASSUME NEW u \in Tests PROVE CopyOK(u)'
  BY <1>1, <1>8, UndisturbedSame, OthersOK DEF CopiesOK
<1>10. Dirs' = Dirs
  BY <1>1, SameDirs
<1>11. ~Copies(t)
  BY <1>1 DEF Copies
<1>. QED BY <1>1, <1>9, <1>10, <1>11, DirsSame DEF DirsOK, CopiesOK

\* The directory is being copied, before and after the step.
LEMMA WithinStep ==
  ASSUME TypeInv, PhaseInv, NEW t \in Tests,
         SkipPart(t) \/ \E p \in Parts : BeginPart(t, p) \/ EndPart(t, p),
         DirsOK, CopiesOK
  PROVE  DirsOK' /\ CopiesOK'
<1>1. UNCHANGED <<script, pc, phase>> /\ pc[t] # 0 /\ Script(t)
  BY DEF SkipPart, BeginPart, EndPart, At, Script
<1>2. PICK d \in Dirs : d = Target(t)
  BY TargetInDirs DEF SkipPart, BeginPart, EndPart, At
<1>3. Target(t)' = d /\ Instr(t)' = Instr(t) /\ (Copies(t)' <=> Copies(t))
  BY <1>1, <1>2 DEF Target, Instr, Copies
<1>4. \A f \in Dirs \ {d} : tree'[f] = tree[f]
  BY <1>2, TargetInDirs DEF SkipPart, BeginPart, EndPart, TypeInv
<1>5. Undisturbed(d) => Copies(t)
  <2>1. CASE SkipPart(t) \/ \E p \in Parts : BeginPart(t, p)
    BY <1>1, <2>1 DEF SkipPart, BeginPart, Copies
  <2>2. ASSUME NEW p \in Parts, EndPart(t, p), Undisturbed(d)
        PROVE  Copies(t)
    <3>1. t \in tree[d][p].writers
      BY <1>2, <2>2 DEF EndPart
    <3>2. PICK u \in Tests : Copies(u) /\ Target(u) = d
      BY <2>2, <3>1 DEF DirsOK, DirOK, Idle
    <3>3. tree[d][p].writers \subseteq {u}
      BY <2>2, <3>2 DEF CopiesOK, CopyOK, PartsOK
    <3>. QED BY <3>1, <3>2, <3>3
  <2>. QED BY <2>1, <2>2
<1>6. Undisturbed(d) => PartsOK(t, d)
  BY <1>2, <1>5 DEF CopiesOK, CopyOK
<1>7. ASSUME Undisturbed(d) PROVE PartsOK(t, d)'
  <2>0. PartsOK(t, d)
    BY <1>6, <1>7
  <2>1. CASE SkipPart(t)
    <3>1. /\ tree[d]["sub"].made /\ todo'[t] = todo[t] \ {"sub"} /\ UNCHANGED tree
          /\ phase[t] = "merging"
          /\ t \notin tree[d]["sub"].writers
      BY <1>2, <2>1 DEF SkipPart, Writing, Parts, TypeInv
    <3>2. tree[d]["sub"].whole /\ tree[d]["sub"].writers = {}
      BY <2>0, <3>1 DEF PartsOK, Parts
    <3>. QED BY <1>1, <2>0, <3>1, <3>2 DEF PartsOK, WholePart, Parts
  <2>2. ASSUME NEW q \in Parts, BeginPart(t, q)
        PROVE  PartsOK(t, d)'
    <3>1. /\ q \in todo[t] /\ todo' = todo
          /\ tree' = [tree EXCEPT ![d][q] = 
                        [made |-> TRUE, writers |-> @.writers \cup {t}, whole |-> FALSE]]
      BY <1>2, <2>2 DEF BeginPart
    <3>2. \A p \in Parts \ {q} : tree'[d][p] = tree[d][p]
      BY <3>1 DEF TypeInv
    <3>3. tree'[d][q].writers = tree[d][q].writers \cup {t}
      BY <3>1 DEF TypeInv
    <3>. QED BY <1>1, <2>0, <3>1, <3>2, <3>3 DEF PartsOK, WholePart
  <2>3. ASSUME NEW q \in Parts, EndPart(t, q)
        PROVE  PartsOK(t, d)'
    <3>1. /\ t \in tree[d][q].writers /\ todo'[t] = todo[t] \ {q}
          /\ tree' = [tree EXCEPT ![d][q] = 
                        [made |-> TRUE, writers |-> @.writers \ {t}, whole |-> @.writers = {t}]]
      BY <1>2, <2>3 DEF EndPart, TypeInv
    <3>2. \A p \in Parts \ {q} : tree'[d][p] = tree[d][p]
      BY <3>1 DEF TypeInv
    <3>3. tree[d][q].writers = {t}
      BY <2>0, <3>1 DEF PartsOK
    <3>4. tree'[d][q].made /\ tree'[d][q].writers = {} /\ tree'[d][q].whole
      BY <3>1, <3>3 DEF TypeInv
    <3>. QED BY <1>1, <2>0, <3>1, <3>2, <3>4 DEF PartsOK, WholePart
  <2>. QED BY <2>1, <2>2, <2>3
<1>8. CopyOK(t)'
  <2>1. phase' = phase /\ (Undisturbed(d)' => PartsOK(t, d)')
    BY <1>1, <1>7, UndisturbedSame
  <2>. QED BY <1>2, <1>3, <2>1 DEF CopyOK, CopiesOK
<1>9. ASSUME NEW u \in Tests PROVE CopyOK(u)'
  <2>1. CASE u = t
    BY <1>8, <2>1
  <2>2. CASE u # t
    <3>1. ASSUME NEW f, Copies(u), f = Target(u), Undisturbed(f)'
          PROVE  Undisturbed(f) /\ tree'[f] = tree[f]
      <4>1. Undisturbed(f)
        BY <1>1, <3>1, UndisturbedSame
      <4>2. f \in Dirs /\ f \in ReadBy(u)
        BY <3>1, CopiesAt
      <4>3. f # d
        BY <1>2, <1>5, <2>2, <4>1, <4>2, NobodyElseReads DEF CopiesOK
      <4>. QED BY <1>4, <4>1, <4>2, <4>3
    <3>. QED BY <1>1, <2>2, <3>1, OthersOK DEF CopiesOK
  <2>. QED BY <2>1, <2>2
<1>10. ASSUME NEW f \in Dirs, Undisturbed(f)' PROVE DirOK(f)'
  <2>1. CASE f = d
    <3>1. Copies(t)' /\ Target(t)' = f
      BY <1>1, <1>3, <1>5, <1>10, <2>1, UndisturbedSame
    <3>. QED BY <3>1 DEF DirOK, Idle
  <2>2. CASE f # d
    BY <1>1, <1>2, <1>4, <1>10, <2>2, DirsSame
  <2>. QED BY <2>1, <2>2
<1>11. Dirs' = Dirs
  BY <1>1, SameDirs
<1>. QED BY <1>9, <1>10, <1>11 DEF DirsOK, CopiesOK

\* The copy is complete.
LEMMA EndStep ==
  ASSUME TypeInv, PhaseInv, NEW t \in Tests, EndCopy(t), DirsOK, CopiesOK
  PROVE  /\ DirsOK' /\ CopiesOK'
         /\ \A d \in Dirs : d = Target(t) => Found(d)'
<1>1. Copies(t) /\ todo[t] = {} /\ UNCHANGED <<script, tree>> /\ phase'[t] = "ready" /\ Script(t)
  BY DEF EndCopy, At, Copies, Advance, TypeInv, Script
<1>2. PICK d \in Dirs : d = Target(t)
  BY <1>1, CopiesAt
<1>3. Undisturbed(d)' => \A p \in Parts : tree[d][p].made /\ tree[d][p].whole /\ tree[d][p].writers = {}
  BY <1>1, <1>2, UndisturbedSame DEF CopiesOK, CopyOK, PartsOK, WholePart
<1>4. Found(d)'
  BY <1>1, <1>3 DEF Found, Exists, Parts
<1>5. ASSUME NEW f \in Dirs, Undisturbed(f)' PROVE DirOK(f)'
  <2>1. CASE f = d
    BY <1>1, <1>3, <1>5, <2>1 DEF DirOK
  <2>2. CASE f # d
    BY <1>1, <1>2, <1>5, <2>2, DirsSame
  <2>. QED BY <2>1, <2>2
<1>6. ASSUME NEW u \in Tests PROVE CopyOK(u)'
  <2>1. CASE u = t
    BY <1>1, <2>1 DEF CopyOK, Copies
  <2>2. CASE u # t
    BY <1>1, <2>2, UndisturbedSame, OthersOK DEF CopiesOK
  <2>. QED BY <2>1, <2>2
<1>7. Dirs' = Dirs
  BY <1>1, SameDirs
<1>. QED BY <1>2, <1>4, <1>5, <1>6, <1>7 DEF DirsOK, CopiesOK

\* What a program reads has been copied, and nobody is copying it.
LEMMA RunsOnWhole ==
  ASSUME TypeInv, PhaseInv, NEW t \in Tests, BeginRun(t), DirsOK, CopiesOK, SawOK(t),
         NEW d \in ReadBy(t), Undisturbed(d)
  PROVE  Whole(d)
<1>1. pc[t] # 0 /\ phase[t] = "ready" /\ Instr(t).op \in Executions
  BY DEF BeginRun, Ready, At
<1>2. d \in Dirs
  BY DEF ReadBy, Dirs
<1>3. PICK e \in Nat : Shape(script[t], e)
  BY <1>1, InstructionOf DEF WellFormed
<1>4. pc[t] \in 1..Len(script[t]) /\ Len(script[t]) \in Nat
  BY <1>1, InstructionOf
<1>5. e <= pc[t]
  <2>1. script[t][pc[t]].op \notin Preparing
    BY <1>1 DEF Instr, Preparing, Executions
  <2>2. e \in Nat /\ (pc[t] < e => script[t][pc[t]].op \in Preparing)
    BY <1>3, <1>4 DEF Shape
  <2>. QED BY <1>4, <2>1, <2>2
<1>6. \A i \in 1..Len(script[t]) : script[t][i].op \in Preparing => i \in 1..(pc[t] - 1)
  <2>. SUFFICES ASSUME NEW i \in 1..Len(script[t]), script[t][i].op \in Preparing
                PROVE  i < e
    BY <1>4, <1>5
  <2>1. i >= e => script[t][i].op \in Executions \cup {"compare"}
    BY <1>3 DEF Shape
  <2>. QED BY <2>1 DEF Preparing, Executions
<1>7. Exists(d)
  <2>1. CASE d = TestDir[t]
    <3>1. PICK i \in 1..(e - 1) : script[t][i].op = "case"
      BY <1>3 DEF Shape
    <3>2. i \in 1..(pc[t] - 1)
      BY <1>3, <1>4, <1>5
    <3>. QED BY <2>1, <3>1, <3>2 DEF SawOK, Found
  <2>2. CASE d \in SharedIn(script[t])
    <3>1. PICK i \in 1..Len(script[t]) : script[t][i].op = "copy" /\ script[t][i].dir = d
      BY <2>2 DEF SharedIn
    <3>. QED BY <1>6, <3>1 DEF SawOK, Found, Preparing
  <2>. QED BY <2>1, <2>2 DEF ReadBy
<1>8. Idle(d)
  BY <1>1, NobodyElseReads DEF Idle, Copies, CopiesOK
<1>. QED BY <1>2, <1>7, <1>8 DEF DirsOK, DirOK, Whole, WholePart

\* What the other tests have read and looked for.
LEMMA SawOthers ==
  ASSUME TypeInv, NEW t \in Tests, Start(t) \/ Script(t) \/ TimeOut(t), \A u \in Tests : SawOK(u),
         SawOK(t)'
  PROVE  \A u \in Tests : SawOK(u)'
<1>1. [Next]_vars
  BY DEF Next
<1>2. ASSUME NEW u \in Tests \ {t} PROVE SawOK(u)'
  <2>1. seen'[u] = seen[u] /\ pc'[u] = pc[u]
    BY OthersCopies
  <2>. QED BY <1>1, <2>1, SawSame DEF SawOK
<1>. QED BY <1>2

\* A test starts, and one test takes a step of its script.
LEMMA StartCopies ==
  ASSUME TypeInv, PhaseInv, NEW t \in Tests, Start(t), DirsOK, CopiesOK, \A u \in Tests : SawOK(u)
  PROVE  DirsOK' /\ CopiesOK' /\ \A u \in Tests : SawOK(u)'
<1>1. /\ UNCHANGED <<script, tree, phase>> /\ pc[t] = 0 /\ pc'[t] = 1
      /\ seen'[t] = Unseen
  BY DEF Start, TypeInv
<1>2. ~Copies(t) /\ ~Copies(t)'
  BY <1>1 DEF Copies, PhaseInv, PhaseOK
<1>3. SawOK(t)'
  BY <1>1, SawSame DEF Next, Unseen
<1>. QED BY <1>1, <1>2, <1>3, NoCopyStep, SawOthers

\* An instruction that copies nothing: it is done, it is being done, or the
\* script ends.
LEMMA PlainStep ==
  ASSUME TypeInv, PhaseInv, NEW t \in Tests,
         \/ CheckArguments(t) \/ (CheckDirectory(t) /\ ~Copies(t)') \/ RemoveOutputs(t)
         \/ SkipRun(t) \/ BeginRun(t) \/ EndRun(t) \/ CompareOutput(t),
         DirsOK, CopiesOK, \A u \in Tests : SawOK(u)
  PROVE  DirsOK' /\ CopiesOK' /\ \A u \in Tests : SawOK(u)'
<1>1. Script(t)
  BY DEF Script
<1>2. /\ UNCHANGED <<script, tree>> /\ ~Copies(t) /\ pc[t] # 0
  BY DEF CheckArguments, CheckDirectory, RemoveOutputs, SkipRun, BeginRun, EndRun,
     CompareOutput, Ready, At, Copies
<1>3. ~Copies(t)'
  <2>1. CASE CheckDirectory(t) /\ ~Copies(t)'
    BY <2>1
  <2>2. ASSUME \/ CheckArguments(t) \/ RemoveOutputs(t) \/ SkipRun(t) \/ BeginRun(t)
               \/ EndRun(t) \/ CompareOutput(t)
        PROVE  ~Copies(t)'
    <3>1. CASE Advance(t) \/ \E code \in Int : Exit(t, code)
      BY <3>1 DEF Advance, Exit, Copies, TypeInv
    <3>2. CASE phase' = [phase EXCEPT ![t] = "running"]
      BY <3>2 DEF Copies, TypeInv
    <3>3. CASE CheckArguments(t) \/ CompareOutput(t)
      BY <3>1, <3>3 DEF CheckArguments, CompareOutput
    <3>4. CASE RemoveOutputs(t) \/ SkipRun(t) \/ BeginRun(t)
      BY <3>1, <3>2, <3>4 DEF RemoveOutputs, SkipRun, BeginRun
    <3>5. CASE EndRun(t)
      BY <3>5 DEF EndRun, Advance, Exit, Copies, TypeInv
    <3>. QED BY <2>2, <3>3, <3>4, <3>5
  <2>. QED BY <2>1, <2>2
<1>4. \A d \in seen'[t].torn : d \in seen[t].torn \/ ~Undisturbed(d)
  <2>1. CASE BeginRun(t)
    <3>1. seen'[t].torn = seen[t].torn \cup {d \in ReadBy(t) : ~Whole(d)}
      BY <2>1 DEF BeginRun, TypeInv, Sight
    <3>. QED BY <2>1, <3>1, RunsOnWhole
  <2>2. CASE CompareOutput(t)
    <3>1. seen'[t].torn = seen[t].torn
      BY <2>2 DEF CompareOutput, TypeInv, Sight
    <3>. QED BY <3>1
  <2>3. CASE EndRun(t)
    BY <2>3 DEF EndRun, TypeInv, Sight
  <2>4. CASE UNCHANGED seen
    BY <2>4
  <2>. QED BY <2>1, <2>2, <2>3, <2>4 DEF CheckArguments, CheckDirectory, RemoveOutputs, SkipRun
<1>5. pc'[t] \in {pc[t], 0} \/ Advance(t)
  BY DEF CheckArguments, CheckDirectory, RemoveOutputs, SkipRun, BeginRun, EndRun,
     CompareOutput, Exit, TypeInv
<1>6. ASSUME NEW d \in Dirs, Advance(t), At(t, {"copy", "case"}), d = Target(t)
      PROVE  Found(d)'
  <2>1. CheckDirectory(t)
    BY <1>6 DEF CheckArguments, RemoveOutputs, SkipRun, BeginRun, EndRun,
       CompareOutput, Ready, At, Executions
  <2>2. Exists(d)
    <3>1. SUFFICES ASSUME ~Exists(Target(t)) PROVE FALSE
      BY <1>6
    <3>2. phase'[t] = "copying" /\ UNCHANGED pc
      BY <2>1, <3>1 DEF CheckDirectory, TypeInv
    <3>. QED BY <1>6, <3>2 DEF Advance, TypeInv
  <2>. QED BY <1>1, <2>2, FoundStays DEF Next, Found
<1>7. SawOK(t)'
  <2>1. [Next]_vars
    BY <1>1 DEF Next
  <2>2. CASE pc'[t] \in {pc[t], 0}
    BY <1>4, <2>1, <2>2, SawSame
  <2>3. CASE Advance(t)
    BY <1>2, <1>4, <1>6, <2>1, <2>3, SawAdvance
  <2>. QED BY <1>5, <2>2, <2>3
<1>. QED BY <1>1, <1>2, <1>3, <1>7, NoCopyStep, SawOthers

\* A copy begins, goes on and is complete.
LEMMA CopyingStep ==
  ASSUME TypeInv, PhaseInv, NEW t \in Tests,
         \/ (CheckDirectory(t) /\ Copies(t)') \/ SkipPart(t)
         \/ \E p \in Parts : BeginPart(t, p) \/ EndPart(t, p)
         \/ EndCopy(t),
         DirsOK, CopiesOK, \A d \in Dirs \cap Configured : Exists(d), \A u \in Tests : SawOK(u)
  PROVE  DirsOK' /\ CopiesOK' /\ \A u \in Tests : SawOK(u)'
<1>1. Script(t) /\ [Next]_vars
  BY DEF Script, Next
<1>2. UNCHANGED <<script, seen>> /\ pc[t] # 0
  BY DEF CheckDirectory, SkipPart, BeginPart, EndPart, EndCopy, Ready, At
<1>3. DirsOK' /\ CopiesOK'
  <2>1. CASE CheckDirectory(t) /\ Copies(t)'
    BY <2>1, EnterStep
  <2>2. CASE SkipPart(t) \/ \E p \in Parts : BeginPart(t, p) \/ EndPart(t, p)
    BY <2>2, WithinStep
  <2>3. CASE EndCopy(t)
    BY <2>3, EndStep
  <2>. QED BY <2>1, <2>2, <2>3
<1>4. SawOK(t)'
  <2>1. CASE EndCopy(t)
    <3>1. Advance(t) /\ \A d \in Dirs : d = Target(t) => Found(d)'
      BY <2>1, EndStep DEF EndCopy
    <3>. QED BY <1>1, <1>2, <3>1, SawAdvance
  <2>2. CASE UNCHANGED pc
    BY <1>1, <1>2, <2>2, SawSame
  <2>3. CASE CheckDirectory(t) /\ Copies(t)'
    <3>1. ~Advance(t)
      BY <2>3 DEF Copies, Advance, TypeInv
    <3>2. UNCHANGED pc
      BY <2>3, <3>1 DEF CheckDirectory
    <3>. QED BY <2>2, <3>2
  <2>. QED BY <2>1, <2>2, <2>3 DEF SkipPart, BeginPart, EndPart
<1>. QED BY <1>1, <1>3, <1>4, SawOthers

\* A timeout disturbs the directory that is being copied, and no other one.
LEMMA TimeOutStep ==
  ASSUME TypeInv, PhaseInv, NEW t \in Tests, TimeOut(t), DirsOK, CopiesOK,
         \A u \in Tests : SawOK(u)
  PROVE  DirsOK' /\ CopiesOK' /\ \A u \in Tests : SawOK(u)'
<1>1. /\ UNCHANGED <<script, seen>> /\ pc'[t] = 0 /\ ~Copies(t)' /\ [Next]_vars
      /\ tree' = [d \in Dirs |-> [p \in Parts |-> [tree[d][p] EXCEPT !.writers = @ \ {t}]]]
  BY DEF TimeOut, Exit, TypeInv, Copies, Next
<1>2. Copies(t) => Target(t) \in cut'
  BY CopiesAt DEF TimeOut, Copies
<1>3. Dirs' = Dirs /\ \A d : Undisturbed(d)' => Undisturbed(d)
  BY <1>1, SameDirs, NextScript, UndisturbedBefore
<1>4. ASSUME NEW d \in Dirs, Undisturbed(d)'
      PROVE  /\ Undisturbed(d) /\ tree'[d] = tree[d]
             /\ Copies(t) => Target(t) # d
  <2>1. Undisturbed(d) /\ (Copies(t) => Target(t) # d)
    BY <1>2, <1>3, <1>4 DEF Undisturbed
  <2>2. \A p \in Parts : t \notin tree[d][p].writers
    <3>1. CASE Idle(d)
      BY <2>1, <3>1 DEF DirsOK, DirOK
    <3>2. CASE ~Idle(d)
      <4>1. PICK u \in Tests : Copies(u) /\ Target(u) = d
        BY <3>2 DEF Idle
      <4>2. PartsOK(u, d) /\ u # t
        BY <2>1, <4>1 DEF CopiesOK, CopyOK
      <4>. QED BY <4>2 DEF PartsOK
    <3>. QED BY <3>1, <3>2
  <2>3. tree[d] \in [Parts -> Cell]
    BY DEF TypeInv
  <2>4. \A p \in Parts : [tree[d][p] EXCEPT !.writers = @ \ {t}] = tree[d][p]
    <3>1. ASSUME NEW c \in Cell, t \notin c.writers
          PROVE  [c EXCEPT !.writers = @ \ {t}] = c
      <4>1. c.writers \ {t} = c.writers
        BY <3>1
      <4>. QED BY <4>1 DEF Cell
    <3>. QED BY <2>2, <2>3, <3>1
  <2>5. tree'[d] = [p \in Parts |-> [tree[d][p] EXCEPT !.writers = @ \ {t}]]
    BY <1>1
  <2>6. tree'[d] = [p \in Parts |-> tree[d][p]]
    BY <2>4, <2>5
  <2>. QED BY <2>1, <2>3, <2>6
<1>5. ASSUME NEW d \in Dirs, Undisturbed(d)' PROVE DirOK(d)'
  <2>1. Idle(d)' => Idle(d)
    BY <1>4, <1>5, OthersCopies DEF Idle
  <2>2. DirOK(d) /\ tree'[d] = tree[d]
    BY <1>4, <1>5 DEF DirsOK
  <2>. QED BY <2>1, <2>2 DEF DirOK, Exists
<1>6. ASSUME NEW u \in Tests PROVE CopyOK(u)'
  <2>1. CASE u = t
    BY <1>1, <2>1 DEF CopyOK
  <2>2. CASE u # t
    <3>1. ASSUME NEW d, Copies(u), d = Target(u), Undisturbed(d)'
          PROVE  Undisturbed(d) /\ tree'[d] = tree[d]
      BY <1>4, <3>1, CopiesAt
    <3>. QED BY <2>2, <3>1, OthersOK DEF CopiesOK
  <2>. QED BY <2>1, <2>2
<1>7. SawOK(t)'
  BY <1>1, SawSame
<1>. QED BY <1>3, <1>5, <1>6, <1>7, SawOthers DEF DirsOK, CopiesOK

\* Every step preserves the invariant.
LEMMA CopyStep ==
  ASSUME TypeInv, PhaseInv, CopyInv, [Next]_vars
  PROVE  CopyInv'
<1>1. DirsOK /\ CopiesOK /\ (\A d \in Dirs \cap Configured : Exists(d)) /\ \A t \in Tests : SawOK(t)
  BY DEF CopyInv
<1>2. \A d \in Dirs' \cap Configured : Exists(d)'
  BY <1>1, ExistsStays
<1>3. DirsOK' /\ CopiesOK' /\ \A t \in Tests : SawOK(t)'
  <2>1. ASSUME NEW t \in Tests, Start(t)
        PROVE  DirsOK' /\ CopiesOK' /\ \A u \in Tests : SawOK(u)'
    BY <1>1, <2>1, StartCopies
  <2>2. ASSUME NEW t \in Tests, TimeOut(t)
        PROVE  DirsOK' /\ CopiesOK' /\ \A u \in Tests : SawOK(u)'
    BY <1>1, <2>2, TimeOutStep
  <2>3. ASSUME NEW t \in Tests, Script(t)
        PROVE  DirsOK' /\ CopiesOK' /\ \A u \in Tests : SawOK(u)'
    <3>1. CASE \/ CheckArguments(t) \/ (CheckDirectory(t) /\ ~Copies(t)') \/ RemoveOutputs(t)
               \/ SkipRun(t) \/ BeginRun(t) \/ EndRun(t) \/ CompareOutput(t)
      BY <1>1, <3>1, PlainStep
    <3>2. CASE \/ (CheckDirectory(t) /\ Copies(t)') \/ SkipPart(t)
               \/ \E p \in Parts : BeginPart(t, p) \/ EndPart(t, p)
               \/ EndCopy(t)
      BY <1>1, <3>2, CopyingStep
    <3>. QED BY <2>3, <3>1, <3>2 DEF Script
  <2>4. CASE UNCHANGED vars
    <3>0. UNCHANGED <<script, pc, phase, todo, tree, seen, cut>>
      BY <2>4 DEF vars
    <3>1. \A d : Undisturbed(d)' <=> Undisturbed(d)
      BY <3>0 DEF Undisturbed, Contested, ReadBy, SharedIn, MergedIn
    <3>2. \A t \in Tests : /\ Instr(t)' = Instr(t) /\ Target(t)' = Target(t)
                           /\ Copies(t)' <=> Copies(t)
                           /\ \A d : PartsOK(t, d)' <=> PartsOK(t, d)
      BY <3>0 DEF Target, Instr, Copies, PartsOK, WholePart
    <3>3. CopiesOK'
      BY <1>1, <3>0, <3>1, <3>2 DEF CopiesOK, CopyOK
    <3>4. \A d : DirOK(d)' <=> DirOK(d)
      BY <3>0, <3>2 DEF DirOK, Idle, Exists
    <3>5. DirsOK'
      BY <1>1, <3>0, <3>1, <3>4, SameDirs DEF DirsOK
    <3>6. \A t \in Tests : SawOK(t)'
      BY <1>1, <3>0, SawSame DEF SawOK
    <3>. QED BY <3>3, <3>5, <3>6
  <2>. QED BY <2>1, <2>2, <2>3, <2>4 DEF Next
<1>. QED BY <1>2, <1>3 DEF CopyInv

\* A tree as it was configured.
LEMMA CopyInit == Init => CopyInv
<1>. SUFFICES ASSUME Init PROVE CopyInv
  OBVIOUS
<1>1. \A d \in Dirs, p \in Parts : tree[d][p] = IF d \in Configured THEN Present ELSE Missing
  BY DEF Init
<1>2. \A t \in Tests : pc[t] = 0 /\ seen[t].torn = {}
  BY DEF Init, Unseen
<1>3. \A d \in Dirs : DirOK(d) /\ (d \in Configured => Exists(d))
  BY <1>1 DEF DirOK, Exists, Present, Missing, Parts
<1>4. \A t \in Tests : CopyOK(t) /\ SawOK(t)
  BY <1>2 DEF CopyOK, Copies, SawOK
<1>. QED BY <1>3, <1>4 DEF CopyInv, DirsOK, CopiesOK

(***************************************************************************)
(* What a program finds torn when it starts is a directory that two tests  *)
(* contest, or one that a timeout has left half copied, for all tests,     *)
(* scripts and configured trees, in every order of their steps and after   *)
(* any number of timeouts.  The scripts look directories up and trust the  *)
(* answer without a lock: what they do not contest needs none.             *)
(***************************************************************************)
THEOREM InputsAreWhole == Spec => []InputsWhole
<1>1. Init => CopyInv
  BY CopyInit
<1>2. TypeInv /\ PhaseInv /\ CopyInv /\ [Next]_vars => CopyInv'
  BY CopyStep
<1>3. TypeInv /\ CopyInv => InputsWhole
  BY DEF CopyInv, SawOK, InputsWhole, Undisturbed, TypeInv, Sight
<1>. QED BY <1>1, <1>2, <1>3, TypeAlways, PhaseAlways, PTL DEF Spec
=============================================================================
