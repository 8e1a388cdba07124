-------------------------------- MODULE Deck --------------------------------
(***************************************************************************)
(* Input decks of openfast_io: programs that each load a deck, write it    *)
(* under a name into one run directory, and read back what is there.  A    *)
(* deck is a tree of files that starts at the main file.  FAST_writer      *)
(* writes the files one by one, the main file last, and FAST_reader reads  *)
(* them one by one, the main file first.  A program may be killed while it *)
(* writes, and some decks make the writer raise; a name may be written     *)
(* again later, and different names may be written at the same time.       *)
(***************************************************************************)
EXTENDS DeckWriter, DeckReader

CONSTANTS Programs,     \* the programs
          Names,        \* the names to write decks under
          SourceFiles,  \* SourceFiles[d]: the files of the source deck d
          Assignments,  \* the pairs <<source, target>> of functions on Programs
          ROSCO,        \* whether the controller's package is installed
          FoldsCase,    \* whether the file system ignores the case of a name
          MaxKills      \* how many programs may be killed

ASSUME DeckAssumption ==
  /\ {ROSCO, FoldsCase} \subseteq BOOLEAN /\ MaxKills \in Nat
  /\ Assignments \subseteq [Programs -> DOMAIN SourceFiles] \X [Programs -> Names]
  /\ "nobody" \notin Programs

VARIABLES source,   \* source[p]: the deck that p loads
          target,   \* target[p]: the name that p writes it under
          pc,       \* pc[p]: what p does
          todo,     \* todo[p]: the files still to read, or the steps still to write
          vt,       \* vt[p]: the dictionaries (fst_vt) of p
          wrote,    \* wrote[p]: what they were when p began to write
          disk,     \* disk[f]: the file f of the run directory
          writer,   \* writer[n]: who wrote the name n last, and how that ended
          kills     \* how many programs have been killed

vars == <<source, target, pc, todo, vt, wrote, disk, writer, kills>>

\* A part is a kind of file and an index: 0 where there is one for all blades.
Fst == <<"Fst", 0>>
ED == <<"ED", 0>>
SED == <<"SED", 0>>
Tower == <<"Tower", 0>>
IfW == <<"IfW", 0>>
AD == <<"AD", 0>>
OLAF == <<"OLAF", 0>>
ADsk == <<"ADsk", 0>>
ADskProp == <<"ADskProp", 0>>
SrvD == <<"SrvD", 0>>
DISCON == <<"DISCON", 0>>
SpdTrq == <<"spd_trq", 0>>
HD == <<"HD", 0>>
SeaSt == <<"SeaSt", 0>>
SubD == <<"SubD", 0>>
ExtP == <<"ExtP", 0>>
SE == <<"SE", 0>>
Conn == <<"Conn", 0>>
UserF == <<"UserF", 0>>
ConnF == <<"ConnF", 0>>
MAP == <<"MAP", 0>>
MD == <<"MD", 0>>
WK == <<"WK", 0>>

Kind(part) == part[1]
StCKinds == {"BStC", "NStC", "TStC", "SStC"}
\* These files keep the names they have in the source deck.
KeepsName(part) == Kind(part) \in StCKinds \cup {"spd_trq"}
FileOf(n, part) == IF KeepsName(part) THEN <<"as in the source", part>> ELSE <<n, part>>

\* The files, or the dictionaries, with one more or with another one of that name.
With(files, name, file) ==
  [f \in DOMAIN files \cup {name} |-> IF f = name THEN file ELSE files[f]]

\* count parts of a kind, or the parts of the blades that a dictionary holds.
Several(kind, count) == [i \in 1..count |-> <<kind, i>>]
Part(cond, parts) == IF cond THEN parts ELSE <<>>
Blade(d, kind, i) == Part(<<kind, i>> \in DOMAIN d, <<<<kind, i>>>>)
BladesOf(d, kind) ==
  IF <<kind, 0>> \in DOMAIN d THEN <<<<kind, 0>>>>
  ELSE Blade(d, kind, 1) \o Blade(d, kind, 2) \o Blade(d, kind, 3)

Written(part, c) ==
  Nonempty(
    CASE Kind(part) = "Fst" -> WriteMainInput(c)
      [] Kind(part) = "ED" -> WriteElastoDyn(c)
      [] Kind(part) = "SED" -> WriteSimpleElastoDyn(c)
      [] Kind(part) = "EDBlade" -> WriteElastoDynBlade(c)
      [] Kind(part) = "Tower" -> WriteElastoDynTower(c)
      [] Kind(part) = "IfW" -> WriteInflowWind(c)
      [] Kind(part) = "AD" -> WriteAeroDyn(c)
      [] Kind(part) = "ADBlade" -> WriteAeroDynBlade(c)
      [] Kind(part) = "Polar" -> WriteAeroDynPolar(c)
      [] Kind(part) = "Coord" -> WriteAeroDynCoord(c)
      [] Kind(part) = "OLAF" -> WriteOLAF(c)
      [] Kind(part) = "ADsk" -> WriteAeroDisk(c)
      [] Kind(part) = "ADskProp" -> WriteAeroDiskProp(c)
      [] Kind(part) = "SrvD" -> WriteServoDyn(c)
      [] Kind(part) \in StCKinds -> WriteStC(c)
      [] Kind(part) = "spd_trq" -> WriteSpdTrq(c)
      [] Kind(part) = "HD" -> WriteHydroDyn(c)
      [] Kind(part) = "SeaSt" -> WriteSeaState(c)
      [] Kind(part) = "SubD" -> WriteSubDyn(c)
      [] Kind(part) = "ExtP" -> WriteExtPtfm(c)
      [] Kind(part) = "SE" -> WriteSuperelement(c)
      [] Kind(part) = "Conn" -> WriteConnections(c)
      [] Kind(part) = "UserF" -> WriteUserForcing(c)
      [] Kind(part) = "ConnF" -> WriteConnForcing(c)
      [] Kind(part) = "MAP" -> WriteMAP(c)
      [] Kind(part) = "MD" -> WriteMoorDyn(c)
      [] Kind(part) = "WK" -> WriteWaterKin(c)
      [] Kind(part) = "BD" -> WriteBeamDyn(c)
      [] Kind(part) = "BDBlade" -> WriteBeamDynBlade(c)
      [] Kind(part) = "DISCON" -> <<<<"controller", 1>>>>)

\* The sections the reader looks for; MoorDyn has ReadsMoorDyn instead.
Expected(part, c) ==
  Nonempty(
    CASE Kind(part) = "Fst" -> ReadMainInput(c)
      [] Kind(part) = "ED" -> ReadElastoDyn(c)
      [] Kind(part) = "SED" -> ReadSimpleElastoDyn(c)
      [] Kind(part) = "EDBlade" -> ReadElastoDynBlade(c)
      [] Kind(part) = "Tower" -> ReadElastoDynTower(c)
      [] Kind(part) = "IfW" -> ReadInflowWind(c)
      [] Kind(part) = "AD" -> ReadAeroDyn(c)
      [] Kind(part) = "ADBlade" -> ReadAeroDynBlade(c)
      [] Kind(part) = "Polar" -> ReadAeroDynPolar(c)
      [] Kind(part) = "Coord" -> ReadAeroDynCoord(c)
      [] Kind(part) = "OLAF" -> ReadOLAF(c)
      [] Kind(part) = "ADsk" -> ReadAeroDisk(c)
      [] Kind(part) = "ADskProp" -> ReadAeroDiskProp(c)
      [] Kind(part) = "SrvD" -> ReadServoDyn(c)
      [] Kind(part) \in StCKinds -> ReadStC(c)
      [] Kind(part) = "spd_trq" -> ReadSpdTrq(c)
      [] Kind(part) = "HD" -> ReadHydroDyn(c)
      [] Kind(part) = "SeaSt" -> ReadSeaState(c)
      [] Kind(part) = "SubD" -> ReadSubDyn(c)
      [] Kind(part) = "ExtP" -> ReadExtPtfm(c)
      [] Kind(part) = "SE" -> ReadSuperelement(c)
      [] Kind(part) = "Conn" -> ReadConnections(c)
      [] Kind(part) = "UserF" -> ReadUserForcing(c)
      [] Kind(part) = "ConnF" -> ReadConnForcing(c)
      [] Kind(part) = "MAP" -> ReadMAP(c)
      [] Kind(part) = "WK" -> ReadWaterKin(c)
      [] Kind(part) = "BD" -> ReadBeamDyn(c)
      [] Kind(part) = "BDBlade" -> ReadBeamDynBlade(c)
      [] Kind(part) \in {"MD", "DISCON"} -> Written(part, c))

-----------------------------------------------------------------------------
(* Reading.                                                                *)

\* The contents of the files that a program can find under a name, a source deck
\* or a name in the run directory: contents, how many sections are all, how many are done.
Whole(part, c) ==
  LET all == Len(Written(part, c)) IN [c |-> c, all |-> all, done |-> all]
SourceDeck(deck) ==
  [source |-> TRUE,
   files |-> [part \in DOMAIN SourceFiles[deck] |-> Whole(part, SourceFiles[deck][part])]]
Under(n) ==
  [source |-> FALSE,
   files |-> [part \in {f[2] : f \in {g \in DOMAIN disk : g = FileOf(n, g[2])}} |->
                disk[FileOf(n, part)]]]
InSource(at) == at.source
Found(at, part) == part \in DOMAIN at.files
FileAt(at, part) == at.files[part]

\* The reader takes the name of MoorDyn's water kinematics in upper case.
Readable(at, part) ==
  Found(at, part) /\ (Kind(part) = "WK" => InSource(at) \/ FoldsCase)

\* What becomes of reading a file that ends after its first done sections, when the
\* next section is not whole.  A list of channels, and whatever is read past the
\* comments, is looked for for ever; most values are missed at once; some are not.
Cut(part, c, done) ==
  LET expected == Expected(part, c)
      next == expected[done + 1][1]
      inList == \/ next = "list"
                \/ done + 2 <= Len(expected) /\ expected[done + 2][1] = "list"
  IN  CASE Kind(part) = "MD" -> IF done < 4 THEN {"short"} ELSE {"hung"}
        [] Kind(part) = "Polar" -> {"hung"}
        [] Kind(part) = "WK" /\ next \in {"profile", "rows", "dashes"} -> {"hung"}
        [] Kind(part) \notin {"MD", "Polar"} /\ inList /\ next # "nodal outputs" -> {"hung"}
        [] next = "nodal outputs" -> {"short"}
        [] Kind(part) = "MAP" /\ next \in {"options", "blank"} -> {"short"}
        [] Kind(part) \in {"SE", "Conn", "UserF", "ConnF", "spd_trq"} -> {"short"}
        [] Kind(part) \in {"ADskProp", "DISCON"} -> {"short", "raised"}
        [] OTHER -> {"raised"}

\* A written list of joints is separated by blanks, and split at commas.
Parses(part, c) == Kind(part) = "HD" => c.NJOutputs <= 1
Aligned(part, c) ==
  IF Kind(part) = "MD" THEN ReadsMoorDyn(c, Written(part, c))
  ELSE IsPrefix(Expected(part, c), Written(part, c))

\* How reading the first done sections of a file ends: with all of its contents, with
\* some ("short"), with an exception, or not at all.
ReadUpTo(part, c, done) ==
  IF done < Len(Expected(part, c)) THEN Cut(part, c, done)
  ELSE IF Aligned(part, c) /\ Parses(part, c) THEN {"whole"} ELSE {"raised"}

Readings(at, part) ==
  IF ~Readable(at, part) THEN {"raised"}
  ELSE IF InSource(at) THEN {"whole"}
  ELSE LET file == FileAt(at, part) IN ReadUpTo(part, file.c, file.done)

\* The blades: files[i] is the file of blade i, slot 0 the dictionary that stands
\* for all of them, and none the one that a two-bladed rotor drops.
Same(files) == files[1] = files[2] /\ files[1] = files[3]
One(kind, files, slot) == <<<<<<kind, files[1]>>, <<kind, slot>>>>>>
Three(kind, files) == [i \in 1..3 |-> <<<<kind, files[i]>>, <<kind, i>>>>]
none == <<"none", 0>>

\* ElastoDyn's blades are read when it models them, else if they are found, which they
\* are not where a deck is written without them.
EDBlades(at, d) ==
  LET c == d[ED]
      wanted(i) == \/ d[Fst].CompElast = 1
                   \/ InSource(at) /\ Found(at, <<"EDBlade", c.files[i]>>)
  IN  IF Same(c.files) \/ (c.NumBl = 2 /\ c.files[1] = c.files[2])
      THEN Part(wanted(1), One("EDBlade", c.files, 0))
      ELSE IF c.NumBl = 1 /\ Found(at, <<"EDBlade", c.files[1]>>)
      THEN Part(d[Fst].CompElast = 1, One("EDBlade", c.files, 0))
      ELSE LET blade(i) == Part(wanted(i), <<Three("EDBlade", c.files)[i]>>)
           IN  blade(1) \o blade(2) \o blade(3)

\* AeroDyn's: distinct ones of a rotor with fewer than three are read, and then the
\* first stands for all.
ADBlades(d) ==
  LET c == d[AD] IN
  IF Same(c.files) THEN One("ADBlade", c.files, 0)
  ELSE LET NumBl == d[ED].NumBl
       IN  IF NumBl = 2 /\ c.files[1] = c.files[2] THEN One("ADBlade", c.files, 0)
           ELSE IF NumBl > 2 THEN Three("ADBlade", c.files)
           ELSE One("ADBlade", c.files, 0)
                \o Part(NumBl > 1, <<<<<<"ADBlade", c.files[2]>>, none>>>>)

\* BeamDyn's: the same, each blade with its two files.
BDBlades(at, d) ==
  LET files == d[Fst].files
      one == One("BD", files, 0) \o One("BDBlade", files, 0)
      blade(i) == <<<<<<"BD", files[i]>>, <<"BD", i>>>>, <<<<"BDBlade", files[i]>>, <<"BDBlade", i>>>>>>
      dropped(i) == <<<<<<"BD", files[i]>>, none>>, <<<<"BDBlade", files[i]>>, none>>>>
      NumBl == d[ED].NumBl
  IN  IF ~Found(at, <<"BD", files[1]>>) THEN <<>>
      ELSE IF Same(files) \/ (NumBl = 2 /\ files[1] = files[2]) THEN one
      ELSE IF NumBl > 2 THEN blade(1) \o blade(2) \o blade(3)
      ELSE one \o Part(NumBl > 1, dropped(2))

\* A rotor without ElastoDyn has no NumBl to tell such blades apart with.
NumBlMissing(at, part, d) ==
  /\ ED \notin DOMAIN d
  /\ \/ part = AD /\ ~Same(d[AD].files)
     \/ part = Fst /\ ~Same(d[Fst].files) /\ Found(at, <<"BD", d[Fst].files[1]>>)

Itself(parts) == [i \in 1..Len(parts) |-> <<parts[i], parts[i]>>]

\* The mooring, if its file is there.
MooringFiles_found(at, c) == Part(Found(at, MAP), <<MAP>>) \o Part(Found(at, MD), <<MD>>)
MooringFiles(at, c) ==
  Part(c.CompMooring = 1 /\ Found(at, MAP), <<MAP>>) \o Part(c.CompMooring = 3 /\ Found(at, MD), <<MD>>)

\* What is read from the main file, in the order of execute; BeamDyn is read last,
\* when the number of blades is known, so its place is marked by the main file.
FromMain(at, c) ==
  Itself((IF c.CompElast = 3 THEN <<SED>> ELSE <<ED>>)
         \o Part(c.CompInflow = 1, <<IfW>>)
         \o Part(c.CompAero = 1, <<ADsk>>) \o Part(c.CompAero = 2, <<AD>>)
         \o Part(c.CompServo = 1, <<SrvD>>) \o Part(c.CompHydro = 1, <<HD>>)
         \o Part(c.CompSeaSt = 1, <<SeaSt>>)
         \o Part(c.CompSub = 1, <<SubD>>) \o Part(c.CompSub = 2, <<ExtP>>) \o MooringFiles(at, c))
  \o <<<<Fst, none>>>>

\* What the reader reads next because of what it has just read.  MoorDyn's tables of
\* non-linear stiffness are left out: read_NonLinearEA looks for the line after the last
\* one for ever, so no program gets past loading a source deck that has one.
FromServoDyn(at, c) ==
  Itself(Several("BStC", c.BStC) \o Several("NStC", c.NStC) \o Several("TStC", c.TStC)
         \o Several("SStC", c.SStC)
         \o Part(ROSCO /\ c.DLL_InFile = 1 /\ Found(at, DISCON), <<DISCON>>) \o Part(c.VSContrl = 3, <<SpdTrq>>))
\* The airfoils that have coordinates, in their order.
Coordinates(c) == [i \in 1..Len(c.coords) |-> <<"Coord", c.coords[i]>>]
FromAeroDyn(at, d) ==
  ADBlades(d)
  \o Itself(Several("Polar", d[AD].NumAFfiles)
            \o Coordinates(d[AD])
            \o Part(Found(at, OLAF), <<OLAF>>))
FromExtPtfm(c) ==
  Itself(<<SE>> \o Part(c.HasConnections = 1, <<Conn>>)
         \o Part(c.HasUserForcing = 1, <<UserF>>) \o Part(c.HasConnForcing = 1, <<ConnF>>))
Nested(at, item, d) ==
  LET part == item[1] IN
  CASE item = <<Fst, none>> -> BDBlades(at, d)
    [] item = <<Fst, Fst>> -> FromMain(at, d[Fst])
    [] part = ED -> EDBlades(at, d) \o Itself(<<Tower>>)
    [] part = AD -> FromAeroDyn(at, d)
    [] part = ADsk -> Itself(<<ADskProp>>)
    [] part = SrvD -> FromServoDyn(at, d[SrvD])
    [] part = ExtP -> FromExtPtfm(d[ExtP])
    [] part = MD -> Itself(Part(d[MD].WaterKin = 1, <<WK>>))
    [] OTHER -> <<>>

\* The optional list of ElastoDyn's nodes is read into the list of its other outputs,
\* which has no channels of such names.
Kept(part, c) == IF part = ED THEN [c EXCEPT !.nodalChannels = 0] ELSE c
Incomplete == "incomplete"
Taken(part, c, reading) ==
  IF reading = "short" THEN [Kept(part, c) EXCEPT !.ver = Incomplete] ELSE Kept(part, c)

\* One step of the reader: <<dictionaries, what is left to read, how it went>>.
ReadNext(at, d, items) ==
  LET item == Head(items) IN
  IF item = <<Fst, none>>
  THEN {IF NumBlMissing(at, Fst, d) THEN <<d, <<>>, "raised">>
        ELSE <<d, Nested(at, item, d) \o Tail(items), "whole">>}
  ELSE {IF reading \in {"raised", "hung"} THEN <<d, items, reading>>
        ELSE LET read == IF item[2] = none THEN d
                         ELSE With(d, item[2], Taken(item[1], FileAt(at, item[1]).c, reading))
             IN  IF item[1] = AD /\ NumBlMissing(at, AD, read) THEN <<read, items, "raised">>
                 ELSE <<read, Nested(at, item, read) \o Tail(items), reading>>
        : reading \in Readings(at, item[1])}

\* More sections than any file has.
MostSections == 40

\* The dictionaries after reading a source deck, which nobody is writing.
MostFiles == 60
Loaded ==
  [deck \in DOMAIN SourceFiles |->
     LET load[i \in 0..MostFiles] ==
           IF i = 0 THEN << <<>>, <<<<Fst, Fst>>>>, "whole">>
           ELSE LET s == load[i - 1]
                IN  IF s[2] = <<>> \/ s[3] = "raised" THEN s
                    ELSE CHOOSE r \in ReadNext(SourceDeck(deck), s[1], s[2]) : TRUE
     IN  load[MostFiles]]

-----------------------------------------------------------------------------
(* Writing.                                                                *)

\* Files are opened, written and closed; raising leaves those open that are.
File(part) == <<<<"open", part>>, <<"close", part>>>>
Files(parts) ==
  [i \in 1..(2 * Len(parts)) |-> File(parts[(i + 1) \div 2])[2 - (i % 2)]]
FailsIn(part) == <<<<"open", part>>, <<"raise", part>>>>
Fails == <<<<"raise", none>>>>

\* A list of ElastoDyn blades has no file name it can be written to.  Without CompElast
\* = 1 the blades are written if their file is found from the directory the program
\* runs in, which is not that of the deck.
WriteElastoDynFiles(d) ==
  IF d[Fst].CompElast = 3 THEN File(SED)
  ELSE Part(d[Fst].CompElast = 1, IF <<"EDBlade", 0>> \in DOMAIN d
                                  THEN File(<<"EDBlade", 0>>) ELSE Fails)
       \o File(Tower) \o File(ED)

\* Of the columns of a polar, one that is not there is taken out of a list; there
\* must be one.
WriteAeroDynFiles(d) ==
  LET c == d[AD]
  IN  Files(BladesOf(d, "ADBlade"))
      \o (IF c.NumAFfiles > 0 /\ c.InCol_Cm > 0 /\ c.InCol_Cpmin > 0
          THEN FailsIn(<<"Polar", 1>>) ELSE Files(Several("Polar", c.NumAFfiles)))
      \o Files(Coordinates(c))
      \o Part(c.Wake_Mod = 3,
              IF c.UA_Mod > 0 THEN Fails
              ELSE IF OLAF \in DOMAIN d THEN File(OLAF) ELSE FailsIn(OLAF))
      \o File(AD)

\* The file of the disk's properties is written in the middle of that of the disk.
WriteAeroDiskFiles(d) ==
  <<<<"open", ADsk>>>> \o File(ADskProp) \o <<<<"close", ADsk>>>>

\* The controller's file needs the performance tables, which may not have been found.
WriteServoDynFiles(d) ==
  Part(ROSCO /\ DISCON \in DOMAIN d, IF d[DISCON].Cp_table = 1 THEN File(DISCON) ELSE Fails)
  \o File(SrvD)
  \o Files(Several("NStC", d[SrvD].NStC) \o Several("BStC", d[SrvD].BStC)
           \o Several("TStC", d[SrvD].TStC) \o Several("SStC", d[SrvD].SStC))
  \o Part(d[SrvD].VSContrl = 3, File(SpdTrq))

WriteExtPtfmFiles(d) ==
  Files(<<SE>> \o Part(d[ExtP].HasConnections = 1, <<Conn>>)
        \o Part(d[ExtP].HasUserForcing = 1, <<UserF>>)
        \o Part(d[ExtP].HasConnForcing = 1, <<ConnF>>) \o <<ExtP>>)

\* The identifiers of rods are read as words and written as numbers; a current of
\* kind 2 is read under one key and written under another.
WriteMoorDynFiles(d) ==
  IF d[MD].rods > 0 THEN FailsIn(MD)
  ELSE File(MD) \o Part(WK \in DOMAIN d, IF d[WK].CurrentMod = 2 THEN FailsIn(WK) ELSE File(WK))

\* One file of BeamDyn and one of its blades, or one of each per blade.
WriteBeamDynFiles(d) ==
  IF <<"BD", 0>> \in DOMAIN d THEN Files(<<<<"BDBlade", 0>>, <<"BD", 0>>>>)
  ELSE LET blade(i) == Part(<<"BD", i>> \in DOMAIN d, Files(<<<<"BDBlade", i>>, <<"BD", i>>>>))
       IN  blade(1) \o blade(2) \o blade(3)

\* The steps of execute up to the main file, and all of them.
WriteModuleFiles(d) ==
  LET c == d[Fst] IN
  WriteElastoDynFiles(d)
  \o Part(c.CompInflow = 1, File(IfW))
  \o (CASE c.CompAero = 1 -> WriteAeroDiskFiles(d)
        [] c.CompAero = 2 -> WriteAeroDynFiles(d)
        [] OTHER -> <<>>)
  \o (IF c.CompServo = 1 THEN WriteServoDynFiles(d) ELSE <<>>)
  \o Part(c.CompHydro = 1, File(HD)) \o Part(c.CompSeaSt = 1, File(SeaSt))
  \o (CASE c.CompSub = 1 -> File(SubD)
        [] c.CompSub = 2 -> WriteExtPtfmFiles(d)
        [] OTHER -> <<>>)
  \o (CASE c.CompMooring = 1 -> File(MAP)
        [] c.CompMooring = 3 -> WriteMoorDynFiles(d)
        [] OTHER -> <<>>)
  \o WriteBeamDynFiles(d)
WritePlan_mainFirst(d) == File(Fst) \o WriteModuleFiles(d)
WritePlan(d) == WriteModuleFiles(d) \o File(Fst)

\* The names of the blades' files, given anew where the blades are written.
NewFiles(d, kind, files) ==
  IF <<kind, 0>> \in DOMAIN d THEN <<0, 0, 0>>
  ELSE IF BladesOf(d, kind) = <<>> THEN files
  ELSE [i \in 1..3 |-> IF <<kind, i>> \in DOMAIN d THEN i ELSE files[i]]

\* What is in the file of a part: the contents, less what the writer leaves out.
Stored(d, part) ==
  LET c == d[part] IN
  IF part \notin DOMAIN d THEN [ver |-> d[Fst].ver] ELSE
  CASE part = Fst -> [c EXCEPT !.files = NewFiles(d, "BD", @)]
    [] part = ED -> [c EXCEPT !.files = IF d[Fst].CompElast = 1
                                        THEN NewFiles(d, "EDBlade", @) ELSE @]
    [] part = AD -> [c EXCEPT !.files = NewFiles(d, "ADBlade", @),
                              !.UARad = IF {"UAStartRad", "UAEndRad"} \subseteq @ THEN @ ELSE {}]
    [] Kind(part) = "Polar" -> [c EXCEPT !.tables = SubSeq(@, 1, num_tab(c))]
    [] part = MAP -> [c EXCEPT !.types = IF @ > 1 THEN 1 ELSE @]
    [] OTHER -> c

-----------------------------------------------------------------------------

Nobody == [by |-> "nobody", state |-> "none"]

Init ==
  /\ \E a \in Assignments : source = a[1] /\ target = a[2]
  /\ disk = <<>>
  /\ pc = [p \in Programs |-> "loading"]
  /\ todo = [p \in Programs |-> <<>>]
  /\ vt = [p \in Programs |-> <<>>]
  /\ wrote = [p \in Programs |-> <<>>]
  /\ writer = [n \in Names |-> Nobody]
  /\ kills = 0

\* No two programs work on the same name at the same time.
Alone(p) == \A q \in Programs \ {p} : target[q] = target[p] => pc[q] \notin {"writing", "reading"}

\* Load the source, and change something in all of it (update).
Edited(d, p) == [part \in DOMAIN d |-> [d[part] EXCEPT !.ver = p]]
StartWrite(p) ==
  /\ pc[p] = "loading"
  /\ Alone(p)
  /\ LET edited == Edited(Loaded[source[p]][1], p)
     IN  /\ Loaded[source[p]][3] # "raised"
         /\ vt' = [vt EXCEPT ![p] = edited]
         /\ wrote' = [wrote EXCEPT ![p] = edited]
         /\ todo' = [todo EXCEPT ![p] = WritePlan(edited)]
  /\ pc' = [pc EXCEPT ![p] = "writing"]
  /\ writer' = [writer EXCEPT ![target[p]] = [by |-> p, state |-> "writing"]]
  /\ UNCHANGED <<source, target, disk, kills>>

Step(p) == Head(todo[p])
Done(p) == todo' = [todo EXCEPT ![p] = Tail(@)]

\* Opening a file empties it.
Open(p) ==
  /\ pc[p] = "writing" /\ Step(p)[1] = "open"
  /\ disk' = With(disk, FileOf(target[p], Step(p)[2]),
                  [Whole(Step(p)[2], Stored(vt[p], Step(p)[2])) EXCEPT !.done = 0])
  /\ Done(p)
  /\ UNCHANGED <<source, target, pc, vt, wrote, writer, kills>>

\* All of it is on the disk (flush, fsync, close).
Close(p) ==
  /\ pc[p] = "writing" /\ Step(p)[1] = "close"
  /\ disk' = With(disk, FileOf(target[p], Step(p)[2]),
                  Whole(Step(p)[2], Stored(vt[p], Step(p)[2])))
  /\ Done(p)
  /\ IF Tail(todo[p]) = <<>>
     THEN /\ pc' = [pc EXCEPT ![p] = "wrote"]
          /\ writer' = [writer EXCEPT ![target[p]].state = "whole"]
     ELSE UNCHANGED <<pc, writer>>
  /\ UNCHANGED <<source, target, vt, wrote, kills>>

\* The files that p has opened and not closed, which it is to close within three steps.
OpenFiles(p) ==
  LET next == {todo[p][i] : i \in {j \in 1..Len(todo[p]) : j <= 3}}
  IN  {FileOf(target[p], step[2]) : step \in {s \in next : s[2] # none /\ <<"open", s[2]>> \notin next}}

\* A program that ends early leaves in an open file what it has written of it: of the
\* lengths that read alike, the least.
Least(part, c, done) == \A less \in 0..(done - 1) : ReadUpTo(part, c, less) # ReadUpTo(part, c, done)
EndEarly(p) ==
  /\ \E left \in [OpenFiles(p) -> 0..MostSections] :
       /\ \A f \in DOMAIN left : left[f] < disk[f].all /\ Least(f[2], disk[f].c, left[f])
       /\ disk' = [f \in DOMAIN disk |->
                     IF f \in DOMAIN left THEN [disk[f] EXCEPT !.done = left[f]] ELSE disk[f]]
  /\ pc' = [pc EXCEPT ![p] = "cut"]
  /\ todo' = [todo EXCEPT ![p] = <<>>]
  /\ writer' = [writer EXCEPT ![target[p]].state = "cut"]

Raise(p) ==
  /\ pc[p] = "writing" /\ Step(p)[1] = "raise"
  /\ EndEarly(p)
  /\ UNCHANGED <<source, target, vt, wrote, kills>>

Kill(p) ==
  /\ pc[p] = "writing"
  /\ kills < MaxKills
  /\ kills' = kills + 1
  /\ EndEarly(p)
  /\ UNCHANGED <<source, target, vt, wrote>>

\* Read what is under the name, whether it was written whole or not.
StartRead_notCleared(p) ==
  /\ pc[p] \in {"wrote", "cut"}
  /\ Alone(p)
  /\ pc' = [pc EXCEPT ![p] = "reading"]
  /\ todo' = [todo EXCEPT ![p] = <<<<Fst, Fst>>>>]
  /\ UNCHANGED <<source, target, vt, wrote, disk, writer, kills>>
StartRead(p) ==
  /\ pc[p] \in {"wrote", "cut"}
  /\ Alone(p)
  /\ pc' = [pc EXCEPT ![p] = "reading"]
  /\ vt' = [vt EXCEPT ![p] = <<>>]
  /\ todo' = [todo EXCEPT ![p] = <<<<Fst, Fst>>>>]
  /\ UNCHANGED <<source, target, wrote, disk, writer, kills>>

\* A reader that hangs goes on reading nothing.
Read(p) ==
  /\ pc[p] = "reading"
  /\ \E r \in ReadNext(Under(target[p]), vt[p], todo[p]) :
       /\ r[3] # "hung"
       /\ vt' = [vt EXCEPT ![p] = r[1]]
       /\ todo' = [todo EXCEPT ![p] = r[2]]
       /\ pc' = [pc EXCEPT ![p] = IF r[3] = "raised" THEN "failed"
                                  ELSE IF r[2] = <<>> THEN "read" ELSE "reading"]
  /\ UNCHANGED <<source, target, wrote, disk, writer, kills>>

Act(p) == Open(p) \/ Close(p) \/ Raise(p) \/ Read(p)
Next == \E p \in Programs : StartWrite(p) \/ Act(p) \/ Kill(p) \/ StartRead(p)

Spec == Init /\ [][Next]_vars
\* A program that reads goes on; nobody has to write.
FairSpec == Spec /\ \A p \in Programs : WF_vars(Read(p))

-----------------------------------------------------------------------------

\* Types; and the blades of a kind have one dictionary for all or one for each, what is
\* cut has less in it than was to be written, and only a working program has work left.
TypeOK ==
  /\ source \in [Programs -> DOMAIN SourceFiles] /\ target \in [Programs -> Names]
  /\ \A p \in Programs :
       /\ pc[p] \in {"loading", "writing", "wrote", "cut", "reading", "read", "failed"}
       /\ todo[p] = <<>> \/ pc[p] \in {"writing", "reading", "failed"}
       /\ \A part \in DOMAIN vt[p] :
            /\ vt[p][part].ver \in Programs \cup {Incomplete}
            /\ <<Kind(part), 0>> \notin DOMAIN vt[p] \/ part[2] = 0
  /\ \A f \in DOMAIN disk : disk[f].done \in 0..disk[f].all
  /\ kills \in 0..MaxKills

\* What the writer or the reader loses of a deck, or cannot deal with.
Lossless(d) ==
  /\ ED \in DOMAIN d => d[ED].nodalChannels = 0
  /\ d[Fst].CompElast = 1 \/ BladesOf(d, "EDBlade") = <<>>
  /\ AD \in DOMAIN d => d[AD].UARad \in {{}, {"UAStartRad", "UAEndRad"}}
  /\ \A part \in DOMAIN d :
       /\ Kind(part) = "Polar" => num_tab(d[part]) = Len(d[part].tables)
       /\ Kind(part) = "HD" => d[part].NJOutputs <= 1 /\ (d[part].NBodyMod > 1 \/ d[part].NBody = 1)
       /\ Kind(part) = "MAP" => d[part].types = 1
       /\ Kind(part) = "WK" => FoldsCase /\ d[part].CurrentMod = 0

\* Nothing but the names of blade files differs between two sets of dictionaries.
Unnamed(c) == IF "files" \in DOMAIN c THEN [c EXCEPT !.files = <<>>] ELSE c
SameApartFromNames(d, e) ==
  DOMAIN d = DOMAIN e /\ \A part \in DOMAIN d : Unnamed(d[part]) = Unnamed(e[part])

\* The last write of the name that p reads was whole, and no other program has written
\* files of the same names as those that keep theirs, or left an old wake file there.
LastWriter(p) == writer[target[p]].by
Undisturbed(p) ==
  /\ writer[target[p]].state = "whole"
  /\ \A q \in Programs \ {LastWriter(p)} :
       /\ \A part \in DOMAIN wrote[q] \cap DOMAIN wrote[LastWriter(p)] : ~KeepsName(part)
       /\ target[q] = target[p] => OLAF \notin DOMAIN wrote[q]

\* A deck that was written whole reads back as it was, though another deck had been
\* written under its name or a program was killed while it wrote one (FAST_writer
\* write_* against FAST_reader read_*: every line on its place, END after every list,
\* the counts of every table, and the names that the files give each other).
ReadsBack(p) == pc'[p] = "read" /\ SameApartFromNames(vt'[p], wrote[LastWriter(p)])
EndsRead(p) == pc[p] = "reading" /\ pc'[p] # "reading"
RoundTrip ==
  [][\A p \in Programs :
       EndsRead(p) /\ Undisturbed(p) /\ Lossless(wrote[LastWriter(p)]) => ReadsBack(p)]_vars

\* What the writer may leave out, or not write under the name of the deck.
Elsewhere(part) == KeepsName(part) \/ Kind(part) \in {"OLAF", "DISCON", "EDBlade"}

\* Every part of a deck is there because of what is in another one.
AskedFor(d, part) ==
  LET c == d[Fst] IN
  \/ part = Fst
  \/ part \in (IF c.CompElast = 3 THEN {SED} ELSE {ED, Tower})
  \/ part = IfW /\ c.CompInflow = 1
  \/ part \in {ADsk, ADskProp} /\ c.CompAero = 1
  \/ /\ c.CompAero = 2
     /\ \/ part = AD
        \/ part \in {"ADBlade"} \X (IF <<"ADBlade", 0>> \in DOMAIN d THEN {0} ELSE 1..3)
        \/ part \in {"Polar"} \X (1..d[AD].NumAFfiles)
        \/ \E i \in 1..Len(d[AD].coords) : part = <<"Coord", d[AD].coords[i]>>
  \/ part = SrvD /\ c.CompServo = 1
  \/ part = HD /\ c.CompHydro = 1
  \/ part = SeaSt /\ c.CompSeaSt = 1
  \/ part = SubD /\ c.CompSub = 1
  \/ /\ c.CompSub = 2
     /\ \/ part \in {ExtP, SE}
        \/ part = Conn /\ d[ExtP].HasConnections = 1
        \/ part = UserF /\ d[ExtP].HasUserForcing = 1
        \/ part = ConnF /\ d[ExtP].HasConnForcing = 1
  \/ part = MAP /\ c.CompMooring = 1
  \/ part \in {MD, WK} /\ c.CompMooring = 3
  \/ \E i \in 0..3 :
       /\ part \in {<<"BD", i>>, <<"BDBlade", i>>}
       /\ <<"BD", i>> \in DOMAIN d
       /\ i = 0 \/ <<"BD", 0>> \notin DOMAIN d

\* Dictionaries as the reader makes them of a deck.
Options ==
  {"CompElast", "CompInflow", "CompAero", "CompServo", "CompHydro", "CompSeaSt", "CompSub", "CompMooring"}
AsRead(d) ==
  /\ Fst \in DOMAIN d /\ Options \subseteq DOMAIN d[Fst] /\ (ED \in DOMAIN d => "NumBl" \in DOMAIN d[ED])
  /\ \A part \in DOMAIN d : "ver" \in DOMAIN d[part] /\ (Elsewhere(part) \/ AskedFor(d, part))
  /\ d[Fst].CompAero = 2 =>
       /\ {"NumAFfiles", "coords"} \subseteq DOMAIN d[AD]
       /\ d[AD].NumAFfiles \in Nat /\ d[AD].coords \in Seq(Nat \ {0})
  /\ \A part \in DOMAIN d \cap {Fst, ED, AD} : "files" \in DOMAIN d[part] /\ d[part].files \in [1..3 -> Nat]
  /\ d[Fst].CompServo = 1 =>
       StCKinds \subseteq DOMAIN d[SrvD] /\ {d[SrvD].NStC, d[SrvD].BStC, d[SrvD].TStC, d[SrvD].SStC} \subseteq Nat

\* They have one dictionary for all blades of a kind, or one for each; they have what the
\* writer writes of them, apart from a wake file that was not found, and their files are
\* of known length and do not read as shorter ones.
ForAll(d, kind) == <<kind, 0>> \in DOMAIN d
ForEach(d, kind) ==
  /\ ED \in DOMAIN d /\ d[ED].NumBl > 2
  /\ ~ForAll(d, kind) /\ \A i \in 1..3 : <<kind, i>> \in DOMAIN d
BladesFit(d) ==
  /\ \A part \in DOMAIN d : part[2] = 0 \/ ~ForAll(d, Kind(part))
  /\ d[Fst].CompAero = 2 => ForAll(d, "ADBlade") \/ ForEach(d, "ADBlade")
  /\ BladesOf(d, "BD") # <<>> => ForAll(d, "BD") \/ ForEach(d, "BD")
FilesOf(d) == DOMAIN d \cup {OLAF}
Writable(d) ==
  /\ \A i \in 1..Len(WritePlan(d)) : WritePlan(d)[i][1] # "raise" => WritePlan(d)[i][2] \in FilesOf(d)
  /\ MD \in DOMAIN d /\ d[MD].WaterKin = 1 => WK \in DOMAIN d
  /\ \A part \in FilesOf(d) :
       LET length == Len(Written(part, Stored(d, part)))
       IN  length \in Nat /\ "short" \notin ReadUpTo(part, Stored(d, part), length)
LoadedAsRead ==
  \A deck \in DOMAIN SourceFiles, p \in Programs :
    Loaded[deck][3] # "raised" => AsRead(Edited(Loaded[deck][1], p))
LoadedWritable ==
  \A deck \in DOMAIN SourceFiles, p \in Programs :
    LET d == Edited(Loaded[deck][1], p)
    IN  Loaded[deck][3] # "raised" => BladesFit(d) /\ Writable(d)

\* A deck that is written where another one was does not look for files that only that
\* other one has: the controller's, and those of BeamDyn.
NoLeftovers ==
  \A a \in Assignments : \A p, q \in Programs :
    LET old == Edited(Loaded[a[1][p]][1], p)
        new == Edited(Loaded[a[1][q]][1], q)
    IN  a[2][p] = a[2][q] /\ Loaded[a[1][p]][3] # "raised" /\ Loaded[a[1][q]][3] # "raised" =>
          /\ DISCON \in DOMAIN old /\ new[Fst].CompServo = 1 /\ new[SrvD].DLL_InFile = 1
               => DISCON \in DOMAIN new
          /\ <<"BD", new[Fst].files[1]>> \in DOMAIN old => BladesOf(new, "BD") # <<>>

\* What a reader of the written deck reads of it.
AskedBack(d, part) ==
  LET c == d[Fst] IN
  \/ AskedFor(d, part)
  \/ part = <<"EDBlade", 0>> /\ c.CompElast = 1
  \/ part = OLAF /\ c.CompAero = 2 /\ d[AD].Wake_Mod = 3
  \/ /\ c.CompServo = 1
     /\ \/ part = DISCON /\ ROSCO /\ d[SrvD].DLL_InFile = 1
        \/ part = SpdTrq /\ d[SrvD].VSContrl = 3
        \/ \E kind \in StCKinds : part \in {kind} \X (1..d[SrvD][kind])

\* The main file is written last, so that one of this writer means that all the files
\* of its deck are there and whole, whenever it may be killed (execute).
MainLast ==
  \A n \in Names :
    LET main == FileOf(n, Fst)
        p == writer[n].by
    IN  main \in DOMAIN disk /\ p \in Programs /\ disk[main].c.ver = p
          /\ disk[main].done = disk[main].all
        => \A part \in DOMAIN wrote[p] :
             Elsewhere(part)
             \/ /\ FileOf(n, part) \in DOMAIN disk
                /\ disk[FileOf(n, part)].done = disk[FileOf(n, part)].all
                /\ disk[FileOf(n, part)].c.ver = p

\* What is read under a name that was written whole is of its last writer alone, and
\* a wake file that an earlier deck left (os.path.isfile(olaf_filename)).  The file of
\* the controller and those of BeamDyn are looked for in the same way; that no deck looks
\* for one that only an earlier deck of its name has is assumed (NoLeftovers).
ReadIsOneVersion ==
  [][\A p \in Programs :
       EndsRead(p) /\ pc'[p] = "read" /\ writer[target[p]].state = "whole"
         => \A part \in DOMAIN vt'[p] :
              KeepsName(part) \/ part = OLAF \/ vt'[p][part].ver = LastWriter(p)]_vars

\* The reader comes to an end with every deck that was written whole, with or without
\* an exception; after a write that was cut short it may look for END for ever, and so
\* it does for the end of a current profile, whose rows have no ends of line.
EveryReadEnds ==
  \A p \in Programs :
    /\ pc[p] = "reading" /\ writer[target[p]].state = "whole"
    /\ WK \in DOMAIN wrote[LastWriter(p)] => wrote[LastWriter(p)][WK].CurrentMod = 0
    ~> pc[p] # "reading"

\* "fst_vt for {folder} is not matching with the source" is a failed test: whatever the
\* deck, what is read back is what was written.
DocRoundTrip == [][\A p \in Programs : EndsRead(p) /\ Undisturbed(p) => ReadsBack(p)]_vars

=============================================================================
