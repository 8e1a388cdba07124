----------------------------- MODULE Deck_proofs -----------------------------
(***************************************************************************)
(* The main file of a deck is written last: one of a program means that    *)
(* all the files of its deck are there and whole, whenever a program is    *)
(* killed or raises.  First about the steps of execute as a sequence: what *)
(* they open they close, or they raise, and they close the file of every   *)
(* part that the reader can have made.  Then the inductive invariant, with *)
(* one lemma per action.                                                   *)
(***************************************************************************)
EXTENDS Deck, SequenceTheorems, TLAPS

\* The kinds of files apart from the main one, and the steps that write such files.
Kinds ==
  {"ED", "SED", "EDBlade", "Tower", "IfW", "AD", "ADBlade", "Polar", "Coord", "OLAF", "ADsk",
   "ADskProp", "SrvD", "DISCON", "BStC", "NStC", "TStC", "SStC", "spd_trq", "HD", "SeaSt", "SubD",
   "ExtP", "SE", "Conn", "UserF", "ConnF", "MAP", "MD", "WK", "BD", "BDBlade", "none"}
ModuleParts == Kinds \X Nat
Steps == {"open", "close", "raise"} \X ModuleParts

\* The step i closes the file of the part, or raises.
Closed(s, i, part) == s[i] = <<"close", part>> \/ s[i][1] = "raise"
Closes(s, part) == \E i \in 1..Len(s) : Closed(s, i, part)
\* Every file that the steps open they close later, or they raise.
Matched(s) ==
  \A i \in 1..Len(s) : s[i][1] = "open" => \E j \in 1..Len(s) : j > i /\ Closed(s, j, s[i][2])
\* Steps on files of modules that end what they begin.
Plan(s) == s \in Seq(Steps) /\ Matched(s)

\* The elements of two sequences one after the other.
LEMMA ConcatAt ==
  ASSUME NEW S, NEW a \in Seq(S), NEW b \in Seq(S)
  PROVE  /\ a \o b \in Seq(S) /\ Len(a \o b) = Len(a) + Len(b) /\ Len(a) \in Nat /\ Len(b) \in Nat
         /\ \A i \in 1..Len(a) : i \in 1..Len(a \o b) /\ (a \o b)[i] = a[i]
         /\ \A i \in 1..Len(b) : Len(a) + i \in 1..Len(a \o b) /\ (a \o b)[Len(a) + i] = b[i]
         /\ \A i \in 1..Len(a \o b) : i \in 1..Len(a) \/ \E j \in 1..Len(b) : i = Len(a) + j
<1>1. /\ a \o b \in Seq(S) /\ Len(a \o b) = Len(a) + Len(b)
      /\ \A i \in 1..(Len(a) + Len(b)) : (a \o b)[i] = IF i <= Len(a) THEN a[i] ELSE b[i - Len(a)]
  BY ConcatProperties
<1>2. Len(a) \in Nat /\ Len(b) \in Nat
  BY LenProperties
<1>3. ASSUME NEW i \in 1..Len(a) PROVE i \in 1..Len(a \o b) /\ (a \o b)[i] = a[i]
  BY <1>1, <1>2
<1>4. ASSUME NEW i \in 1..Len(b)
      PROVE  Len(a) + i \in 1..Len(a \o b) /\ (a \o b)[Len(a) + i] = b[i]
  <2>1. PICK k \in 1..(Len(a) + Len(b)) : k = Len(a) + i
    BY <1>2
  <2>2. (a \o b)[k] = b[k - Len(a)] /\ k - Len(a) = i
    BY <1>1, <1>2, <2>1
  <2>. QED BY <1>1, <2>1, <2>2
<1>5. ASSUME NEW i \in 1..Len(a \o b), i \notin 1..Len(a)
      PROVE  \E j \in 1..Len(b) : i = Len(a) + j
  <2>1. i - Len(a) \in 1..Len(b) /\ i = Len(a) + (i - Len(a))
    BY <1>1, <1>2, <1>5
  <2>. QED BY <2>1
<1>. QED BY <1>1, <1>2, <1>3, <1>4, <1>5

\* Plans one after the other are a plan, which closes what they close.
LEMMA ConcatPlan ==
  ASSUME NEW a, NEW b, Plan(a), Plan(b)
  PROVE  /\ Plan(a \o b)
         /\ \A part : Closes(a, part) \/ Closes(b, part) => Closes(a \o b, part)
<1>0. a \in Seq(Steps) /\ b \in Seq(Steps)
  BY DEF Plan
<1>. SUFFICES ASSUME NEW s, s = a \o b
              PROVE  Plan(s) /\ \A part : Closes(a, part) \/ Closes(b, part) => Closes(s, part)
  OBVIOUS
<1>1. /\ s \in Seq(Steps) /\ Len(s) = Len(a) + Len(b) /\ Len(a) \in Nat /\ Len(b) \in Nat
      /\ \A i \in 1..Len(a) : i \in 1..Len(s) /\ s[i] = a[i]
      /\ \A i \in 1..Len(b) : Len(a) + i \in 1..Len(s) /\ s[Len(a) + i] = b[i]
      /\ \A i \in 1..Len(s) : i \in 1..Len(a) \/ \E j \in 1..Len(b) : i = Len(a) + j
  BY <1>0, ConcatAt
<1>2. ASSUME NEW part, Closes(a, part) PROVE Closes(s, part)
  BY <1>1, <1>2 DEF Closes, Closed
<1>3. ASSUME NEW part, Closes(b, part) PROVE Closes(s, part)
  <2>1. PICK i \in 1..Len(b) : Closed(b, i, part)
    BY <1>3 DEF Closes
  <2>2. Len(a) + i \in 1..Len(s) /\ Closed(s, Len(a) + i, part)
    BY <1>1, <2>1 DEF Closed
  <2>. QED BY <2>2 DEF Closes
<1>4. ASSUME NEW i \in 1..Len(s), s[i][1] = "open"
      PROVE  \E j \in 1..Len(s) : j > i /\ Closed(s, j, s[i][2])
  <2>1. CASE i \in 1..Len(a)
    <3>1. a[i][1] = "open" /\ a[i] = s[i]
      BY <1>1, <1>4, <2>1
    <3>2. PICK j \in 1..Len(a) : j > i /\ Closed(a, j, a[i][2])
      BY <2>1, <3>1 DEF Plan, Matched
    <3>3. j \in 1..Len(s) /\ Closed(s, j, s[i][2])
      BY <1>1, <3>1, <3>2 DEF Closed
    <3>. QED BY <3>2, <3>3
  <2>2. ASSUME NEW k \in 1..Len(b), i = Len(a) + k
        PROVE  \E j \in 1..Len(s) : j > i /\ Closed(s, j, s[i][2])
    <3>1. b[k][1] = "open" /\ b[k] = s[i]
      BY <1>1, <1>4, <2>2
    <3>2. PICK j \in 1..Len(b) : j > k /\ Closed(b, j, b[k][2])
      BY <3>1 DEF Plan, Matched
    <3>3. Len(a) + j \in 1..Len(s) /\ s[Len(a) + j] = b[j]
      BY <1>1
    <3>4. Len(a) + j > i
      BY <1>1, <2>2, <3>2
    <3>5. Closed(s, Len(a) + j, s[i][2])
      BY <3>1, <3>2, <3>3 DEF Closed
    <3>. QED BY <3>3, <3>4, <3>5
  <2>. QED BY <1>1, <2>1, <2>2
<1>. QED BY <1>1, <1>2, <1>3, <1>4 DEF Plan, Matched

\* Writing nothing is a plan, and so is writing a file, or raising in one (File, Fails, FailsIn).
LEMMA NoPlan == Plan(<<>>)
BY EmptySeq DEF Plan, Matched

\* The steps on one file.
LEMMA StepOf ==
  ASSUME NEW part \in ModuleParts
  PROVE  {<<"open", part>>, <<"close", part>>, <<"raise", part>>} \subseteq Steps
BY DEF Steps

\* One file is opened and closed.
LEMMA FilePlan ==
  ASSUME NEW part \in ModuleParts
  PROVE  Plan(File(part)) /\ Closes(File(part), part)
<1>1. /\ File(part) \in Seq(Steps) /\ Len(File(part)) = 2
      /\ File(part)[1] = <<"open", part>> /\ File(part)[2] = <<"close", part>>
  BY DEF File, Steps
<1>2. Closes(File(part), part)
  BY <1>1 DEF Closes, Closed
<1>3. Matched(File(part))
  BY <1>1 DEF Matched, Closed
<1>. QED BY <1>1, <1>2, <1>3 DEF Plan

\* Steps that raise may leave open what they like.
LEMMA RaisePlan ==
  /\ Plan(Fails) /\ \A part : Closes(Fails, part)
  /\ \A part \in ModuleParts : Plan(FailsIn(part)) /\ \A other : Closes(FailsIn(part), other)
<1>1. /\ Fails \in Seq(Steps) /\ Len(Fails) = 1 /\ Fails[1][1] = "raise"
  BY DEF Fails, Steps, none, ModuleParts, Kinds
<1>2. Plan(Fails) /\ \A part : Closes(Fails, part)
  BY <1>1 DEF Plan, Matched, Closes, Closed
<1>3. ASSUME NEW part \in ModuleParts
      PROVE  Plan(FailsIn(part)) /\ \A other : Closes(FailsIn(part), other)
  <2>1. /\ FailsIn(part) \in Seq(Steps) /\ Len(FailsIn(part)) = 2
        /\ FailsIn(part)[1][1] = "open" /\ FailsIn(part)[2][1] = "raise"
    BY DEF FailsIn, Steps
  <2>2. \A other : Closes(FailsIn(part), other)
    BY <2>1 DEF Closes, Closed
  <2>3. Matched(FailsIn(part))
    BY <2>1 DEF Matched, Closed
  <2>. QED BY <2>1, <2>2, <2>3 DEF Plan
<1>. QED BY <1>2, <1>3

\* The files of a list of parts: step 2 * i closes that of part i.
LEMMA FilesPlan ==
  ASSUME NEW parts \in Seq(ModuleParts)
  PROVE  Plan(Files(parts)) /\ \A i \in 1..Len(parts) : Closes(Files(parts), parts[i])
<1>. DEFINE n == Len(parts)
<1>0. n \in Nat /\ \A i \in 1..n : parts[i] \in ModuleParts
  BY LenProperties, ElementOfSeq
<1>1. ASSUME NEW k \in 1..(2 * n)
      PROVE  (k + 1) \div 2 \in 1..n /\ (k % 2 = 1 \/ (k % 2 = 0 /\ (k + 1) \div 2 = k \div 2))
  BY <1>0
<1>2. ASSUME NEW k \in 1..(2 * n)
      PROVE  Files(parts)[k] = <<IF k % 2 = 1 THEN "open" ELSE "close", parts[(k + 1) \div 2]>>
  BY <1>0, <1>1 DEF Files, File
<1>3. Files(parts) \in Seq(Steps) /\ Len(Files(parts)) = 2 * n
  <2>1. ASSUME NEW k \in 1..(2 * n) PROVE Files(parts)[k] \in Steps
    <3>1. PICK part \in ModuleParts : part = parts[(k + 1) \div 2]
      BY <1>0, <1>1
    <3>2. Files(parts)[k] = <<"open", part>> \/ Files(parts)[k] = <<"close", part>>
      BY <1>2, <3>1
    <3>. QED BY <3>2, StepOf
  <2>. QED BY <1>0, <2>1 DEF Files
<1>4. ASSUME NEW i \in 1..n
      PROVE  2 * i \in 1..(2 * n) /\ Files(parts)[2 * i] = <<"close", parts[i]>>
  <2>1. 2 * i \in 1..(2 * n) /\ (2 * i) % 2 = 0 /\ (2 * i + 1) \div 2 = i
    BY <1>0
  <2>. QED BY <1>2, <2>1
<1>5. \A i \in 1..n : Closes(Files(parts), parts[i])
  BY <1>3, <1>4 DEF Closes, Closed
<1>6. ASSUME NEW k \in 1..(2 * n), Files(parts)[k][1] = "open"
      PROVE  \E j \in 1..(2 * n) : j > k /\ Closed(Files(parts), j, Files(parts)[k][2])
  <2>1. k % 2 = 1 /\ Files(parts)[k] = <<"open", parts[(k + 1) \div 2]>>
    BY <1>1, <1>2, <1>6
  <2>2. PICK i \in 1..n : i = (k + 1) \div 2
    BY <1>1
  <2>3. 2 * i > k
    BY <1>0, <2>1, <2>2
  <2>. QED BY <1>4, <2>1, <2>2, <2>3 DEF Closed
<1>. QED BY <1>3, <1>5, <1>6 DEF Plan, Matched

\* The element is in the sequence.
Has(s, x) == \E i \in 1..Len(s) : s[i] = x

\* What is in one of two sequences is in both of them together.
LEMMA ConcatHas ==
  ASSUME NEW S, NEW a \in Seq(S), NEW b \in Seq(S)
  PROVE  /\ a \o b \in Seq(S)
         /\ \A x : Has(a, x) \/ Has(b, x) => Has(a \o b, x)
<1>. SUFFICES ASSUME NEW s, s = a \o b
              PROVE  s \in Seq(S) /\ \A x : Has(a, x) \/ Has(b, x) => Has(s, x)
  OBVIOUS
<1>1. /\ s \in Seq(S)
      /\ \A i \in 1..Len(a) : i \in 1..Len(s) /\ s[i] = a[i]
      /\ \A i \in 1..Len(b) : Len(a) + i \in 1..Len(s) /\ s[Len(a) + i] = b[i]
  BY ConcatAt
<1>2. ASSUME NEW x, Has(a, x) PROVE Has(s, x)
  BY <1>1, <1>2 DEF Has
<1>3. ASSUME NEW x, Has(b, x) PROVE Has(s, x)
  <2>1. PICK i \in 1..Len(b) : b[i] = x
    BY <1>3 DEF Has
  <2>2. Len(a) + i \in 1..Len(s) /\ s[Len(a) + i] = x
    BY <1>1, <2>1
  <2>. QED BY <2>2 DEF Has
<1>. QED BY <1>1, <1>2, <1>3

\* The same as FilesPlan, for the parts in the list.
LEMMA FilesHave ==
  ASSUME NEW parts \in Seq(ModuleParts)
  PROVE  Plan(Files(parts)) /\ \A part : Has(parts, part) => Closes(Files(parts), part)
BY FilesPlan DEF Has

\* Steps, or parts, that are there on a condition.
LEMMA PartPlan ==
  ASSUME NEW cond, NEW s, cond => Plan(s)
  PROVE  /\ Plan(Part(cond, s))
         /\ \A part : cond /\ Closes(s, part) => Closes(Part(cond, s), part)
BY NoPlan DEF Part

\* Lists of one part, of the parts of a kind, of the airfoils with coordinates, and of blades.
LEMMA OneParts ==
  ASSUME NEW part \in ModuleParts
  PROVE  /\ <<part>> \in Seq(ModuleParts) /\ Has(<<part>>, part)
         /\ \A cond : Part(cond, <<part>>) \in Seq(ModuleParts)
                     /\ (cond => Has(Part(cond, <<part>>), part))
<1>1. <<part>> \in Seq(ModuleParts) /\ Has(<<part>>, part)
  BY DEF Has
<1>. QED BY <1>1, EmptySeq DEF Part

\* A part for each index.
LEMMA SeveralParts ==
  ASSUME NEW kind \in Kinds, NEW n \in Nat
  PROVE  Several(kind, n) \in Seq(ModuleParts) /\ \A i \in 1..n : Has(Several(kind, n), <<kind, i>>)
<1>1. \A i \in 1..n : <<kind, i>> \in ModuleParts
  BY DEF ModuleParts
<1>2. Several(kind, n) \in Seq(ModuleParts) /\ Len(Several(kind, n)) = n
  BY <1>1 DEF Several
<1>. QED BY <1>2 DEF Has, Several

\* The airfoils that have coordinates (af_coords).
LEMMA CoordinatesParts ==
  ASSUME NEW c, c.coords \in Seq(Nat \ {0})
  PROVE  /\ Coordinates(c) \in Seq(ModuleParts)
         /\ \A i \in 1..Len(c.coords) : Has(Coordinates(c), <<"Coord", c.coords[i]>>)
<1>0. Len(c.coords) \in Nat /\ \A i \in 1..Len(c.coords) : c.coords[i] \in Nat
  BY LenProperties, ElementOfSeq
<1>1. \A i \in 1..Len(c.coords) : <<"Coord", c.coords[i]>> \in ModuleParts
  BY <1>0 DEF ModuleParts, Kinds
<1>2. Coordinates(c) \in Seq(ModuleParts) /\ Len(Coordinates(c)) = Len(c.coords)
  BY <1>0, <1>1 DEF Coordinates
<1>. QED BY <1>2 DEF Has, Coordinates

\* The blades that have dictionaries: the one for all, or those of three.
LEMMA BladesParts ==
  ASSUME NEW d, NEW kind \in Kinds
  PROVE  /\ BladesOf(d, kind) \in Seq(ModuleParts)
         /\ <<kind, 0>> \in DOMAIN d => Has(BladesOf(d, kind), <<kind, 0>>)
         /\ <<kind, 0>> \notin DOMAIN d =>
              \A i \in 1..3 : <<kind, i>> \in DOMAIN d => Has(BladesOf(d, kind), <<kind, i>>)
<1>1. ASSUME NEW i \in 0..3
      PROVE  /\ <<kind, i>> \in ModuleParts
             /\ <<<<kind, i>>>> \in Seq(ModuleParts) /\ Has(<<<<kind, i>>>>, <<kind, i>>)
             /\ Blade(d, kind, i) \in Seq(ModuleParts)
             /\ <<kind, i>> \in DOMAIN d => Has(Blade(d, kind, i), <<kind, i>>)
  <2>1. <<kind, i>> \in ModuleParts
    BY DEF ModuleParts
  <2>. QED BY <2>1, OneParts DEF Blade
<1>2. CASE <<kind, 0>> \in DOMAIN d
  BY <1>1, <1>2 DEF BladesOf
<1>3. CASE <<kind, 0>> \notin DOMAIN d
  <2>1. PICK a, b, c : a = Blade(d, kind, 1) /\ b = Blade(d, kind, 2) /\ c = Blade(d, kind, 3)
    OBVIOUS
  <2>2. /\ a \in Seq(ModuleParts) /\ b \in Seq(ModuleParts) /\ c \in Seq(ModuleParts)
        /\ <<kind, 1>> \in DOMAIN d => Has(a, <<kind, 1>>)
        /\ <<kind, 2>> \in DOMAIN d => Has(b, <<kind, 2>>)
        /\ <<kind, 3>> \in DOMAIN d => Has(c, <<kind, 3>>)
    BY <1>1, <2>1
  <2>3. BladesOf(d, kind) = a \o b \o c
    BY <1>3, <2>1 DEF BladesOf
  <2>4. a \o b \in Seq(ModuleParts) /\ \A x : Has(a, x) \/ Has(b, x) => Has(a \o b, x)
    BY <2>2, ConcatHas
  <2>5. a \o b \o c \in Seq(ModuleParts) /\ \A x : Has(a \o b, x) \/ Has(c, x) => Has(a \o b \o c, x)
    BY <2>2, <2>4, ConcatHas
  <2>6. \A i \in 1..3 : i = 1 \/ i = 2 \/ i = 3
    OBVIOUS
  <2>. QED BY <1>3, <2>2, <2>3, <2>4, <2>5, <2>6
<1>. QED BY <1>2, <1>3

-----------------------------------------------------------------------------

\* The parts of which there is at most one.
Single ==
  {ED, SED, Tower, IfW, AD, OLAF, ADsk, ADskProp, SrvD, DISCON, SpdTrq, HD, SeaSt, SubD, ExtP, SE,
   Conn, UserF, ConnF, MAP, MD, WK}
\* They are parts of modules.
LEMMA SingleParts == Single \subseteq ModuleParts
BY DEF Single, ModuleParts, Kinds, ED, SED, Tower, IfW, AD, OLAF, ADsk, ADskProp, SrvD, DISCON, SpdTrq,
       HD, SeaSt, SubD, ExtP, SE, Conn, UserF, ConnF, MAP, MD, WK

\* Writing one of them, on a condition or not, or raising.
LEMMA SinglePlan ==
  ASSUME NEW part \in Single
  PROVE  /\ Plan(File(part)) /\ Closes(File(part), part)
         /\ Plan(FailsIn(part)) /\ \A other : Closes(FailsIn(part), other)
         /\ Plan(Fails) /\ \A other : Closes(Fails, other)
         /\ \A cond : Plan(Part(cond, File(part))) /\ (cond => Closes(Part(cond, File(part)), part))
BY SingleParts, FilePlan, RaisePlan, PartPlan

\* write_SimpleElastoDyn, or the blades of ElastoDyn, its tower and its own file.
LEMMA ElastoDynPlan ==
  ASSUME NEW d
  PROVE  /\ Plan(WriteElastoDynFiles(d))
         /\ \A part \in (IF d[Fst].CompElast = 3 THEN {SED} ELSE {ED, Tower}) :
              Closes(WriteElastoDynFiles(d), part)
         /\ d[Fst].CompElast = 1 => Closes(WriteElastoDynFiles(d), <<"EDBlade", 0>>)
<1>1. {SED, ED, Tower} \subseteq Single /\ <<"EDBlade", 0>> \in ModuleParts
  BY DEF Single, ModuleParts, Kinds
<1>2. CASE d[Fst].CompElast = 3
  <2>1. d[Fst].CompElast # 1 /\ WriteElastoDynFiles(d) = File(SED)
    BY <1>2 DEF WriteElastoDynFiles
  <2>. QED BY <1>1, <1>2, <2>1, SinglePlan
<1>3. CASE d[Fst].CompElast # 3
  <2>1. PICK a : a = Part(d[Fst].CompElast = 1, IF <<"EDBlade", 0>> \in DOMAIN d
                                                THEN File(<<"EDBlade", 0>>) ELSE Fails)
    OBVIOUS
  <2>2. Plan(a) /\ (d[Fst].CompElast = 1 => Closes(a, <<"EDBlade", 0>>))
    BY <1>1, <2>1, FilePlan, RaisePlan, NoPlan DEF Part
  <2>3. /\ Plan(a \o File(Tower)) /\ Closes(a \o File(Tower), Tower)
        /\ d[Fst].CompElast = 1 => Closes(a \o File(Tower), <<"EDBlade", 0>>)
    BY <1>1, <2>2, SinglePlan, ConcatPlan
  <2>4. /\ Plan(a \o File(Tower) \o File(ED)) /\ Closes(a \o File(Tower) \o File(ED), Tower)
        /\ Closes(a \o File(Tower) \o File(ED), ED)
        /\ d[Fst].CompElast = 1 => Closes(a \o File(Tower) \o File(ED), <<"EDBlade", 0>>)
    BY <1>1, <2>3, SinglePlan, ConcatPlan
  <2>5. WriteElastoDynFiles(d) = a \o File(Tower) \o File(ED)
    BY <1>3, <2>1 DEF WriteElastoDynFiles
  <2>. QED BY <1>3, <2>4, <2>5
<1>. QED BY <1>2, <1>3

\* write_AeroDyn: its blades, its polars, the coordinates, the wake, and its own file.
LEMMA AeroDynPlan ==
  ASSUME NEW d, d[AD].NumAFfiles \in Nat, d[AD].coords \in Seq(Nat \ {0})
  PROVE  /\ Plan(WriteAeroDynFiles(d))
         /\ Closes(WriteAeroDynFiles(d), AD)
         /\ \A part \in DOMAIN d : part \in {"ADBlade"} \X (IF <<"ADBlade", 0>> \in DOMAIN d THEN {0} ELSE 1..3)
              => Closes(WriteAeroDynFiles(d), part)
         /\ \A i \in 1..d[AD].NumAFfiles : Closes(WriteAeroDynFiles(d), <<"Polar", i>>)
         /\ \A i \in 1..Len(d[AD].coords) : Closes(WriteAeroDynFiles(d), <<"Coord", d[AD].coords[i]>>)
         /\ d[AD].Wake_Mod = 3 => Closes(WriteAeroDynFiles(d), OLAF)
<1>1. {"ADBlade", "Polar"} \subseteq Kinds /\ {AD, OLAF} \subseteq Single /\ <<"Polar", 1>> \in ModuleParts
  BY DEF Kinds, Single, ModuleParts
<1>2. PICK b : b = Files(BladesOf(d, "ADBlade"))
  OBVIOUS
<1>3. /\ Plan(b)
      /\ \A part \in DOMAIN d : part \in {"ADBlade"} \X (IF <<"ADBlade", 0>> \in DOMAIN d THEN {0} ELSE 1..3)
           => Closes(b, part)
  <2>1. /\ BladesOf(d, "ADBlade") \in Seq(ModuleParts)
        /\ <<"ADBlade", 0>> \in DOMAIN d => Has(BladesOf(d, "ADBlade"), <<"ADBlade", 0>>)
        /\ <<"ADBlade", 0>> \notin DOMAIN d =>
             \A i \in 1..3 : <<"ADBlade", i>> \in DOMAIN d => Has(BladesOf(d, "ADBlade"), <<"ADBlade", i>>)
    BY <1>1, BladesParts
  <2>2. Plan(b) /\ \A part : Has(BladesOf(d, "ADBlade"), part) => Closes(b, part)
    BY <1>2, <2>1, FilesHave
  <2>3. ASSUME NEW part \in DOMAIN d,
               part \in {"ADBlade"} \X (IF <<"ADBlade", 0>> \in DOMAIN d THEN {0} ELSE 1..3)
        PROVE  Has(BladesOf(d, "ADBlade"), part)
    <3>1. CASE <<"ADBlade", 0>> \in DOMAIN d
      <4>1. part = <<"ADBlade", 0>>
        BY <2>3, <3>1
      <4>. QED BY <2>1, <3>1, <4>1
    <3>2. CASE <<"ADBlade", 0>> \notin DOMAIN d
      <4>1. PICK i \in 1..3 : part = <<"ADBlade", i>>
        BY <2>3, <3>2
      <4>. QED BY <2>1, <2>3, <3>2, <4>1
    <3>. QED BY <3>1, <3>2
  <2>. QED BY <2>2, <2>3
<1>4. PICK p : p = IF d[AD].NumAFfiles > 0 /\ d[AD].InCol_Cm > 0 /\ d[AD].InCol_Cpmin > 0
                   THEN FailsIn(<<"Polar", 1>>) ELSE Files(Several("Polar", d[AD].NumAFfiles))
  OBVIOUS
<1>5. Plan(p) /\ \A i \in 1..d[AD].NumAFfiles : Closes(p, <<"Polar", i>>)
  <2>1. /\ Several("Polar", d[AD].NumAFfiles) \in Seq(ModuleParts)
        /\ \A i \in 1..d[AD].NumAFfiles : Has(Several("Polar", d[AD].NumAFfiles), <<"Polar", i>>)
    BY <1>1, SeveralParts
  <2>. QED BY <1>1, <1>4, <2>1, FilesHave, RaisePlan
<1>6. PICK c : c = Files(Coordinates(d[AD]))
  OBVIOUS
<1>7. Plan(c) /\ \A i \in 1..Len(d[AD].coords) : Closes(c, <<"Coord", d[AD].coords[i]>>)
  BY <1>6, CoordinatesParts, FilesHave
<1>8. PICK w : w = Part(d[AD].Wake_Mod = 3,
                        IF d[AD].UA_Mod > 0 THEN Fails
                        ELSE IF OLAF \in DOMAIN d THEN File(OLAF) ELSE FailsIn(OLAF))
  OBVIOUS
<1>9. Plan(w) /\ (d[AD].Wake_Mod = 3 => Closes(w, OLAF))
  BY <1>1, <1>8, SinglePlan, NoPlan DEF Part
<1>10. Plan(b \o p) /\ \A part : Closes(b, part) \/ Closes(p, part) => Closes(b \o p, part)
  BY <1>3, <1>5, ConcatPlan
<1>11. Plan(b \o p \o c) /\ \A part : Closes(b \o p, part) \/ Closes(c, part) => Closes(b \o p \o c, part)
  BY <1>7, <1>10, ConcatPlan
<1>12. Plan(b \o p \o c \o w) /\ \A part : Closes(b \o p \o c, part) \/ Closes(w, part) => Closes(b \o p \o c \o w, part)
  BY <1>9, <1>11, ConcatPlan
<1>13. /\ Plan(b \o p \o c \o w \o File(AD)) /\ Closes(b \o p \o c \o w \o File(AD), AD)
       /\ \A part : Closes(b \o p \o c \o w, part) => Closes(b \o p \o c \o w \o File(AD), part)
  BY <1>1, <1>12, SinglePlan, ConcatPlan
<1>14. WriteAeroDynFiles(d) = b \o p \o c \o w \o File(AD)
  BY <1>2, <1>4, <1>6, <1>8 DEF WriteAeroDynFiles
<1>. QED BY <1>3, <1>5, <1>7, <1>9, <1>10, <1>11, <1>12, <1>13, <1>14

\* write_AeroDisk: its file stays open while that of the properties is written.
LEMMA AeroDiskPlan ==
  ASSUME NEW d
  PROVE  Plan(WriteAeroDiskFiles(d)) /\ \A part \in {ADsk, ADskProp} : Closes(WriteAeroDiskFiles(d), part)
<1>1. {ADsk, ADskProp} \subseteq ModuleParts
  BY SingleParts DEF Single
<1>2. PICK a, b, c : a = <<<<"open", ADsk>>>> /\ b = File(ADskProp) /\ c = <<<<"close", ADsk>>>>
  OBVIOUS
<1>3. /\ a \in Seq(Steps) /\ Len(a) = 1 /\ a[1] = <<"open", ADsk>>
      /\ b \in Seq(Steps) /\ Len(b) = 2 /\ b[1] = <<"open", ADskProp>> /\ b[2] = <<"close", ADskProp>>
      /\ c \in Seq(Steps) /\ Len(c) = 1 /\ c[1] = <<"close", ADsk>>
  <2>1. \A x \in Steps, y \in Steps : /\ <<x>> \in Seq(Steps) /\ Len(<<x>>) = 1 /\ <<x>>[1] = x
                                    /\ <<x, y>> \in Seq(Steps) /\ Len(<<x, y>>) = 2
                                    /\ <<x, y>>[1] = x /\ <<x, y>>[2] = y
    OBVIOUS
  <2>2. {<<"open", ADsk>>, <<"close", ADsk>>, <<"open", ADskProp>>, <<"close", ADskProp>>} \subseteq Steps
    BY <1>1, StepOf
  <2>. QED BY <1>2, <2>1, <2>2 DEF File
<1>4. PICK s : s = WriteAeroDiskFiles(d)
  OBVIOUS
<1>5. PICK t : t = a \o b
  OBVIOUS
<1>6. t \in Seq(Steps) /\ Len(t) = 3 /\ t[1] = a[1] /\ t[2] = b[1] /\ t[3] = b[2]
  <2>1. t \in Seq(Steps) /\ Len(t) = 3 /\ \A i \in 1..3 : t[i] = IF i <= 1 THEN a[i] ELSE b[i - 1]
    BY <1>3, <1>5, ConcatProperties
  <2>. QED BY <2>1
<1>7. s \in Seq(Steps) /\ Len(s) = 4 /\ s[1] = t[1] /\ s[2] = t[2] /\ s[3] = t[3] /\ s[4] = c[1]
  <2>1. s = t \o c
    BY <1>2, <1>4, <1>5 DEF WriteAeroDiskFiles
  <2>2. /\ s \in Seq(Steps) /\ Len(s) = Len(t) + Len(c)
        /\ \A i \in 1..(Len(t) + Len(c)) : s[i] = IF i <= Len(t) THEN t[i] ELSE c[i - Len(t)]
    <3>1. t \in Seq(Steps) /\ c \in Seq(Steps)
      BY <1>3, <1>6
    <3>. QED BY <2>1, <3>1, ConcatProperties
  <2>3. Len(t) = 3 /\ Len(c) = 1
    BY <1>3, <1>6
  <2>4. Len(s) = 4 /\ \A i \in 1..4 : s[i] = IF i <= 3 THEN t[i] ELSE c[i - 3]
    BY <2>2, <2>3
  <2>5. s[1] = t[1] /\ s[2] = t[2] /\ s[3] = t[3]
    BY <2>4
  <2>6. s[4] = c[1]
    BY <2>4
  <2>. QED BY <2>2, <2>4, <2>5, <2>6
<1>8. /\ s \in Seq(Steps) /\ Len(s) = 4
      /\ s[1] = <<"open", ADsk>> /\ s[2] = <<"open", ADskProp>>
      /\ s[3] = <<"close", ADskProp>> /\ s[4] = <<"close", ADsk>>
  BY <1>3, <1>6, <1>7
<1>9. Closes(s, ADsk) /\ Closes(s, ADskProp)
  BY <1>8 DEF Closes, Closed
<1>10. Closed(s, 4, s[1][2]) /\ Closed(s, 3, s[2][2]) /\ s[3][1] # "open" /\ s[4][1] # "open"
  BY <1>8 DEF Closed
<1>11. Matched(s)
  BY <1>8, <1>10 DEF Matched
<1>. QED BY <1>4, <1>8, <1>9, <1>11 DEF Plan

\* write_ServoDyn: its own file is written whatever becomes of the controller's.
LEMMA ServoDynPlan ==
  ASSUME NEW d, {d[SrvD].NStC, d[SrvD].BStC, d[SrvD].TStC, d[SrvD].SStC} \subseteq Nat
  PROVE  /\ Plan(WriteServoDynFiles(d)) /\ Closes(WriteServoDynFiles(d), SrvD)
         /\ ROSCO /\ DISCON \in DOMAIN d => Closes(WriteServoDynFiles(d), DISCON)
         /\ d[SrvD].VSContrl = 3 => Closes(WriteServoDynFiles(d), SpdTrq)
         /\ \A kind \in StCKinds : \A i \in 1..d[SrvD][kind] : Closes(WriteServoDynFiles(d), <<kind, i>>)
<1>1. {DISCON, SrvD, SpdTrq} \subseteq Single /\ StCKinds \subseteq Kinds
  BY DEF Single, Kinds, StCKinds
<1>2. PICK a : a = Part(ROSCO /\ DISCON \in DOMAIN d, IF d[DISCON].Cp_table = 1 THEN File(DISCON) ELSE Fails)
  OBVIOUS
<1>3. Plan(a) /\ (ROSCO /\ DISCON \in DOMAIN d => Closes(a, DISCON))
  BY <1>1, <1>2, SinglePlan, NoPlan DEF Part
<1>4. PICK n, b, t, c : /\ n = Several("NStC", d[SrvD].NStC) /\ b = Several("BStC", d[SrvD].BStC)
                        /\ t = Several("TStC", d[SrvD].TStC) /\ c = Several("SStC", d[SrvD].SStC)
  OBVIOUS
<1>5. /\ n \in Seq(ModuleParts) /\ \A i \in 1..d[SrvD].NStC : Has(n, <<"NStC", i>>)
      /\ b \in Seq(ModuleParts) /\ \A i \in 1..d[SrvD].BStC : Has(b, <<"BStC", i>>)
      /\ t \in Seq(ModuleParts) /\ \A i \in 1..d[SrvD].TStC : Has(t, <<"TStC", i>>)
      /\ c \in Seq(ModuleParts) /\ \A i \in 1..d[SrvD].SStC : Has(c, <<"SStC", i>>)
  BY <1>1, <1>4, SeveralParts DEF StCKinds
<1>6. n \o b \in Seq(ModuleParts) /\ \A x : Has(n, x) \/ Has(b, x) => Has(n \o b, x)
  BY <1>5, ConcatHas
<1>7. n \o b \o t \in Seq(ModuleParts) /\ \A x : Has(n \o b, x) \/ Has(t, x) => Has(n \o b \o t, x)
  BY <1>5, <1>6, ConcatHas
<1>8. /\ n \o b \o t \o c \in Seq(ModuleParts)
      /\ \A x : Has(n \o b \o t, x) \/ Has(c, x) => Has(n \o b \o t \o c, x)
  BY <1>5, <1>7, ConcatHas
<1>9. PICK f : f = Files(n \o b \o t \o c)
  OBVIOUS
<1>10. Plan(f) /\ \A kind \in StCKinds : \A i \in 1..d[SrvD][kind] : Closes(f, <<kind, i>>)
  <2>1. Plan(f) /\ \A x : Has(n \o b \o t \o c, x) => Closes(f, x)
    BY <1>8, <1>9, FilesHave
  <2>2. \A x : Has(n, x) \/ Has(b, x) \/ Has(t, x) \/ Has(c, x) => Closes(f, x)
    BY <1>6, <1>7, <1>8, <2>1
  <2>. QED BY <1>5, <2>1, <2>2 DEF StCKinds
<1>11. /\ Plan(a \o File(SrvD)) /\ Closes(a \o File(SrvD), SrvD)
       /\ \A x : Closes(a, x) => Closes(a \o File(SrvD), x)
  BY <1>1, <1>3, SinglePlan, ConcatPlan
<1>12. /\ Plan(a \o File(SrvD) \o f)
       /\ \A x : Closes(a \o File(SrvD), x) \/ Closes(f, x) => Closes(a \o File(SrvD) \o f, x)
  BY <1>10, <1>11, ConcatPlan
<1>13. PICK v : v = Part(d[SrvD].VSContrl = 3, File(SpdTrq))
  OBVIOUS
<1>14. Plan(v) /\ (d[SrvD].VSContrl = 3 => Closes(v, SpdTrq))
  BY <1>1, <1>13, SinglePlan
<1>15. /\ Plan(a \o File(SrvD) \o f \o v)
       /\ \A x : Closes(a \o File(SrvD) \o f, x) \/ Closes(v, x) => Closes(a \o File(SrvD) \o f \o v, x)
  BY <1>12, <1>14, ConcatPlan
<1>16. WriteServoDynFiles(d) = a \o File(SrvD) \o f \o v
  BY <1>2, <1>4, <1>9, <1>13 DEF WriteServoDynFiles
<1>. QED BY <1>3, <1>10, <1>11, <1>12, <1>14, <1>15, <1>16

\* write_ExtPtfm: the files that its switches ask for, then its own.
LEMMA ExtPtfmPlan ==
  ASSUME NEW d
  PROVE  /\ Plan(WriteExtPtfmFiles(d))
         /\ \A part \in {ExtP, SE} : Closes(WriteExtPtfmFiles(d), part)
         /\ d[ExtP].HasConnections = 1 => Closes(WriteExtPtfmFiles(d), Conn)
         /\ d[ExtP].HasUserForcing = 1 => Closes(WriteExtPtfmFiles(d), UserF)
         /\ d[ExtP].HasConnForcing = 1 => Closes(WriteExtPtfmFiles(d), ConnF)
<1>1. {ExtP, SE, Conn, UserF, ConnF} \subseteq ModuleParts
  BY SingleParts DEF Single
<1>2. PICK a, b, c : /\ a = Part(d[ExtP].HasConnections = 1, <<Conn>>)
                     /\ b = Part(d[ExtP].HasUserForcing = 1, <<UserF>>)
                     /\ c = Part(d[ExtP].HasConnForcing = 1, <<ConnF>>)
  OBVIOUS
<1>3. /\ a \in Seq(ModuleParts) /\ (d[ExtP].HasConnections = 1 => Has(a, Conn))
      /\ b \in Seq(ModuleParts) /\ (d[ExtP].HasUserForcing = 1 => Has(b, UserF))
      /\ c \in Seq(ModuleParts) /\ (d[ExtP].HasConnForcing = 1 => Has(c, ConnF))
  BY <1>1, <1>2, OneParts
<1>4. /\ <<SE>> \in Seq(ModuleParts) /\ Has(<<SE>>, SE)
      /\ <<ExtP>> \in Seq(ModuleParts) /\ Has(<<ExtP>>, ExtP)
  BY <1>1, OneParts
<1>5. <<SE>> \o a \in Seq(ModuleParts) /\ \A x : Has(<<SE>>, x) \/ Has(a, x) => Has(<<SE>> \o a, x)
  BY <1>3, <1>4, ConcatHas
<1>6. /\ <<SE>> \o a \o b \in Seq(ModuleParts)
      /\ \A x : Has(<<SE>> \o a, x) \/ Has(b, x) => Has(<<SE>> \o a \o b, x)
  BY <1>3, <1>5, ConcatHas
<1>7. /\ <<SE>> \o a \o b \o c \in Seq(ModuleParts)
      /\ \A x : Has(<<SE>> \o a \o b, x) \/ Has(c, x) => Has(<<SE>> \o a \o b \o c, x)
  BY <1>3, <1>6, ConcatHas
<1>8. /\ <<SE>> \o a \o b \o c \o <<ExtP>> \in Seq(ModuleParts)
      /\ \A x : Has(<<SE>> \o a \o b \o c, x) \/ Has(<<ExtP>>, x) => Has(<<SE>> \o a \o b \o c \o <<ExtP>>, x)
  BY <1>4, <1>7, ConcatHas
<1>9. WriteExtPtfmFiles(d) = Files(<<SE>> \o a \o b \o c \o <<ExtP>>)
  BY <1>2 DEF WriteExtPtfmFiles
<1>10. /\ Plan(WriteExtPtfmFiles(d))
       /\ \A part : Has(<<SE>> \o a \o b \o c \o <<ExtP>>, part) => Closes(WriteExtPtfmFiles(d), part)
  BY <1>8, <1>9, FilesHave
<1>. QED BY <1>3, <1>4, <1>5, <1>6, <1>7, <1>8, <1>10

\* write_MoorDyn: its own file and that of the water kinematics, or it raises.
LEMMA MoorDynPlan ==
  ASSUME NEW d
  PROVE  /\ Plan(WriteMoorDynFiles(d))
         /\ \A part \in {MD, WK} : part = MD \/ part \in DOMAIN d => Closes(WriteMoorDynFiles(d), part)
<1>1. {MD, WK} \subseteq Single
  BY DEF Single
<1>2. CASE d[MD].rods > 0
  BY <1>1, <1>2, SinglePlan DEF WriteMoorDynFiles
<1>3. ASSUME ~(d[MD].rods > 0)
      PROVE  /\ Plan(WriteMoorDynFiles(d))
             /\ \A part \in {MD, WK} : part = MD \/ part \in DOMAIN d => Closes(WriteMoorDynFiles(d), part)
  <2>1. PICK w : w = Part(WK \in DOMAIN d, IF d[WK].CurrentMod = 2 THEN FailsIn(WK) ELSE File(WK))
    OBVIOUS
  <2>2. Plan(w) /\ (WK \in DOMAIN d => Closes(w, WK))
    BY <1>1, <2>1, SinglePlan, NoPlan DEF Part
  <2>3. /\ Plan(File(MD) \o w) /\ Closes(File(MD) \o w, MD)
        /\ WK \in DOMAIN d => Closes(File(MD) \o w, WK)
    BY <1>1, <2>2, SinglePlan, ConcatPlan
  <2>4. WriteMoorDynFiles(d) = File(MD) \o w
    BY <1>3, <2>1 DEF WriteMoorDynFiles
  <2>. QED BY <2>3, <2>4
<1>. QED BY <1>2, <1>3

\* write_BeamDyn: two files for all blades, or two for each.
LEMMA BeamDynPlan ==
  ASSUME NEW d
  PROVE  /\ Plan(WriteBeamDynFiles(d))
         /\ \A i \in 0..3 : <<"BD", i>> \in DOMAIN d /\ (i = 0 \/ <<"BD", 0>> \notin DOMAIN d)
              => Closes(WriteBeamDynFiles(d), <<"BD", i>>) /\ Closes(WriteBeamDynFiles(d), <<"BDBlade", i>>)
<1>. DEFINE Both(i) == <<<<"BDBlade", i>>, <<"BD", i>>>>
            Blades(i) == Part(<<"BD", i>> \in DOMAIN d, Files(Both(i)))
<1>1. ASSUME NEW i \in 0..3
      PROVE  /\ Plan(Files(Both(i)))
             /\ Closes(Files(Both(i)), <<"BD", i>>) /\ Closes(Files(Both(i)), <<"BDBlade", i>>)
  <2>1. <<"BD", i>> \in ModuleParts /\ <<"BDBlade", i>> \in ModuleParts
    BY DEF ModuleParts, Kinds
  <2>2. Both(i) \in Seq(ModuleParts) /\ Has(Both(i), <<"BD", i>>) /\ Has(Both(i), <<"BDBlade", i>>)
    BY <2>1 DEF Has
  <2>. QED BY <2>2, FilesHave
<1>2. CASE <<"BD", 0>> \in DOMAIN d
  <2>1. WriteBeamDynFiles(d) = Files(Both(0))
    BY <1>2 DEF WriteBeamDynFiles
  <2>. QED BY <1>1, <1>2, <2>1
<1>3. CASE <<"BD", 0>> \notin DOMAIN d
  <2>1. PICK a, b, c : a = Blades(1) /\ b = Blades(2) /\ c = Blades(3)
    OBVIOUS
  <2>2. ASSUME NEW i \in 1..3
        PROVE  /\ Plan(Blades(i))
               /\ <<"BD", i>> \in DOMAIN d =>
                    Closes(Blades(i), <<"BD", i>>) /\ Closes(Blades(i), <<"BDBlade", i>>)
    <3>1. Blades(i) = IF <<"BD", i>> \in DOMAIN d THEN Files(Both(i)) ELSE <<>>
      BY DEF Part
    <3>. HIDE DEF Blades, Both
    <3>. QED BY <1>1, <3>1, NoPlan
  <2>3. /\ Plan(a) /\ Plan(b) /\ Plan(c)
        /\ <<"BD", 1>> \in DOMAIN d => Closes(a, <<"BD", 1>>) /\ Closes(a, <<"BDBlade", 1>>)
        /\ <<"BD", 2>> \in DOMAIN d => Closes(b, <<"BD", 2>>) /\ Closes(b, <<"BDBlade", 2>>)
        /\ <<"BD", 3>> \in DOMAIN d => Closes(c, <<"BD", 3>>) /\ Closes(c, <<"BDBlade", 3>>)
    BY <2>1, <2>2
  <2>4. Plan(a \o b) /\ \A part : Closes(a, part) \/ Closes(b, part) => Closes(a \o b, part)
    BY <2>3, ConcatPlan
  <2>5. Plan(a \o b \o c) /\ \A part : Closes(a \o b, part) \/ Closes(c, part) => Closes(a \o b \o c, part)
    BY <2>3, <2>4, ConcatPlan
  <2>6. WriteBeamDynFiles(d) = a \o b \o c
    BY <1>3, <2>1 DEF WriteBeamDynFiles
  <2>7. \A i \in 0..3 : i = 0 \/ i = 1 \/ i = 2 \/ i = 3
    OBVIOUS
  <2>. QED BY <1>3, <2>3, <2>4, <2>5, <2>6, <2>7
<1>. QED BY <1>2, <1>3

\* What is read of a written deck, whether it is in the dictionaries or, apart from blades
\* and what is looked for, not.
Sought(d, part) ==
  AskedBack(d, part) /\ (part \in DOMAIN d \/ Kind(part) \notin {"ADBlade", "WK", "DISCON"})

\* The steps of execute up to the main file close the file of every part of what the
\* reader has made, apart from those that the writer may leave out.
LEMMA ModulesPlan ==
  ASSUME NEW d, AsRead(d)
  PROVE  /\ Plan(WriteModuleFiles(d))
         /\ \A part : part # Fst /\ Sought(d, part) => Closes(WriteModuleFiles(d), part)
         /\ \A part \in DOMAIN d : part = Fst \/ Elsewhere(part) \/ Closes(WriteModuleFiles(d), part)
<1>. DEFINE c == d[Fst]
<1>0. /\ c.CompAero = 2 => d[AD].NumAFfiles \in Nat /\ d[AD].coords \in Seq(Nat \ {0})
      /\ c.CompServo = 1 => {d[SrvD].NStC, d[SrvD].BStC, d[SrvD].TStC, d[SrvD].SStC} \subseteq Nat
      /\ \A part \in DOMAIN d : Elsewhere(part) \/ AskedFor(d, part)
  BY DEF AsRead
<1>1. {IfW, HD, SeaSt, SubD, MAP} \subseteq Single
  BY DEF Single
<1>2. PICK e, i, a, v, h, s, u, m, b :
        /\ e = WriteElastoDynFiles(d)
        /\ i = Part(c.CompInflow = 1, File(IfW))
        /\ a = CASE c.CompAero = 1 -> WriteAeroDiskFiles(d)
                [] c.CompAero = 2 -> WriteAeroDynFiles(d)
                [] OTHER -> <<>>
        /\ v = IF c.CompServo = 1 THEN WriteServoDynFiles(d) ELSE <<>>
        /\ h = Part(c.CompHydro = 1, File(HD))
        /\ s = Part(c.CompSeaSt = 1, File(SeaSt))
        /\ u = CASE c.CompSub = 1 -> File(SubD)
                [] c.CompSub = 2 -> WriteExtPtfmFiles(d)
                [] OTHER -> <<>>
        /\ m = CASE c.CompMooring = 1 -> File(MAP)
                [] c.CompMooring = 3 -> WriteMoorDynFiles(d)
                [] OTHER -> <<>>
        /\ b = WriteBeamDynFiles(d)
  OBVIOUS
<1>3. WriteModuleFiles(d) = e \o i \o a \o v \o h \o s \o u \o m \o b
  BY <1>2 DEF WriteModuleFiles
<1>4. /\ Plan(e) /\ \A part \in (IF c.CompElast = 3 THEN {SED} ELSE {ED, Tower}) : Closes(e, part)
      /\ c.CompElast = 1 => Closes(e, <<"EDBlade", 0>>)
      /\ Plan(i) /\ (c.CompInflow = 1 => Closes(i, IfW))
      /\ Plan(h) /\ (c.CompHydro = 1 => Closes(h, HD))
      /\ Plan(s) /\ (c.CompSeaSt = 1 => Closes(s, SeaSt))
  BY <1>1, <1>2, ElastoDynPlan, SinglePlan
<1>5. /\ Plan(a)
      /\ c.CompAero = 1 => Closes(a, ADsk) /\ Closes(a, ADskProp)
      /\ c.CompAero = 2 =>
           /\ Closes(a, AD)
           /\ \A part \in DOMAIN d : part \in {"ADBlade"} \X (IF <<"ADBlade", 0>> \in DOMAIN d THEN {0} ELSE 1..3)
                => Closes(a, part)
           /\ \A k \in 1..d[AD].NumAFfiles : Closes(a, <<"Polar", k>>)
           /\ \A k \in 1..Len(d[AD].coords) : Closes(a, <<"Coord", d[AD].coords[k]>>)
           /\ d[AD].Wake_Mod = 3 => Closes(a, OLAF)
  <2>1. CASE c.CompAero = 1
    BY <1>2, <2>1, AeroDiskPlan
  <2>2. CASE c.CompAero = 2
    <3>1. a = WriteAeroDynFiles(d)
      BY <1>2, <2>2
    <3>2. d[AD].NumAFfiles \in Nat /\ d[AD].coords \in Seq(Nat \ {0})
      BY <1>0, <2>2
    <3>3. /\ Plan(a) /\ Closes(a, AD)
          /\ \A part \in DOMAIN d : part \in {"ADBlade"} \X (IF <<"ADBlade", 0>> \in DOMAIN d THEN {0} ELSE 1..3)
               => Closes(a, part)
          /\ \A k \in 1..d[AD].NumAFfiles : Closes(a, <<"Polar", k>>)
          /\ \A k \in 1..Len(d[AD].coords) : Closes(a, <<"Coord", d[AD].coords[k]>>)
          /\ d[AD].Wake_Mod = 3 => Closes(a, OLAF)
      BY <3>1, <3>2, AeroDynPlan
    <3>. QED BY <2>2, <3>3
  <2>3. ASSUME c.CompAero # 1, c.CompAero # 2 PROVE a = <<>>
    BY <1>2, <2>3
  <2>. QED BY <2>1, <2>2, <2>3, NoPlan
<1>6. /\ Plan(v)
      /\ c.CompServo = 1 =>
           /\ Closes(v, SrvD)
           /\ ROSCO /\ DISCON \in DOMAIN d => Closes(v, DISCON)
           /\ d[SrvD].VSContrl = 3 => Closes(v, SpdTrq)
           /\ \A kind \in StCKinds : \A k \in 1..d[SrvD][kind] : Closes(v, <<kind, k>>)
  <2>1. CASE c.CompServo = 1
    <3>1. v = WriteServoDynFiles(d)
      BY <1>2, <2>1
    <3>. QED BY <1>0, <2>1, <3>1, ServoDynPlan
  <2>2. CASE c.CompServo # 1
    BY <1>2, <2>2, NoPlan
  <2>. QED BY <2>1, <2>2
<1>7. /\ Plan(u)
      /\ c.CompSub = 1 => Closes(u, SubD)
      /\ c.CompSub = 2 =>
           /\ Closes(u, ExtP) /\ Closes(u, SE)
           /\ d[ExtP].HasConnections = 1 => Closes(u, Conn)
           /\ d[ExtP].HasUserForcing = 1 => Closes(u, UserF)
           /\ d[ExtP].HasConnForcing = 1 => Closes(u, ConnF)
  <2>1. CASE c.CompSub = 1
    BY <1>1, <1>2, <2>1, SinglePlan
  <2>2. CASE c.CompSub = 2
    <3>1. u = WriteExtPtfmFiles(d)
      BY <1>2, <2>2
    <3>. QED BY <2>2, <3>1, ExtPtfmPlan
  <2>3. ASSUME c.CompSub # 1, c.CompSub # 2 PROVE u = <<>>
    BY <1>2, <2>3
  <2>. QED BY <2>1, <2>2, <2>3, NoPlan
<1>8. /\ Plan(m)
      /\ c.CompMooring = 1 => Closes(m, MAP)
      /\ c.CompMooring = 3 => \A part \in {MD, WK} : part = MD \/ part \in DOMAIN d => Closes(m, part)
  <2>1. CASE c.CompMooring = 1
    BY <1>1, <1>2, <2>1, SinglePlan
  <2>2. CASE c.CompMooring = 3
    <3>1. m = WriteMoorDynFiles(d)
      BY <1>2, <2>2
    <3>. QED BY <2>2, <3>1, MoorDynPlan
  <2>3. ASSUME c.CompMooring # 1, c.CompMooring # 3 PROVE m = <<>>
    BY <1>2, <2>3
  <2>. QED BY <2>1, <2>2, <2>3, NoPlan
<1>9. /\ Plan(b)
      /\ \A k \in 0..3 : <<"BD", k>> \in DOMAIN d /\ (k = 0 \/ <<"BD", 0>> \notin DOMAIN d)
           => Closes(b, <<"BD", k>>) /\ Closes(b, <<"BDBlade", k>>)
  BY <1>2, BeamDynPlan
<1>10. Plan(e \o i) /\ \A part : Closes(e, part) \/ Closes(i, part) => Closes(e \o i, part)
  BY <1>4, ConcatPlan
<1>11. Plan(e \o i \o a) /\ \A part : Closes(e \o i, part) \/ Closes(a, part) => Closes(e \o i \o a, part)
  BY <1>5, <1>10, ConcatPlan
<1>12. Plan(e \o i \o a \o v) /\ \A part : Closes(e \o i \o a, part) \/ Closes(v, part) => Closes(e \o i \o a \o v, part)
  BY <1>6, <1>11, ConcatPlan
<1>13. Plan(e \o i \o a \o v \o h) /\ \A part : Closes(e \o i \o a \o v, part) \/ Closes(h, part) => Closes(e \o i \o a \o v \o h, part)
  BY <1>4, <1>12, ConcatPlan
<1>14. Plan(e \o i \o a \o v \o h \o s) /\ \A part : Closes(e \o i \o a \o v \o h, part) \/ Closes(s, part) => Closes(e \o i \o a \o v \o h \o s, part)
  BY <1>4, <1>13, ConcatPlan
<1>15. Plan(e \o i \o a \o v \o h \o s \o u) /\ \A part : Closes(e \o i \o a \o v \o h \o s, part) \/ Closes(u, part) => Closes(e \o i \o a \o v \o h \o s \o u, part)
  BY <1>7, <1>14, ConcatPlan
<1>16. Plan(e \o i \o a \o v \o h \o s \o u \o m) /\ \A part : Closes(e \o i \o a \o v \o h \o s \o u, part) \/ Closes(m, part) => Closes(e \o i \o a \o v \o h \o s \o u \o m, part)
  BY <1>8, <1>15, ConcatPlan
<1>17. Plan(e \o i \o a \o v \o h \o s \o u \o m \o b) /\ \A part : Closes(e \o i \o a \o v \o h \o s \o u \o m, part) \/ Closes(b, part) => Closes(e \o i \o a \o v \o h \o s \o u \o m \o b, part)
  BY <1>9, <1>16, ConcatPlan
<1>18. PICK w : w = e \o i \o a \o v \o h \o s \o u \o m \o b
  OBVIOUS
<1>19. /\ Plan(w)
       /\ \A part : \/ Closes(e, part) \/ Closes(i, part) \/ Closes(a, part) \/ Closes(v, part)
                    \/ Closes(h, part) \/ Closes(s, part) \/ Closes(u, part) \/ Closes(m, part)
                    \/ Closes(b, part)
                    => Closes(w, part)
  BY <1>10, <1>11, <1>12, <1>13, <1>14, <1>15, <1>16, <1>17, <1>18
<1>20. ASSUME NEW part, part # Fst, Sought(d, part), AskedFor(d, part) PROVE Closes(w, part)
  <2>1. CASE part \in (IF c.CompElast = 3 THEN {SED} ELSE {ED, Tower})
    BY <1>4, <1>19, <2>1
  <2>2. CASE part = IfW /\ c.CompInflow = 1
    BY <1>4, <1>19, <2>2
  <2>3. CASE part \in {ADsk, ADskProp} /\ c.CompAero = 1
    BY <1>5, <1>19, <2>3
  <2>4. CASE /\ c.CompAero = 2
             /\ \/ part = AD
                \/ part \in {"ADBlade"} \X (IF <<"ADBlade", 0>> \in DOMAIN d THEN {0} ELSE 1..3)
                \/ part \in {"Polar"} \X (1..d[AD].NumAFfiles)
                \/ \E k \in 1..Len(d[AD].coords) : part = <<"Coord", d[AD].coords[k]>>
    <3>1. ASSUME part \in {"Polar"} \X (1..d[AD].NumAFfiles) PROVE Closes(a, part)
      <4>1. PICK k \in 1..d[AD].NumAFfiles : part = <<"Polar", k>>
        BY <3>1
      <4>. QED BY <1>5, <2>4, <4>1
    <3>2. ASSUME part \in {"ADBlade"} \X (IF <<"ADBlade", 0>> \in DOMAIN d THEN {0} ELSE 1..3)
          PROVE  part \in DOMAIN d
      BY <1>20, <3>2 DEF Sought, Kind
    <3>. QED BY <1>5, <1>19, <2>4, <3>1, <3>2
  <2>5. CASE part = SrvD /\ c.CompServo = 1
    BY <1>6, <1>19, <2>5
  <2>6. CASE part = HD /\ c.CompHydro = 1
    BY <1>4, <1>19, <2>6
  <2>7. CASE part = SeaSt /\ c.CompSeaSt = 1
    BY <1>4, <1>19, <2>7
  <2>8. CASE part = SubD /\ c.CompSub = 1
    BY <1>7, <1>19, <2>8
  <2>9. CASE /\ c.CompSub = 2
             /\ \/ part \in {ExtP, SE}
                \/ part = Conn /\ d[ExtP].HasConnections = 1
                \/ part = UserF /\ d[ExtP].HasUserForcing = 1
                \/ part = ConnF /\ d[ExtP].HasConnForcing = 1
    BY <1>7, <1>19, <2>9
  <2>10. CASE part = MAP /\ c.CompMooring = 1
    BY <1>8, <1>19, <2>10
  <2>11. CASE part \in {MD, WK} /\ c.CompMooring = 3
    <3>1. part = MD \/ part \in DOMAIN d
      BY <1>20, <2>11 DEF Sought, Kind, WK
    <3>. QED BY <1>8, <1>19, <2>11, <3>1
  <2>12. CASE \E k \in 0..3 : /\ part \in {<<"BD", k>>, <<"BDBlade", k>>}
                              /\ <<"BD", k>> \in DOMAIN d
                              /\ k = 0 \/ <<"BD", 0>> \notin DOMAIN d
    BY <1>9, <1>19, <2>12
  <2>. QED BY <1>20, <2>1, <2>2, <2>3, <2>4, <2>5, <2>6, <2>7, <2>8, <2>9, <2>10, <2>11, <2>12, Zenon DEF AskedFor
<1>21. ASSUME NEW part, part # Fst, Sought(d, part), ~AskedFor(d, part) PROVE Closes(w, part)
  <2>1. CASE part = <<"EDBlade", 0>> /\ c.CompElast = 1
    BY <1>4, <1>19, <2>1
  <2>2. CASE part = OLAF /\ c.CompAero = 2 /\ d[AD].Wake_Mod = 3
    BY <1>5, <1>19, <2>2
  <2>3. CASE c.CompServo = 1 /\ part = DISCON /\ ROSCO
    <3>1. part \in DOMAIN d
      BY <1>21, <2>3 DEF Sought, Kind, DISCON
    <3>. QED BY <1>6, <1>19, <2>3, <3>1
  <2>4. CASE c.CompServo = 1 /\ part = SpdTrq /\ d[SrvD].VSContrl = 3
    BY <1>6, <1>19, <2>4
  <2>5. ASSUME c.CompServo = 1, NEW kind \in StCKinds, part \in {kind} \X (1..d[SrvD][kind])
        PROVE  Closes(w, part)
    <3>1. PICK k \in 1..d[SrvD][kind] : part = <<kind, k>>
      BY <2>5
    <3>2. Closes(v, part)
      BY <1>6, <2>5, <3>1
    <3>. QED BY <1>19, <3>2
  <2>6. AskedBack(d, part)
    BY <1>21 DEF Sought
  <2>. QED BY <1>21, <2>1, <2>2, <2>3, <2>4, <2>5, <2>6, Zenon DEF AskedBack
<1>22. \A part \in DOMAIN d : AskedFor(d, part) => Sought(d, part)
  BY DEF Sought, AskedBack
<1>. QED BY <1>0, <1>3, <1>18, <1>19, <1>20, <1>21, <1>22

-----------------------------------------------------------------------------

\* What is left to write: the main file comes last and is nowhere else.
MainSteps == {<<"open", Fst>>, <<"close", Fst>>}
Due(s) ==
  /\ s \in Seq(Steps \cup MainSteps) /\ Len(s) > 0
  /\ \A i \in 1..Len(s) :
       /\ i = Len(s) => s[i] = <<"close", Fst>>
       /\ i = Len(s) - 1 => s[i] = <<"open", Fst>>
       /\ i < Len(s) - 1 => s[i] \in Steps
\* The file of the part under the name n is there, whole, and from p.
OnDisk(n, p, part) ==
  /\ FileOf(n, part) \in DOMAIN disk
  /\ disk[FileOf(n, part)].done = disk[FileOf(n, part)].all
  /\ disk[FileOf(n, part)].c.ver = p
\* Of a program that writes: its dictionaries are those it began with, the file of every
\* part is still to be closed or on the disk, and its main file is not there yet.
Standing(p) ==
  /\ vt[p] = wrote[p] /\ Fst \in DOMAIN wrote[p]
  /\ \A part \in DOMAIN wrote[p] : "ver" \in DOMAIN wrote[p][part] /\ wrote[p][part].ver = p
  /\ Due(todo[p]) /\ Matched(todo[p])
  /\ \A part \in DOMAIN wrote[p] :
       part = Fst \/ Elsewhere(part) \/ Closes(todo[p], part) \/ OnDisk(target[p], p, part)
  /\ <<target[p], Fst>> \in DOMAIN disk /\ disk[<<target[p], Fst>>].c.ver = p => Len(todo[p]) = 1

\* The steps of the modules are never on the main file.
LEMMA StepKinds ==
  \A step \in Steps : step = <<step[1], step[2]>> /\ step[2] # Fst /\ step[2] \in ModuleParts
BY DEF Steps, ModuleParts, Kinds, Fst

\* All the steps of execute are a plan that ends with the main file.
LEMMA WritePlanDue ==
  ASSUME NEW d, AsRead(d)
  PROVE  /\ Due(WritePlan(d)) /\ Matched(WritePlan(d)) /\ Len(WritePlan(d)) > 1
         /\ \A part \in DOMAIN d : part = Fst \/ Elsewhere(part) \/ Closes(WritePlan(d), part)
         /\ \A part : Sought(d, part) => Closes(WritePlan(d), part)
<1>1. PICK a, m, w : a = WriteModuleFiles(d) /\ m = File(Fst) /\ w = a \o m
  OBVIOUS
<1>2. w = WritePlan(d)
  BY <1>1 DEF WritePlan
<1>3. /\ a \in Seq(Steps) /\ Matched(a)
      /\ \A part \in DOMAIN d : part = Fst \/ Elsewhere(part) \/ Closes(a, part)
      /\ \A part : part # Fst /\ Sought(d, part) => Closes(a, part)
  BY <1>1, ModulesPlan DEF Plan
<1>4. m \in Seq(MainSteps) /\ Len(m) = 2 /\ m[1] = <<"open", Fst>> /\ m[2] = <<"close", Fst>>
  BY <1>1 DEF File, MainSteps
<1>. DEFINE All == Steps \cup MainSteps
<1>5. /\ w \in Seq(All) /\ Len(w) = Len(a) + Len(m) /\ Len(a) \in Nat
      /\ \A i \in 1..Len(a) : i \in 1..Len(w) /\ w[i] = a[i]
      /\ \A i \in 1..Len(m) : Len(a) + i \in 1..Len(w) /\ w[Len(a) + i] = m[i]
      /\ \A i \in 1..Len(w) : i \in 1..Len(a) \/ \E j \in 1..Len(m) : i = Len(a) + j
  <2>1. a \in Seq(All) /\ m \in Seq(All)
    BY <1>3, <1>4
  <2>. HIDE DEF All
  <2>2. w = a \o m
    BY <1>1
  <2>3. /\ a \o m \in Seq(All) /\ Len(a \o m) = Len(a) + Len(m) /\ Len(a) \in Nat
        /\ \A i \in 1..Len(a) : i \in 1..Len(a \o m) /\ (a \o m)[i] = a[i]
        /\ \A i \in 1..Len(m) : Len(a) + i \in 1..Len(a \o m) /\ (a \o m)[Len(a) + i] = m[i]
        /\ \A i \in 1..Len(a \o m) : i \in 1..Len(a) \/ \E j \in 1..Len(m) : i = Len(a) + j
    BY <2>1, ConcatAt
  <2>. QED BY <2>2, <2>3
<1>6. PICK n \in Nat : n = Len(a)
  BY <1>5
<1>7. /\ Len(w) = n + 2 /\ w[n + 1] = <<"open", Fst>> /\ w[n + 2] = <<"close", Fst>>
      /\ \A i \in 1..n : w[i] = a[i] /\ a[i] \in Steps
  <2>1. \A i \in 1..n : a[i] \in Steps
    BY <1>3, <1>6, ElementOfSeq
  <2>. QED BY <1>4, <1>5, <1>6, <2>1
<1>8. Due(w)
  <2>1. ASSUME NEW i \in 1..Len(w)
        PROVE  /\ i = Len(w) => w[i] = <<"close", Fst>>
               /\ i = Len(w) - 1 => w[i] = <<"open", Fst>>
               /\ i < Len(w) - 1 => w[i] \in Steps
    <3>1. (i = Len(w) => i = n + 2) /\ (i = Len(w) - 1 => i = n + 1) /\ (i < Len(w) - 1 => i \in 1..n)
      BY <1>7
    <3>. QED BY <1>7, <3>1
  <2>. QED BY <1>5, <1>7, <2>1 DEF Due
<1>9. Matched(w)
  <2>1. SUFFICES ASSUME NEW i \in 1..Len(w), w[i][1] = "open"
                 PROVE  \E j \in 1..Len(w) : j > i /\ Closed(w, j, w[i][2])
    BY DEF Matched
  <2>2. CASE i \in 1..n
    <3>1. PICK j \in 1..n : j > i /\ Closed(a, j, a[i][2])
      BY <1>3, <1>6, <1>7, <2>1, <2>2 DEF Matched
    <3>2. j \in 1..Len(w) /\ Closed(w, j, w[i][2])
      BY <1>7, <2>2, <3>1 DEF Closed
    <3>. QED BY <3>1, <3>2
  <2>3. CASE i = n + 1
    <3>1. n + 2 \in 1..Len(w) /\ n + 2 > i /\ Closed(w, n + 2, w[i][2])
      BY <1>7, <2>3 DEF Closed
    <3>. QED BY <3>1
  <2>4. i # n + 2
    BY <1>7, <2>1
  <2>. QED BY <1>7, <2>2, <2>3, <2>4
<1>10. ASSUME NEW part, Closes(a, part) PROVE Closes(w, part)
  BY <1>5, <1>10 DEF Closes, Closed
<1>11. Closes(w, Fst)
  <2>1. n + 2 \in 1..Len(w) /\ Closed(w, n + 2, Fst)
    BY <1>7 DEF Closed
  <2>. QED BY <2>1 DEF Closes
<1>. QED BY <1>2, <1>3, <1>6, <1>7, <1>8, <1>9, <1>10, <1>11

\* After a step of a plan: what is left of it, and what it still closes.
LEMMA TailDue ==
  ASSUME NEW w, Due(w), Matched(w)
  PROVE  /\ Len(w) \in Nat /\ Head(w) = w[1] /\ w # <<>>
         /\ Len(w) = 1 => Head(w) = <<"close", Fst>> /\ Tail(w) = <<>>
         /\ Head(w)[2] = Fst /\ Len(w) # 1 => Len(w) = 2 /\ Head(w) = <<"open", Fst>>
         /\ Len(w) > 1 => Due(Tail(w)) /\ Matched(Tail(w)) /\ Tail(w) # <<>> /\ Len(Tail(w)) = Len(w) - 1
         /\ \A part : Closes(w, part) =>
              Head(w) = <<"close", part>> \/ Head(w)[1] = "raise" \/ Closes(Tail(w), part)
         /\ Head(w)[1] = "open" => Closes(Tail(w), Head(w)[2])
<1>. DEFINE All == Steps \cup MainSteps
<1>1. w \in Seq(All) /\ Len(w) > 0 /\ Len(w) \in Nat
  BY LenProperties DEF Due
<1>2. w # <<>>
  BY <1>1, EmptySeq
<1>3. PICK t : t = Tail(w)
  OBVIOUS
<1>4. /\ Head(w) = w[1] /\ t \in Seq(All) /\ Len(t) = Len(w) - 1
      /\ \A i \in 1..Len(t) : t[i] = w[i + 1]
  BY <1>1, <1>2, <1>3, HeadTailProperties
<1>5. PICK n \in Nat : n = Len(t) /\ n + 1 = Len(w)
  BY <1>1, <1>4
<1>6. Len(w) = 1 => Head(w) = <<"close", Fst>> /\ t = <<>>
  BY <1>4, <1>5, EmptySeq DEF Due
<1>7. Head(w)[2] = Fst /\ Len(w) # 1 => Len(w) = 2 /\ Head(w) = <<"open", Fst>>
  <2>1. n + 1 > 2 => w[1] \in Steps
    BY <1>5 DEF Due
  <2>2. n + 1 = 2 => w[1] = <<"open", Fst>>
    BY <1>5 DEF Due
  <2>. QED BY <1>4, <1>5, <2>1, <2>2, StepKinds
<1>8. ASSUME n > 0 PROVE Due(t) /\ t # <<>>
  <2>1. ASSUME NEW i \in 1..n
        PROVE  /\ i = n => t[i] = <<"close", Fst>>
               /\ i = n - 1 => t[i] = <<"open", Fst>>
               /\ i < n - 1 => t[i] \in Steps
    <3>1. i + 1 \in 1..Len(w) /\ t[i] = w[i + 1]
      BY <1>4, <1>5
    <3>. QED BY <1>5, <3>1 DEF Due
  <2>2. t # <<>>
    BY <1>4, <1>5, <1>8, EmptySeq
  <2>. QED BY <1>4, <1>5, <1>8, <2>1, <2>2 DEF Due
<1>9. \A i \in 1..n : i + 1 \in 1..Len(w) /\ \A part : Closed(t, i, part) <=> Closed(w, i + 1, part)
  BY <1>4, <1>5 DEF Closed
<1>10. ASSUME NEW j \in 1..Len(w), j > 1, NEW part, Closed(w, j, part)
       PROVE  j - 1 \in 1..n /\ Closed(t, j - 1, part)
  <2>1. PICK i \in 1..n : j = i + 1
    <3>1. j - 1 \in 1..n /\ j = (j - 1) + 1
      BY <1>5, <1>10
    <3>. QED BY <3>1
  <2>. QED BY <1>9, <1>10, <2>1
<1>11. Matched(t)
  <2>1. SUFFICES ASSUME NEW i \in 1..n, t[i][1] = "open"
                 PROVE  \E j \in 1..n : j > i /\ Closed(t, j, t[i][2])
    BY <1>5 DEF Matched
  <2>2. i + 1 \in 1..Len(w) /\ w[i + 1] = t[i]
    BY <1>4, <1>5
  <2>3. PICK j \in 1..Len(w) : j > i + 1 /\ Closed(w, j, t[i][2])
    BY <2>1, <2>2 DEF Matched
  <2>4. j - 1 \in 1..n /\ Closed(t, j - 1, t[i][2]) /\ j - 1 > i
    BY <1>5, <1>10, <2>3
  <2>. QED BY <2>4
<1>12. ASSUME NEW part, Closes(w, part)
       PROVE  Head(w) = <<"close", part>> \/ Head(w)[1] = "raise" \/ Closes(t, part)
  <2>1. PICK j \in 1..Len(w) : Closed(w, j, part)
    BY <1>12 DEF Closes
  <2>2. CASE j = 1
    BY <1>4, <2>1, <2>2 DEF Closed
  <2>3. CASE j > 1
    <3>1. j - 1 \in 1..n /\ Closed(t, j - 1, part)
      BY <1>10, <2>1, <2>3
    <3>. QED BY <1>5, <3>1 DEF Closes
  <2>. QED BY <1>5, <2>2, <2>3
<1>13. ASSUME Head(w)[1] = "open" PROVE Closes(t, Head(w)[2])
  <2>1. PICK j \in 1..Len(w) : j > 1 /\ Closed(w, j, w[1][2])
    BY <1>1, <1>4, <1>13 DEF Matched
  <2>2. j - 1 \in 1..n /\ Closed(t, j - 1, w[1][2])
    BY <1>10, <2>1
  <2>. QED BY <1>4, <1>5, <2>2 DEF Closes
<1>. QED BY <1>1, <1>2, <1>3, <1>4, <1>5, <1>6, <1>7, <1>8, <1>11, <1>12, <1>13

-----------------------------------------------------------------------------

\* Domains, as far as the proof needs them.
TypeInv ==
  /\ source \in [Programs -> DOMAIN SourceFiles] /\ target \in [Programs -> Names]
  /\ DOMAIN pc = Programs /\ DOMAIN todo = Programs /\ DOMAIN vt = Programs /\ DOMAIN wrote = Programs
  /\ writer \in [Names -> [by : Programs \cup {"nobody"}, state : {"none", "writing", "whole", "cut"}]]
  /\ \A f \in DOMAIN disk : {"c", "all", "done"} \subseteq DOMAIN disk[f]
\* A name is its last writer's, and a program that writes is the last writer of its name.
Owned ==
  /\ \A n \in Names : writer[n].by \in Programs => target[writer[n].by] = n
  /\ \A p \in Programs : pc[p] = "writing" => writer[target[p]].by = p
\* Nothing on the disk is from a program that has not written yet.
Fresh == \A p \in Programs : pc[p] = "loading" => \A f \in DOMAIN disk : disk[f].c.ver # p
\* The inductive invariant.
DeckInv ==
  /\ TypeInv /\ Owned /\ Fresh /\ MainLast
  /\ \A p \in Programs : pc[p] = "writing" => Standing(p)

\* MainLast of one name.
Complete(n) ==
  /\ FileOf(n, Fst) \in DOMAIN disk /\ writer[n].by \in Programs
  /\ disk[FileOf(n, Fst)].c.ver = writer[n].by
  /\ disk[FileOf(n, Fst)].done = disk[FileOf(n, Fst)].all
  => \A part \in DOMAIN wrote[writer[n].by] : Elsewhere(part) \/ OnDisk(n, writer[n].by, part)
\* MainLast is that of every name.
LEMMA MainLastIs == MainLast <=> \A n \in Names : Complete(n)
BY DEF MainLast, Complete, OnDisk

\* Two names share the files that keep their names in the source, and no others.
LEMMA FilesApart ==
  ASSUME NEW m, NEW n, NEW k, NEW part, ~KeepsName(part), FileOf(m, k) = FileOf(n, part)
  PROVE  m = n /\ k = part
BY DEF FileOf

\* The main file has the name of the deck.
LEMMA MainFile == ~KeepsName(Fst) /\ ~Elsewhere(Fst) /\ \A n : FileOf(n, Fst) = <<n, Fst>>
BY DEF KeepsName, Elsewhere, Fst, Kind, StCKinds, FileOf

\* What a program stores is its own (Stored).
LEMMA StoredIsOf ==
  ASSUME NEW p, NEW d, Fst \in DOMAIN d,
         \A part \in DOMAIN d : "ver" \in DOMAIN d[part] /\ d[part].ver = p
  PROVE  \A k : Stored(d, k).ver = p
BY DEF Stored

\* The files of the name n stay as they are.
Untouched(n) ==
  \A part : ~KeepsName(part) =>
    /\ FileOf(n, part) \in DOMAIN disk' <=> FileOf(n, part) \in DOMAIN disk
    /\ FileOf(n, part) \in DOMAIN disk => disk'[FileOf(n, part)] = disk[FileOf(n, part)]

\* Where its files stay, a complete name remains complete.
LEMMA OthersComplete ==
  ASSUME NEW n, Untouched(n), Complete(n), writer'[n].by = writer[n].by,
         wrote'[writer[n].by] = wrote[writer[n].by]
  PROVE  Complete(n)'
<1>1. ASSUME NEW part, ~Elsewhere(part), OnDisk(n, writer[n].by, part)
      PROVE  OnDisk(n, writer[n].by, part)'
  <2>1. ~KeepsName(part)
    BY <1>1 DEF Elsewhere
  <2>. QED BY <1>1, <2>1 DEF OnDisk, Untouched
<1>2. /\ FileOf(n, Fst) \in DOMAIN disk' <=> FileOf(n, Fst) \in DOMAIN disk
      /\ FileOf(n, Fst) \in DOMAIN disk => disk'[FileOf(n, Fst)] = disk[FileOf(n, Fst)]
  BY MainFile DEF Untouched
<1>. QED BY <1>1, <1>2 DEF Complete

\* And a program that writes there still stands.
LEMMA OthersStand ==
  ASSUME NEW q, Untouched(target[q]), Standing(q), target' = target,
         vt'[q] = vt[q], wrote'[q] = wrote[q], todo'[q] = todo[q]
  PROVE  Standing(q)'
<1>1. ASSUME NEW part, ~Elsewhere(part), OnDisk(target[q], q, part)
      PROVE  OnDisk(target[q], q, part)'
  <2>1. ~KeepsName(part)
    BY <1>1 DEF Elsewhere
  <2>. QED BY <1>1, <2>1 DEF OnDisk, Untouched
<1>2. /\ <<target[q], Fst>> \in DOMAIN disk' <=> <<target[q], Fst>> \in DOMAIN disk
      /\ <<target[q], Fst>> \in DOMAIN disk => disk'[<<target[q], Fst>>] = disk[<<target[q], Fst>>]
  BY MainFile DEF Untouched
<1>. QED BY <1>1, <1>2 DEF Standing

\* The invariant holds initially.
LEMMA InitInv == Init => DeckInv
<1>. SUFFICES ASSUME Init PROVE DeckInv
  OBVIOUS
<1>. USE DeckAssumption
<1>0. disk = <<>> /\ DOMAIN disk = {}
  BY DEF Init
<1>1. TypeInv
  <2>1. source \in [Programs -> DOMAIN SourceFiles] /\ target \in [Programs -> Names]
    BY DEF Init, DeckAssumption
  <2>2. writer \in [Names -> [by : Programs \cup {"nobody"}, state : {"none", "writing", "whole", "cut"}]]
    BY DEF Init, Nobody
  <2>. QED BY <1>0, <2>1, <2>2 DEF Init, TypeInv
<1>2. \A n \in Names : writer[n].by = "nobody" /\ "nobody" \notin Programs
  BY DEF Init, Nobody, DeckAssumption
<1>3. \A p \in Programs : pc[p] = "loading"
  BY DEF Init
<1>4. MainLast
  BY <1>2, MainLastIs DEF Complete
<1>. QED BY <1>0, <1>1, <1>2, <1>3, <1>4 DEF DeckInv, Owned, Fresh

\* It is preserved by StartWrite: what is to be written is due, nothing of it is there.
LEMMA StartWriteInv ==
  ASSUME LoadedAsRead, DeckInv, NEW p \in Programs, StartWrite(p)
  PROVE  DeckInv'
<1>. PICK d : d = Edited(Loaded[source[p]][1], p)
  OBVIOUS
<1>1. /\ pc[p] = "loading" /\ Alone(p) /\ Loaded[source[p]][3] # "raised"
      /\ vt' = [vt EXCEPT ![p] = d] /\ wrote' = [wrote EXCEPT ![p] = d]
      /\ todo' = [todo EXCEPT ![p] = WritePlan(d)]
      /\ pc' = [pc EXCEPT ![p] = "writing"]
      /\ writer' = [writer EXCEPT ![target[p]] = [by |-> p, state |-> "writing"]]
      /\ UNCHANGED <<source, target, disk, kills>>
  BY DEF StartWrite
<1>2. TypeInv /\ Owned /\ Fresh /\ MainLast /\ target[p] \in Names /\ source[p] \in DOMAIN SourceFiles
  BY DEF DeckInv, TypeInv
<1>3. AsRead(d)
  BY <1>1, <1>2 DEF LoadedAsRead
<1>4. Fst \in DOMAIN d /\ \A part \in DOMAIN d : "ver" \in DOMAIN d[part] /\ d[part].ver = p
  <2>1. ASSUME NEW part \in DOMAIN d PROVE "ver" \in DOMAIN d[part] /\ d[part].ver = p
    <3>1. PICK c : d[part] = [c EXCEPT !.ver = p]
      BY DEF Edited
    <3>2. "ver" \in DOMAIN d[part]
      BY <1>3 DEF AsRead
    <3>. QED BY <3>1, <3>2
  <2>. QED BY <1>3, <2>1 DEF AsRead
<1>5. TypeInv'
  BY <1>1, <1>2 DEF TypeInv
<1>6. \A n \in Names \ {target[p]} : writer'[n] = writer[n]
  BY <1>1, <1>2 DEF TypeInv
<1>7. writer'[target[p]].by = p /\ pc'[p] = "writing"
  BY <1>1, <1>2 DEF TypeInv
<1>8. \A q \in Programs \ {p} : pc'[q] = pc[q] /\ todo'[q] = todo[q] /\ vt'[q] = vt[q] /\ wrote'[q] = wrote[q]
  BY <1>1, <1>2 DEF TypeInv
<1>9. \A q \in Programs \ {p} : pc[q] = "writing" => target[q] # target[p]
  BY <1>1 DEF Alone
<1>10. Owned'
  <2>1. ASSUME NEW n \in Names, writer'[n].by \in Programs PROVE target'[writer'[n].by] = n
    BY <1>1, <1>2, <1>6, <1>7, <2>1 DEF Owned
  <2>2. ASSUME NEW q \in Programs, pc'[q] = "writing" PROVE writer'[target'[q]].by = q
    <3>1. target[q] \in Names /\ target' = target
      BY <1>1, <1>2 DEF TypeInv
    <3>. QED BY <1>2, <1>6, <1>7, <1>8, <1>9, <2>2, <3>1 DEF Owned
  <2>. QED BY <2>1, <2>2 DEF Owned
<1>11. Fresh'
  BY <1>1, <1>2, <1>7, <1>8 DEF Fresh
<1>12. \A n : Untouched(n)
  BY <1>1 DEF Untouched
<1>13. ~(FileOf(target[p], Fst) \in DOMAIN disk /\ disk[FileOf(target[p], Fst)].c.ver = p)
  BY <1>1, <1>2 DEF Fresh
<1>14. MainLast'
  <2>1. ASSUME NEW n \in Names PROVE Complete(n)'
    <3>1. CASE n = target[p]
      <4>1. writer'[n].by = p /\ disk' = disk
        BY <1>1, <1>7, <3>1
      <4>. QED BY <1>13, <3>1, <4>1 DEF Complete
    <3>2. CASE n # target[p] /\ writer[n].by \in Programs
      <4>1. writer[n].by # p
        BY <1>2, <3>2 DEF Owned
      <4>. QED BY <1>2, <1>6, <1>8, <1>12, <3>2, <4>1, OthersComplete, MainLastIs
    <3>3. CASE n # target[p] /\ writer[n].by \notin Programs
      <4>1. writer'[n].by \notin Programs
        BY <1>6, <3>3
      <4>. QED BY <4>1 DEF Complete
    <3>. QED BY <3>1, <3>2, <3>3
  <2>. QED BY <2>1 DEF MainLast, Complete, OnDisk
<1>15. ASSUME NEW q \in Programs, pc'[q] = "writing" PROVE Standing(q)'
  <2>1. CASE q = p
    <3>1. /\ Due(WritePlan(d)) /\ Matched(WritePlan(d))
          /\ \A part \in DOMAIN d : part = Fst \/ Elsewhere(part) \/ Closes(WritePlan(d), part)
      BY <1>3, WritePlanDue
    <3>2. vt'[p] = d /\ wrote'[p] = d /\ todo'[p] = WritePlan(d) /\ target' = target /\ disk' = disk
      BY <1>1, <1>2 DEF TypeInv
    <3>3. ~(<<target[p], Fst>> \in DOMAIN disk /\ disk[<<target[p], Fst>>].c.ver = p)
      BY <1>13, MainFile
    <3>. QED BY <1>4, <2>1, <3>1, <3>2, <3>3 DEF Standing
  <2>2. CASE q # p
    <3>1. Standing(q)
      BY <1>8, <1>15, <2>2 DEF DeckInv
    <3>. QED BY <1>1, <1>8, <1>12, <2>2, <3>1, OthersStand
  <2>. QED BY <2>1, <2>2
<1>. QED BY <1>5, <1>10, <1>11, <1>14, <1>15 DEF DeckInv

\* By StartRead and Read, which change no file.
LEMMA ReadInv ==
  ASSUME DeckInv, NEW p \in Programs, StartRead(p) \/ Read(p)
  PROVE  DeckInv'
<1>1. /\ pc[p] \notin {"loading", "writing"}
      /\ \E x : pc' = [pc EXCEPT ![p] = x] /\ x \notin {"loading", "writing"}
      /\ \E x : vt' = [vt EXCEPT ![p] = x]
      /\ \E x : todo' = [todo EXCEPT ![p] = x]
      /\ UNCHANGED <<source, target, wrote, disk, writer, kills>>
  <2>1. CASE StartRead(p)
    <3>1. PICK x : x = "reading"
      OBVIOUS
    <3>2. /\ pc[p] \notin {"loading", "writing"} /\ x \notin {"loading", "writing"}
          /\ pc' = [pc EXCEPT ![p] = x]
          /\ UNCHANGED <<source, target, wrote, disk, writer, kills>>
      BY <2>1, <3>1 DEF StartRead
    <3>3. /\ \E v : vt' = [vt EXCEPT ![p] = v]
          /\ \E v : todo' = [todo EXCEPT ![p] = v]
      BY <2>1 DEF StartRead
    <3>. QED BY <3>2, <3>3
  <2>2. CASE Read(p)
    <3>1. PICK r : /\ vt' = [vt EXCEPT ![p] = r[1]] /\ todo' = [todo EXCEPT ![p] = r[2]]
                   /\ pc' = [pc EXCEPT ![p] = IF r[3] = "raised" THEN "failed"
                                              ELSE IF r[2] = <<>> THEN "read" ELSE "reading"]
      BY <2>2 DEF Read
    <3>2. PICK x : x = IF r[3] = "raised" THEN "failed" ELSE IF r[2] = <<>> THEN "read" ELSE "reading"
      OBVIOUS
    <3>3. x \notin {"loading", "writing"}
      BY <3>2
    <3>. QED BY <2>2, <3>1, <3>2, <3>3 DEF Read
  <2>. QED BY <2>1, <2>2
<1>2. TypeInv /\ Owned /\ Fresh /\ MainLast
  BY DEF DeckInv
<1>3. TypeInv'
  BY <1>1, <1>2 DEF TypeInv
<1>4. pc'[p] \notin {"loading", "writing"}
  BY <1>1, <1>2 DEF TypeInv
<1>5. \A q \in Programs \ {p} : pc'[q] = pc[q] /\ todo'[q] = todo[q] /\ vt'[q] = vt[q]
  BY <1>1, <1>2 DEF TypeInv
<1>6. Owned' /\ Fresh'
  BY <1>1, <1>2, <1>4, <1>5 DEF Owned, Fresh
<1>7. \A n : Untouched(n)
  BY <1>1 DEF Untouched
<1>8. MainLast'
  <2>1. ASSUME NEW n \in Names PROVE Complete(n)'
    BY <1>1, <1>2, <1>7, OthersComplete, MainLastIs
  <2>. QED BY <2>1 DEF MainLast, Complete, OnDisk
<1>9. ASSUME NEW q \in Programs, pc'[q] = "writing" PROVE Standing(q)'
  <2>1. q # p
    BY <1>4, <1>9
  <2>2. Standing(q)
    BY <1>5, <1>9, <2>1 DEF DeckInv
  <2>. QED BY <1>1, <1>5, <1>7, <2>1, <2>2, OthersStand
<1>. QED BY <1>3, <1>6, <1>8, <1>9 DEF DeckInv

\* When the main file comes next, nothing else is left to close.
LEMMA OnlyMain ==
  ASSUME NEW w, Due(w), Matched(w), Head(w)[2] = Fst, NEW part, part # Fst
  PROVE  ~Closes(w, part)
<1>1. Len(w) \in Nat /\ Len(w) > 0 /\ Head(w) = w[1] /\ (Len(w) # 1 => Len(w) = 2 /\ Head(w) = <<"open", Fst>>)
  BY TailDue DEF Due
<1>2. ASSUME NEW i \in 1..Len(w) PROVE w[i] = <<"open", Fst>> \/ w[i] = <<"close", Fst>>
  BY <1>1 DEF Due
<1>. QED BY <1>2 DEF Closes, Closed

\* By Open and Close: only the file of the step changes.
LEMMA WriteInv ==
  ASSUME DeckInv, NEW p \in Programs, Open(p) \/ Close(p)
  PROVE  DeckInv'
<1>1. PICK w, k, n : w = todo[p] /\ k = Head(todo[p])[2] /\ n = target[p]
  OBVIOUS
<1>2. TypeInv /\ Owned /\ Fresh /\ MainLast /\ n \in Names /\ pc[p] = "writing" /\ Standing(p)
      /\ writer[n].by = p
  BY <1>1 DEF DeckInv, TypeInv, Owned, Open, Close
<1>3. /\ todo' = [todo EXCEPT ![p] = Tail(w)]
      /\ UNCHANGED <<source, target, vt, wrote, kills>>
  BY <1>1, <1>2 DEF Open, Close, Done, TypeInv
<1>4. PICK file : /\ disk' = With(disk, FileOf(n, k), file)
                  /\ file.c.ver = p /\ {"c", "all", "done"} \subseteq DOMAIN file
                  /\ Close(p) => file.done = file.all
  <2>1. Stored(vt[p], k).ver = p
    BY <1>2, StoredIsOf DEF Standing
  <2>2. PICK whole : whole = Whole(k, Stored(vt[p], k))
    OBVIOUS
  <2>3. whole.c.ver = p /\ DOMAIN whole = {"c", "all", "done"} /\ whole.done = whole.all
    BY <2>1, <2>2 DEF Whole
  <2>4. CASE Open(p)
    <3>1. disk' = With(disk, FileOf(n, k), [whole EXCEPT !.done = 0])
      BY <1>1, <2>2, <2>4 DEF Open, Step
    <3>2. [whole EXCEPT !.done = 0].c.ver = p /\ DOMAIN [whole EXCEPT !.done = 0] = {"c", "all", "done"}
      BY <2>3
    <3>3. ~Close(p)
      BY <2>4 DEF Open, Close
    <3>. QED BY <3>1, <3>2, <3>3
  <2>5. CASE Close(p)
    <3>1. disk' = With(disk, FileOf(n, k), whole)
      BY <1>1, <2>2, <2>5 DEF Close, Step
    <3>. QED BY <2>3, <3>1
  <2>. QED BY <2>4, <2>5
<1>5. /\ DOMAIN disk' = DOMAIN disk \cup {FileOf(n, k)} /\ disk'[FileOf(n, k)] = file
      /\ \A f \in DOMAIN disk : f # FileOf(n, k) => disk'[f] = disk[f]
  BY <1>4 DEF With
<1>6. /\ DOMAIN pc' = Programs /\ \A q \in Programs \ {p} : pc'[q] = pc[q]
      /\ pc'[p] = "writing" => Tail(w) # <<>>
      /\ pc'[p] # "loading"
      /\ writer' \in [Names -> [by : Programs \cup {"nobody"}, state : {"none", "writing", "whole", "cut"}]]
      /\ \A m \in Names : writer'[m].by = writer[m].by
  <2>1. CASE Open(p)
    <3>1. w[1] = Head(w) /\ Head(w)[1] = "open" /\ Due(w) /\ Matched(w)
      BY <1>1, <1>2, <2>1, TailDue DEF Open, Step, Standing
    <3>2. Tail(w) # <<>>
      BY <3>1, TailDue DEF Due
    <3>. QED BY <1>2, <2>1, <3>2 DEF Open, TypeInv
  <2>2. CASE Close(p)
    <3>1. CASE Tail(w) = <<>>
      <4>1. pc' = [pc EXCEPT ![p] = "wrote"] /\ writer' = [writer EXCEPT ![n].state = "whole"]
        BY <1>1, <2>2, <3>1 DEF Close
      <4>. QED BY <1>2, <4>1 DEF TypeInv
    <3>2. CASE Tail(w) # <<>>
      <4>1. pc' = pc /\ writer' = writer
        BY <1>1, <2>2, <3>2 DEF Close
      <4>. QED BY <1>2, <3>2, <4>1 DEF TypeInv
    <3>. QED BY <3>1, <3>2
  <2>. QED BY <2>1, <2>2
<1>7. TypeInv'
  BY <1>2, <1>3, <1>4, <1>5, <1>6 DEF TypeInv
<1>8. Owned'
  <2>1. \A q \in Programs : target[q] \in Names /\ target' = target
    BY <1>2, <1>3 DEF TypeInv
  <2>. QED BY <1>2, <1>6, <2>1 DEF Owned
<1>9. Fresh'
  BY <1>2, <1>4, <1>5, <1>6 DEF Fresh
<1>10. ASSUME NEW m, m # n PROVE Untouched(m)
  BY <1>5, <1>10, FilesApart DEF Untouched
<1>11. ASSUME NEW part, ~KeepsName(part), part # k
       PROVE  /\ FileOf(n, part) \in DOMAIN disk' <=> FileOf(n, part) \in DOMAIN disk
              /\ FileOf(n, part) \in DOMAIN disk => disk'[FileOf(n, part)] = disk[FileOf(n, part)]
  BY <1>5, <1>11, FilesApart
<1>12. ASSUME NEW part, ~Elsewhere(part), OnDisk(n, p, part), part # k PROVE OnDisk(n, p, part)'
  <2>1. ~KeepsName(part)
    BY <1>12 DEF Elsewhere
  <2>. QED BY <1>3, <1>11, <1>12, <2>1 DEF OnDisk
<1>13. Due(w) /\ Matched(w)
  BY <1>1, <1>2 DEF Standing
<1>14. Complete(n)'
  <2>1. SUFFICES ASSUME FileOf(n, Fst) \in DOMAIN disk', disk'[FileOf(n, Fst)].c.ver = p,
                        disk'[FileOf(n, Fst)].done = disk'[FileOf(n, Fst)].all,
                        NEW part \in DOMAIN wrote[p], ~Elsewhere(part)
                 PROVE  OnDisk(n, p, part)'
    BY <1>2, <1>3, <1>6 DEF Complete
  <2>2. k = Fst
    <3>1. SUFFICES ASSUME k # Fst PROVE FALSE
      OBVIOUS
    <3>2. <<n, Fst>> \in DOMAIN disk /\ disk[<<n, Fst>>].c.ver = p
      BY <1>11, <2>1, <3>1, MainFile
    <3>3. Len(w) = 1
      BY <1>1, <1>2, <3>2 DEF Standing
    <3>. QED BY <1>1, <1>13, <3>1, <3>3, TailDue
  <2>3. CASE part = Fst
    BY <2>1, <2>3 DEF OnDisk
  <2>4. CASE part # Fst
    <3>1. ~Closes(w, part)
      BY <1>1, <1>13, <2>2, <2>4, OnlyMain
    <3>2. OnDisk(n, p, part)
      BY <1>1, <1>2, <2>1, <2>4, <3>1 DEF Standing
    <3>. QED BY <1>12, <2>1, <2>2, <2>4, <3>2
  <2>. QED BY <2>3, <2>4
<1>15. MainLast'
  <2>1. ASSUME NEW m \in Names PROVE Complete(m)'
    BY <1>2, <1>3, <1>6, <1>10, <1>14, OthersComplete, MainLastIs
  <2>. QED BY <2>1 DEF MainLast, Complete, OnDisk
<1>16. ASSUME pc'[p] = "writing" PROVE Standing(p)'
  <2>1. todo'[p] = Tail(w) /\ vt'[p] = vt[p] /\ wrote'[p] = wrote[p] /\ target'[p] = n
    BY <1>1, <1>2, <1>3 DEF TypeInv
  <2>2. Len(w) > 1 /\ Due(Tail(w)) /\ Matched(Tail(w)) /\ Len(Tail(w)) = Len(w) - 1
    <3>1. Len(w) \in Nat /\ Len(w) > 0 /\ Len(w) # 1
      BY <1>6, <1>13, <1>16, TailDue DEF Due
    <3>2. Len(w) > 1
      BY <3>1
    <3>. QED BY <1>13, <3>2, TailDue
  <2>3. ASSUME NEW part \in DOMAIN wrote[p], part # Fst, ~Elsewhere(part), ~Closes(Tail(w), part)
        PROVE  OnDisk(n, p, part)'
    <3>1. CASE Close(p) /\ part = k
      BY <1>3, <1>4, <1>5, <3>1 DEF OnDisk
    <3>2. CASE Open(p) /\ part = k
      <4>1. Head(w)[1] = "open"
        BY <1>1, <3>2 DEF Open, Step
      <4>. QED BY <1>1, <1>13, <2>3, <3>2, <4>1, TailDue
    <3>3. CASE part # k
      <4>1. Head(w) # <<"close", part>> /\ Head(w)[1] # "raise"
        BY <1>1, <3>3 DEF Open, Close, Step
      <4>2. ~Closes(w, part)
        BY <1>13, <2>3, <4>1, TailDue
      <4>3. OnDisk(n, p, part)
        BY <1>1, <1>2, <2>3, <4>2 DEF Standing
      <4>. QED BY <1>12, <2>3, <3>3, <4>3
    <3>. QED BY <3>1, <3>2, <3>3
  <2>4. ASSUME <<n, Fst>> \in DOMAIN disk', disk'[<<n, Fst>>].c.ver = p PROVE Len(Tail(w)) = 1
    <3>1. CASE k = Fst
      BY <1>1, <1>13, <2>2, <3>1, TailDue
    <3>2. CASE k # Fst
      <4>1. <<n, Fst>> \in DOMAIN disk /\ disk[<<n, Fst>>].c.ver = p
        BY <1>11, <2>4, <3>2, MainFile
      <4>2. Len(w) = 1
        BY <1>1, <1>2, <4>1 DEF Standing
      <4>. QED BY <2>2, <4>2
    <3>. QED BY <3>1, <3>2
  <2>5. /\ vt[p] = wrote[p] /\ Fst \in DOMAIN wrote[p]
        /\ \A part \in DOMAIN wrote[p] : "ver" \in DOMAIN wrote[p][part] /\ wrote[p][part].ver = p
    BY <1>2 DEF Standing
  <2>. QED BY <2>1, <2>2, <2>3, <2>4, <2>5 DEF Standing
<1>17. ASSUME NEW q \in Programs, pc'[q] = "writing" PROVE Standing(q)'
  <2>1. CASE q # p
    <3>1. Standing(q) /\ writer[target[q]].by = q
      BY <1>2, <1>6, <1>17, <2>1 DEF DeckInv, Owned
    <3>2. target[q] # n
      BY <1>2, <2>1, <3>1
    <3>3. todo'[q] = todo[q]
      BY <1>2, <1>3, <2>1 DEF TypeInv
    <3>. QED BY <1>3, <1>10, <3>1, <3>2, <3>3, OthersStand
  <2>. QED BY <1>16, <1>17, <2>1
<1>. QED BY <1>7, <1>8, <1>9, <1>15, <1>17 DEF DeckInv

\* By Raise and Kill: what is cut short is open, and when the main file is there it is
\* the only one that is.
LEMMA EndEarlyInv ==
  ASSUME DeckInv, NEW p \in Programs, Raise(p) \/ Kill(p)
  PROVE  DeckInv'
<1>1. PICK w, n : w = todo[p] /\ n = target[p]
  OBVIOUS
<1>2. /\ EndEarly(p) /\ pc[p] = "writing"
      /\ UNCHANGED <<source, target, vt, wrote>>
  BY DEF Raise, Kill
<1>3. TypeInv /\ Owned /\ Fresh /\ MainLast /\ n \in Names /\ Standing(p) /\ writer[n].by = p
  BY <1>1, <1>2 DEF DeckInv, TypeInv, Owned
<1>4. PICK left \in [OpenFiles(p) -> 0..MostSections] :
        disk' = [f \in DOMAIN disk |-> IF f \in DOMAIN left THEN [disk[f] EXCEPT !.done = left[f]] ELSE disk[f]]
  BY <1>2 DEF EndEarly
<1>5. /\ DOMAIN disk' = DOMAIN disk
      /\ \A f \in DOMAIN disk : f \notin OpenFiles(p) => disk'[f] = disk[f]
      /\ \A f \in DOMAIN disk : {"c", "all", "done"} \subseteq DOMAIN disk'[f] /\ disk'[f].c = disk[f].c
  <2>1. DOMAIN disk' = DOMAIN disk /\ DOMAIN left = OpenFiles(p)
    BY <1>4
  <2>2. ASSUME NEW f \in DOMAIN disk
        PROVE  /\ f \notin OpenFiles(p) => disk'[f] = disk[f]
               /\ {"c", "all", "done"} \subseteq DOMAIN disk'[f] /\ disk'[f].c = disk[f].c
    <3>1. {"c", "all", "done"} \subseteq DOMAIN disk[f]
      BY <1>3 DEF TypeInv
    <3>2. disk'[f] = IF f \in OpenFiles(p) THEN [disk[f] EXCEPT !.done = left[f]] ELSE disk[f]
      BY <1>4, <2>1
    <3>. QED BY <3>1, <3>2
  <2>. QED BY <2>1, <2>2
<1>6. /\ pc' = [pc EXCEPT ![p] = "cut"] /\ todo' = [todo EXCEPT ![p] = <<>>]
      /\ writer' = [writer EXCEPT ![n].state = "cut"]
  BY <1>1, <1>2 DEF EndEarly
<1>7. /\ pc'[p] = "cut" /\ \A q \in Programs \ {p} : pc'[q] = pc[q] /\ todo'[q] = todo[q]
      /\ \A m \in Names : writer'[m].by = writer[m].by
      /\ writer' \in [Names -> [by : Programs \cup {"nobody"}, state : {"none", "writing", "whole", "cut"}]]
  <2>1. pc'[p] = "cut" /\ \A q \in Programs \ {p} : pc'[q] = pc[q] /\ todo'[q] = todo[q]
    BY <1>3, <1>6 DEF TypeInv
  <2>2. PICK Cells : Cells = [by : Programs \cup {"nobody"}, state : {"none", "writing", "whole", "cut"}]
    OBVIOUS
  <2>3. writer \in [Names -> Cells] /\ [writer[n] EXCEPT !.state = "cut"] \in Cells
        /\ [writer[n] EXCEPT !.state = "cut"].by = writer[n].by
    BY <1>3, <2>2 DEF TypeInv
  <2>4. writer' \in [Names -> Cells] /\ \A m \in Names : writer'[m].by = writer[m].by
    BY <1>3, <1>6, <2>3
  <2>. QED BY <2>1, <2>2, <2>4
<1>8. TypeInv'
  BY <1>2, <1>3, <1>5, <1>6, <1>7 DEF TypeInv
<1>9. Owned'
  <2>1. \A q \in Programs : target[q] \in Names /\ target' = target
    BY <1>2, <1>3 DEF TypeInv
  <2>. QED BY <1>3, <1>7, <2>1 DEF Owned
<1>10. Fresh'
  BY <1>3, <1>5, <1>7 DEF Fresh
<1>11. \A f \in OpenFiles(p) : \E i \in 1..Len(w) : f = FileOf(n, w[i][2])
  BY <1>1 DEF OpenFiles
<1>12. ASSUME NEW m, m # n PROVE Untouched(m)
  <2>1. ASSUME NEW part, ~KeepsName(part) PROVE FileOf(m, part) \notin OpenFiles(p)
    BY <1>11, <1>12, <2>1, FilesApart
  <2>. QED BY <1>5, <2>1 DEF Untouched
<1>13. Due(w) /\ Matched(w)
  BY <1>1, <1>3 DEF Standing
<1>14. Complete(n)'
  <2>1. SUFFICES ASSUME FileOf(n, Fst) \in DOMAIN disk', disk'[FileOf(n, Fst)].c.ver = p,
                        disk'[FileOf(n, Fst)].done = disk'[FileOf(n, Fst)].all,
                        NEW part \in DOMAIN wrote[p], ~Elsewhere(part)
                 PROVE  OnDisk(n, p, part)'
    BY <1>2, <1>3, <1>7 DEF Complete
  <2>2. CASE part = Fst
    BY <2>1, <2>2 DEF OnDisk
  <2>3. CASE part # Fst
    <3>1. Len(w) = 1
      <4>1. <<n, Fst>> \in DOMAIN disk /\ disk[<<n, Fst>>].c.ver = p
        BY <1>5, <2>1, MainFile
      <4>. QED BY <1>1, <1>3, <4>1 DEF Standing
    <3>2. Head(w) = <<"close", Fst>> /\ Head(w) = w[1]
      BY <1>13, <3>1, TailDue
    <3>3. ~Closes(w, part)
      BY <1>13, <2>3, <3>2, OnlyMain
    <3>4. OnDisk(n, p, part)
      BY <1>1, <1>3, <2>1, <2>3, <3>3 DEF Standing
    <3>5. FileOf(n, part) \notin OpenFiles(p)
      <4>1. ~KeepsName(part)
        BY <2>1 DEF Elsewhere
      <4>2. \A i \in 1..Len(w) : w[i][2] = Fst
        BY <3>1, <3>2
      <4>. QED BY <1>11, <2>3, <4>1, <4>2, FilesApart
    <3>. QED BY <1>5, <3>4, <3>5 DEF OnDisk
  <2>. QED BY <2>2, <2>3
<1>15. MainLast'
  <2>1. ASSUME NEW m \in Names PROVE Complete(m)'
    BY <1>2, <1>3, <1>7, <1>12, <1>14, OthersComplete, MainLastIs
  <2>. QED BY <2>1 DEF MainLast, Complete, OnDisk
<1>16. ASSUME NEW q \in Programs, pc'[q] = "writing" PROVE Standing(q)'
  <2>1. q # p
    BY <1>7, <1>16
  <2>2. Standing(q) /\ writer[target[q]].by = q
    BY <1>3, <1>7, <1>16, <2>1 DEF DeckInv, Owned
  <2>3. target[q] # n
    BY <1>3, <2>1, <2>2
  <2>. QED BY <1>2, <1>7, <1>12, <2>1, <2>2, <2>3, OthersStand
<1>. QED BY <1>8, <1>9, <1>10, <1>15, <1>16 DEF DeckInv

\* And by a step of something else.
LEMMA StutterInv == DeckInv /\ UNCHANGED vars => DeckInv'
<1>. SUFFICES ASSUME DeckInv, UNCHANGED vars PROVE DeckInv'
  OBVIOUS
<1>1. UNCHANGED <<source, target, pc, todo, vt, wrote, disk, writer, kills>>
  BY DEF vars
<1>2. TypeInv' /\ Owned' /\ Fresh'
  BY <1>1 DEF DeckInv, TypeInv, Owned, Fresh
<1>3. MainLast'
  BY <1>1 DEF DeckInv, MainLast
<1>4. \A q : Untouched(target[q])
  BY <1>1 DEF Untouched
<1>5. ASSUME NEW q \in Programs, pc'[q] = "writing" PROVE Standing(q)'
  BY <1>1, <1>4, <1>5, OthersStand DEF DeckInv
<1>. QED BY <1>2, <1>3, <1>5 DEF DeckInv

\* It is inductive.
LEMMA StepInv ==
  ASSUME LoadedAsRead
  PROVE  DeckInv /\ [Next]_vars => DeckInv'
<1>. SUFFICES ASSUME DeckInv, [Next]_vars PROVE DeckInv'
  OBVIOUS
<1>1. ASSUME NEW p \in Programs, StartWrite(p) PROVE DeckInv'
  BY <1>1, StartWriteInv
<1>2. ASSUME NEW p \in Programs, Open(p) \/ Close(p) PROVE DeckInv'
  BY <1>2, WriteInv
<1>3. ASSUME NEW p \in Programs, Raise(p) \/ Kill(p) PROVE DeckInv'
  BY <1>3, EndEarlyInv
<1>4. ASSUME NEW p \in Programs, Read(p) \/ StartRead(p) PROVE DeckInv'
  BY <1>4, ReadInv
<1>5. CASE UNCHANGED vars
  BY <1>5, StutterInv
<1>. QED BY <1>1, <1>2, <1>3, <1>4, <1>5 DEF Next, Act

\* MainLast: if the dictionaries are as the reader makes them (LoadedAsRead), a whole main
\* file of a program means that every file it had to write is there, whole and its own,
\* whatever the decks, the names and the number of programs, and whoever is killed (execute).
THEOREM DecksAreWhole ==
  ASSUME LoadedAsRead
  PROVE  Spec => []MainLast
<1>1. DeckInv => MainLast
  BY DEF DeckInv
<1>. QED BY <1>1, InitInv, StepInv, PTL DEF Spec
=============================================================================
