------------------------------- MODULE MCDeck -------------------------------
(* Small instances of Deck: decks of every module, and pairs of programs.  *)
EXTENDS Deck

CONSTANTS first, second

\* Contents of the files of a source deck.
main == [ver |-> "source", CompElast |-> 1, CompInflow |-> 0, CompAero |-> 0, CompServo |-> 0,
         CompHydro |-> 0, CompSeaSt |-> 0, CompSub |-> 0, CompMooring |-> 0, files |-> <<0, 0, 0>>]
plain == [ver |-> "source"]
elasto == [ver |-> "source", NumBl |-> 3, files |-> <<0, 0, 0>>, nodal |-> 0, nodalChannels |-> 0]
blade == [ver |-> "source", NBlInpSt |-> 2]
tower == [ver |-> "source", NTwInpSt |-> 2]
aero == [ver |-> "source", files |-> <<0, 0, 0>>, NumAFfiles |-> 1, UARad |-> {}, NumTwrNds |-> 2,
         nodal |-> 1, coords |-> <<>>, InCol_Cm |-> 4, InCol_Cpmin |-> 0, Wake_Mod |-> 1, UA_Mod |-> 0]
aeroBlade == [ver |-> "source", NumBlNds |-> 3]
table == [InclUAdata |-> 1, NumAlf |-> 2]
polar == [ver |-> "source", RelThickness |-> 0, tables |-> <<table>>, AFTabMod |-> 1, flaps |-> 0]
coord == [ver |-> "source", NumCoords |-> 3]
servo == [ver |-> "source", DLL_NumTrq |-> 1, VSContrl |-> 5, BStC |-> 0, NStC |-> 1, TStC |-> 0,
          SStC |-> 0, DLL_InFile |-> 1]
stc == [ver |-> "source", NKInpSt |-> 2]
controller == [ver |-> "source", Cp_table |-> 1]
hydro == [ver |-> "source", NBody |-> 1, NBodyMod |-> 1, NJOutputs |-> 1, NAxCoef |-> 1, NJoints |-> 2,
          NPropSetsCyl |-> 1, NPropSetsRec |-> 0, NCoefDpthCyl |-> 0, NCoefDpthRec |-> 0,
          NCoefMembersCyl |-> 1, NCoefMembersRec |-> 0, NMembers |-> 1, NFillGroups |-> 0,
          NMGDepths |-> 0, NMOutputs |-> 1]
sub == [ver |-> "source", GuyanDampSize |-> 6, OutCBModes |-> 1, OutFEMModes |-> 1, NMOutputs |-> 1,
        NJoints |-> 2, NReact |-> 1, NInterf |-> 1, NMembers |-> 1, NPropSetsCyl |-> 1,
        NPropSetsRec |-> 0, NXPropSets |-> 0, NCablePropSets |-> 0, NRigidPropSets |-> 0,
        NSpringPropSets |-> 0, NCOSMs |-> 0, NCmass |-> 1]
catenary == [ver |-> "source", types |-> 1, nodes |-> 2, lines |-> 1, options |-> 3]
mooring == [ver |-> "source", lineTypes |-> 1, rodTypes |-> 0, bodies |-> 0, rods |-> 0, points |-> 2,
            lines |-> 1, failures |-> 0, controls |-> 1, loads |-> 0, options |-> 4, channels |-> 2,
            WaterKin |-> 0]
platform == [ver |-> "source", HasConnections |-> 1, HasUserForcing |-> 1, HasConnForcing |-> 1]
beam == [ver |-> "source", keyPoints |-> <<2, 3>>, nodal |-> 1]

rigid == (ED :> elasto) @@ (<<"EDBlade", 0>> :> blade) @@ (Tower :> tower)
wind(c) == (AD :> c) @@ (<<"ADBlade", 0>> :> aeroBlade) @@ (<<"Polar", 1>> :> polar)
Aerodynamic == [main EXCEPT !.CompInflow = 1, !.CompAero = 2]

\* A turbine on land with a controller and a structural controller.
Land ==
  (Fst :> [Aerodynamic EXCEPT !.CompServo = 1]) @@ rigid @@ (IfW :> plain)
  @@ wind([aero EXCEPT !.coords = <<1>>, !.UARad = {"UAStartRad", "UAEndRad"}])
  @@ (<<"Coord", 1>> :> coord) @@ (SrvD :> servo) @@ (<<"NStC", 1>> :> stc)
  @@ (DISCON :> controller)
\* A monopile, and a floating turbine.
Fixed ==
  (Fst :> [main EXCEPT !.CompHydro = 1, !.CompSeaSt = 1, !.CompSub = 1]) @@ rigid
  @@ (HD :> hydro) @@ (SeaSt :> plain) @@ (SubD :> sub)
Floating ==
  (Fst :> [main EXCEPT !.CompHydro = 1, !.CompSeaSt = 1, !.CompMooring = 3]) @@ rigid
  @@ (HD :> [hydro EXCEPT !.NBody = 2, !.NBodyMod = 2]) @@ (SeaSt :> plain) @@ (MD :> mooring)
Moored(c) == (Fst :> [main EXCEPT !.CompMooring = 1]) @@ rigid @@ (MAP :> c)
\* A free wake, a flexible blade for each of three, a disk, a reduced platform.
FreeWake ==
  (Fst :> Aerodynamic) @@ rigid @@ (IfW :> plain) @@ wind([aero EXCEPT !.Wake_Mod = 3])
  @@ (OLAF :> plain)
Flexible ==
  (Fst :> [main EXCEPT !.CompElast = 2, !.files = <<1, 2, 3>>]) @@ (ED :> elasto) @@ (Tower :> tower)
  @@ [part \in {"BD"} \X (1..3) |-> beam]
  @@ [part \in {"BDBlade"} \X (1..3) |-> [ver |-> "source", station_total |-> 2]]
Disk ==
  (Fst :> [main EXCEPT !.CompElast = 3, !.CompAero = 1, !.CompServo = 1]) @@ (SED :> plain)
  @@ (ADsk :> plain) @@ (ADskProp :> [ver |-> "source", rows |-> 2])
  @@ (SrvD :> [servo EXCEPT !.VSContrl = 3, !.DLL_InFile = 0])
  @@ (<<"NStC", 1>> :> stc) @@ (SpdTrq :> [ver |-> "source", rows |-> 2])
Reduced ==
  (Fst :> [main EXCEPT !.CompSub = 2]) @@ rigid @@ (ExtP :> platform)
  @@ (SE :> [ver |-> "source", nDOF |-> 2]) @@ (Conn :> [ver |-> "source", nConn |-> 1])
  @@ (UserF :> [ver |-> "source", nSteps |-> 1]) @@ (ConnF :> [ver |-> "source", nSteps |-> 1])
\* Three blades of their own; several tables; what the writer refuses.
Distinct(n) ==
  (Fst :> Aerodynamic) @@ (ED :> [elasto EXCEPT !.NumBl = n, !.nodal = 1]) @@ (<<"EDBlade", 0>> :> blade)
  @@ (Tower :> tower) @@ (IfW :> plain) @@ (AD :> [aero EXCEPT !.files = <<1, 2, 3>>])
  @@ [part \in {"ADBlade"} \X (1..3) |-> aeroBlade]
  @@ (<<"Polar", 1>> :> [polar EXCEPT !.tables = <<table, [table EXCEPT !.NumAlf = 3]>>, !.AFTabMod = 2])
Refused ==
  (Fst :> Aerodynamic) @@ rigid @@ (IfW :> plain)
  @@ wind([aero EXCEPT !.InCol_Cm = 4, !.InCol_Cpmin = 5])
Rods ==
  (Fst :> [main EXCEPT !.CompMooring = 3]) @@ rigid @@ (MD :> [mooring EXCEPT !.rods = 1, !.rodTypes = 1])
\* Water kinematics with a profile, whose name only some file systems find again.
Current ==
  (Fst :> [main EXCEPT !.CompMooring = 3]) @@ rigid @@ (MD :> [mooring EXCEPT !.WaterKin = 1])
  @@ (WK :> [ver |-> "source", CurrentMod |-> 1, rows |-> 2])

Decks ==
  [deck \in {"land", "fixed", "floating", "moored", "wake", "flexible", "disk", "reduced", "distinct",
             "two blades", "refused", "rods", "current", "two lines"} |->
     CASE deck = "land" -> Land
       [] deck = "fixed" -> Fixed
       [] deck = "floating" -> Floating
       [] deck = "moored" -> Moored(catenary)
       [] deck = "wake" -> FreeWake
       [] deck = "flexible" -> Flexible
       [] deck = "disk" -> Disk
       [] deck = "reduced" -> Reduced
       [] deck = "distinct" -> Distinct(3)
       [] deck = "two blades" -> Distinct(2)
       [] deck = "refused" -> Refused
       [] deck = "rods" -> Rods
       [] deck = "current" -> Current
       [] deck = "two lines" -> Moored([catenary EXCEPT !.types = 2])]

\* The first program loads one deck and the second another, under one name or two.
Pair(deck1, name1, deck2, name2) == <<(first :> deck1) @@ (second :> deck2), (first :> name1) @@ (second :> name2)>>
OneName ==
  {Pair("wake", "a", "land", "a"), Pair("fixed", "a", "floating", "a"),
   Pair("flexible", "a", "moored", "a"), Pair("distinct", "a", "two blades", "a"),
   Pair("reduced", "a", "current", "a"), Pair("refused", "a", "rods", "a")}
\* Both decks have a structural controller of the same name.
TwoNames == {Pair("land", "a", "disk", "b")}
All == OneName \cup TwoNames
TwoLines == {Pair("two lines", "a", "moored", "a")}

\* The theorems about Deck apply to these decks.
ASSUME DecksAssumption == LoadedAsRead /\ LoadedWritable /\ NoLeftovers
=============================================================================
