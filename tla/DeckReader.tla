----------------------------- MODULE DeckReader -----------------------------
(***************************************************************************)
(* What FAST_reader.py reads: for every kind of input file, the sections   *)
(* it takes the values from and the lines it gives to each, as functions   *)
(* of the contents c it finds in the file.  The lines after the last       *)
(* section are not read.  Reading MoorDyn is different: its sections are   *)
(* recognised by words of their headings.                                  *)
(***************************************************************************)
EXTENDS DeckLayout

ReadMainInput(c) ==
  <<<<"title", 2>>, <<"SIMULATION CONTROL", 13>>, <<"FEATURE SWITCHES AND FLAGS", 14>>,
    <<"ENVIRONMENTAL CONDITIONS", 10>>, <<"INPUT FILES", 14>>, <<"OUTPUT", 9>>,
    <<"LINEARIZATION", 14>>, <<"VISUALIZATION", 5>>>>

ReadElastoDynInput(c) ==
  <<<<"title", 2>>, <<"SIMULATION CONTROL", 4>>, <<"DEGREES OF FREEDOM", 19>>,
    <<"INITIAL CONDITIONS", 18>>, <<"TURBINE CONFIGURATION", 29>>, <<"MASS AND INERTIA", 24>>,
    <<"BLADE", 5>>, <<"ROTOR-TEETER", 9>>, <<"YAW-FRICTION", 11>>, <<"DRIVETRAIN", 5>>,
    <<"FURLING", 3>>, <<"TOWER", 3>>>>
\* Without gages on the blades the reader takes their line for the heading of the list
\* and that heading for a channel of no known name, which changes nothing.
ReadElastoDynOutput(c) ==
  <<<<"OUTPUT", 8>>, <<"TwrGagNd", 1>>, <<"NBlGages", 1>>, <<"BldGagNd", 1>>>>
  \o Channels("OutList") \o NodalChannels(c, 4)
ReadElastoDyn(c) == ReadElastoDynInput(c) \o ReadElastoDynOutput(c)

ReadSimpleElastoDyn(c) ==
  <<<<"title", 2>>, <<"SIMULATION CONTROL", 4>>, <<"DEGREES OF FREEDOM", 3>>,
    <<"INITIAL CONDITIONS", 6>>, <<"TURBINE CONFIGURATION", 9>>, <<"MASS AND INERTIA", 3>>,
    <<"DRIVETRAIN", 2>>, <<"OUTPUT", 1>>>>
  \o Channels("OutList")

ReadElastoDynBlade(c) ==
  <<<<"title", 2>>, <<"BLADE PARAMETERS", 1 + 4>>, <<"BLADE ADJUSTMENT FACTORS", 6>>,
    <<"DISTRIBUTED BLADE PROPERTIES", 3>>, <<"NBlInpSt", c.NBlInpSt>>,
    <<"BLADE MODE SHAPES", 1 + 5 + 5 + 5>>>>

ReadElastoDynTower(c) ==
  <<<<"title", 2>>, <<"TOWER PARAMETERS", 6>>, <<"TOWER ADJUSTMUNT FACTORS", 8>>,
    <<"DISTRIBUTED TOWER PROPERTIES", 3>>, <<"NTwInpSt", c.NTwInpSt>>,
    <<"TOWER FORE-AFT MODE SHAPES", 1 + 5 + 5>>, <<"TOWER SIDE-TO-SIDE MODE SHAPES", 1 + 5 + 5>>>>

ReadBeamDyn(c) ==
  <<<<"title", 2>>, <<"SIMULATION CONTROL", 1 + 15>>, <<"GEOMETRY PARAMETER", 1 + 2>>>>
  \o [m \in 1..Len(c.keyPoints) |-> <<"member", 3 + c.keyPoints[m]>>]
  \o <<<<"MESH PARAMETER", 2>>, <<"MATERIAL PARAMETER", 2>>, <<"OUTPUTS", 5>>>>
  \o Channels("OutList") \o NodalChannels(c, 3)

ReadBeamDynBlade(c) ==
  <<<<"title", 2>>, <<"Blade Parameters", 1 + 2>>, <<"Stiffness-Proportional Damping", 3 + 1>>,
    <<"Modal Damping", 1 + 2>>, <<"DISTRIBUTED PROPERTIES", 1>>,
    <<"stations", c.station_total * (1 + (6 + 1) + (6 + 1))>>>>

ReadInflowWind(c) ==
  <<<<"title", 2>>, <<"general", 1 + 9>>, <<"Steady Wind", 4>>, <<"Uniform wind file", 4>>,
    <<"TurbSim", 2>>, <<"Bladed", 3>>, <<"HAWC", 11>>, <<"Scaling parameters", 8>>,
    <<"Mean wind profile", 6>>, <<"LIDAR Parameters", 13>>, <<"OUTPUT", 2>>>>
  \o Channels("OutList")

\* The radii of the unsteady aerodynamics are there if their names are.
ReadAeroDynInput(c) ==
  <<<<"title", 2>>, <<"General Options", 11>>, <<"Environmental Conditions", 6>>,
    <<"Blade-Element/Momentum Theory Options", 2>>, <<"Skew correction", 5>>,
    <<"BEM algorithm", 8>>, <<"Shear correction", 6>>, <<"Dynamic wake/inflow", 3>>,
    <<"OLAF", 2>>, <<"Unsteady Airfoil Aerodynamics Options", 5>>>>
  \o (IF "UAStartRad" \in c.UARad THEN <<<<"UAStartRad", 1>>>> ELSE <<>>)
  \o (IF "UAEndRad" \in c.UARad THEN <<<<"UAEndRad", 1>>>> ELSE <<>>)
  \o <<<<"Airfoil Information", 8>>, <<"AFNames", c.NumAFfiles>>>>
ReadAeroDynRest(c) ==
  <<<<"Rotor/Blade Properties", 5>>, <<"Hub Properties", 3>>, <<"Nacelle Properties", 6>>,
    <<"Tail Fin Aerodynamics", 3>>, <<"Tower Influence and Aerodynamics", 4>>,
    <<"NumTwrNds", c.NumTwrNds>>, <<"Outputs", 6>>>>
  \o Channels("OutList") \o NodalChannels(c, 4)
ReadAeroDyn(c) == ReadAeroDynInput(c) \o ReadAeroDynRest(c)

ReadAeroDynBlade(c) ==
  <<<<"title", 2>>, <<"Blade Properties", 1 + 3>>, <<"NumBlNds", c.NumBlNds>>>>

\* The number of tables is read from the file.
ReadAeroDynPolar(c) ==
  <<<<"InterpOrd", 1>>, <<"RelThickness", c.RelThickness>>, <<"NonDimArea", 1>>,
    <<"NumCoords", 1>>, <<"BL_file", 1>>, <<"NumTabs", 1>>>>
  \o FlattenSeq([t \in 1..Len(c.tables) |->
       <<<<"Re", 1>>, <<"UserProp", 1>>, <<"InclUAdata", 1>>,
         <<"Unsteady Aero Data", 32 * c.tables[t].InclUAdata>>, <<"NumAlf", 1>>,
         <<"polar", c.tables[t].NumAlf>>>>])

ReadAeroDynCoord(c) ==
  <<<<"NumCoords", 1>>, <<"reference", 1>>, <<"coordinates", c.NumCoords - 1>>>>

ReadOLAF(c) ==
  <<<<"title", 2>>, <<"GENERAL OPTIONS", 5>>, <<"CIRCULATION SPECIFICATIONS", 6>>,
    <<"WAKE OPTIONS", 2>>, <<"WAKE EXTENT AND DISCRETIZATION", 6>>,
    <<"WAKE REGULARIZATIONS AND DIFFUSION", 8>>, <<"WAKE TREATMENT OPTIONS", 3>>,
    <<"SPEEDUP OPTIONS", 4>>, <<"OUTPUT OPTIONS", 8>>>>

ReadAeroDisk(c) ==
  <<<<"title", 2>>, <<"SIMULATION CONTROL", 1 + 2>>, <<"ENVIRONMENTAL CONDITIONS", 2>>,
    <<"ACTUATOR DISK PROPERTIES", 5>>, <<"OUTPUTS", 1>>>>
  \o Channels("OutList")
ReadAeroDiskProp(c) == <<<<"header", 3>>, <<"data", c.rows>>>>

ReadServoDynInput(c) ==
  <<<<"title", 2>>, <<"SIMULATION CONTROL", 3>>, <<"PITCH CONTROL", 21>>,
    <<"GENERATOR AND TORQUE CONTROL", 9>>, <<"SIMPLE VARIABLE-SPEED TORQUE CONTROL", 5>>,
    <<"SIMPLE INDUCTION GENERATOR", 5>>, <<"THEVENIN-EQUIVALENT INDUCTION GENERATOR", 9>>,
    <<"HIGH-SPEED SHAFT BRAKE", 5>>, <<"NACELLE-YAW CONTROL", 9>>,
    <<"Aerodynamic Flow Control", 5>>, <<"STRUCTURAL CONTROL", 9>>, <<"CABLE CONTROL", 2>>>>
ReadServoDynOutput(c) ==
  <<<<"BLADED INTERFACE", 20>>, <<"BLADED INTERFACE TORQUE-SPEED LOOK-UP TABLE", 4>>,
    <<"DLL_NumTrq", c.DLL_NumTrq>>, <<"OUTPUT", 6>>>>
  \o Channels("OutList")
ReadServoDyn(c) == ReadServoDynInput(c) \o ReadServoDynOutput(c)

ReadStC(c) ==
  <<<<"title", 2>>, <<"SIMULATION CONTROL", 2>>, <<"StC DEGREES OF FREEDOM", 5>>,
    <<"StC LOCATION", 4>>, <<"StC INITIAL CONDITIONS", 5>>, <<"StC CONFIGURATION", 7>>,
    <<"StC MASS, STIFFNESS, & DAMPING", 17>>, <<"StC USER-DEFINED SPRING FORCES", 3>>,
    <<"StC SPRING FORCES TABLE", 3>>, <<"NKInpSt", c.NKInpSt>>,
    <<"StructUserProp CONTROL", 13>>, <<"TLCD", 13>>, <<"PRESCRIBED TIME SERIES", 3>>>>

ReadSpdTrq(c) == <<<<"header", 1>>, <<"rows", c.rows>>>>

-----------------------------------------------------------------------------

\* With NBodyMod = 1, AddF0 is one vector of all the bodies.
ReadHydroDynPlatform(c) ==
  <<<<"title", 3>>, <<"FLOATING PLATFORM", 24>>, <<"2ND-ORDER FLOATING PLATFORM FORCES", 5>>,
    <<"PLATFORM ADDITIONAL STIFFNESS AND DAMPING", 1>>,
    <<"AddF0", IF c.NBodyMod = 1 THEN 6 * c.NBody ELSE 6>>, <<"AddCLin", 6>>,
    <<"AddBLin", 6>>, <<"AddBQuad", 6>>, <<"STRIP THEORY OPTIONS", 4>>>>
ReadHydroDynSections(c) ==
  Tables(c, <<"NAxCoef", "NJoints", "NPropSetsCyl", "NPropSetsRec">>)
  \o <<<<"SIMPLE CYLINDRICAL", 4>>, <<"SIMPLE RECTANGULAR", 4>>>>
ReadHydroDynCoefficients(c) ==
  Tables(c, <<"NCoefDpthCyl", "NCoefDpthRec", "NCoefMembersCyl", "NCoefMembersRec">>)
ReadHydroDynMembers(c) ==
  Tables(c, <<"NMembers", "NFillGroups", "NMGDepths", "NMOutputs">>)
  \o <<<<"JOINT OUTPUT LIST", 3>>, <<"OUTPUT", 6>>>> \o Channels("OutList")
ReadHydroDyn(c) ==
  ReadHydroDynPlatform(c) \o ReadHydroDynSections(c) \o ReadHydroDynCoefficients(c)
  \o ReadHydroDynMembers(c)

ReadSeaState(c) ==
  <<<<"title", 3>>, <<"ENVIRONMENTAL CONDITIONS", 4>>, <<"SPATIAL DISCRETIZATION", 7>>,
    <<"WAVES", 20>>, <<"2ND-ORDER WAVES", 7>>, <<"CONSTRAINED WAVES", 6>>, <<"CURRENT", 9>>,
    <<"MacCamy-Fuchs Diffraction Model", 2>>, <<"OUTPUT", 9>>, <<"NWaveKin", 3>>>>
  \o Channels("OUTPUT CHANNELS")

ReadSubDynStructure(c) ==
  <<<<"title", 2>>, <<"SIMULATION CONTROL", 5>>, <<"FEA and CRAIG-BAMPTON PARAMETERS", 8>>,
    <<"GuyanDampSize", c.GuyanDampSize>>, <<"INITIAL RIGID-BODY POSITION", 4>>>>
  \o Tables(c, <<"NJoints", "NReact", "NInterf">>)
ReadSubDynMembers(c) ==
  Tables(c, <<"NMembers", "NPropSetsCyl", "NPropSetsRec", "NXPropSets", "NCablePropSets",
              "NRigidPropSets", "NSpringPropSets">>)
ReadSubDynRest(c) ==
  Tables(c, <<"NCOSMs", "NCmass">>)
  \o <<<<"OUTPUT", 2>>, <<"OutCBModes", c.OutCBModes>>, <<"OutFEMModes", c.OutFEMModes>>,
       <<"output format", 7>>, <<"MEMBER OUTPUT LIST", 4 + c.NMOutputs>>>>
  \o Channels("SDOutList")
ReadSubDyn(c) == ReadSubDynStructure(c) \o ReadSubDynMembers(c) \o ReadSubDynRest(c)

ReadExtPtfm(c) ==
  <<<<"title", 2>>, <<"SIMULATION CONTROL", 4>>, <<"REDUCTION INPUTS", 9>>,
    <<"CONNECTION INPUTS", 3>>, <<"USER FORCING INPUTS", 5>>, <<"OUTPUT", 6>>>>
  \o Channels("OutList")

\* A matrix has as many rows as the keyword before it has said.
ReadSuperelement(c) ==
  <<<<"!Dimension", 1>>, <<"!Mass", 1 + c.nDOF>>, <<"!Stiffness", 1 + c.nDOF>>,
    <<"!Damping", 1 + c.nDOF>>, <<"!Weight constant", 1 + 1>>, <<"!Weight stiffness", 1 + c.nDOF>>>>
ReadConnections(c) ==
  <<<<"!nConn", 1>>, <<"!Connections", 1 + c.nConn>>, <<"!Displacement", 1 + 3 * c.nConn>>>>
ReadUserForcing(c) == <<<<"!nSteps", 1>>, <<"!Forcing", 1 + c.nSteps>>>>
ReadConnForcing(c) == <<<<"!nSteps", 1>>, <<"!Forcing", 1 + c.nSteps>>>>

\* The rows end at the next line of dashes, and those of the options at a blank
\* line: their heading is read with the section before.
ReadMAP(c) ==
  <<<<"LINE DICTIONARY", 3>>, <<"types", c.types>>, <<"NODE PROPERTIES", 1 + 2>>,
    <<"nodes", c.nodes>>, <<"LINE PROPERTIES", 1 + 2>>, <<"lines", c.lines>>,
    <<"SOLVER OPTIONS", 1 + 2>>, <<"options", c.options>>, <<"blank", 1>>>>

\* A profile ends at a line of dashes of its own.
ReadWaterKin(c) ==
  <<<<"title", 2>>, <<"WAVES", 1 + 10>>, <<"CURRENT", 1 + 1>>>>
  \o (IF c.CurrentMod = 2 THEN <<<<"current_Z", 2>>>> ELSE <<>>)
  \o (IF c.CurrentMod = 1 THEN <<<<"profile", 2>>, <<"rows", c.rows>>, <<"dashes", 1>>>> ELSE <<>>)

-----------------------------------------------------------------------------

\* The headings of the written file that contain the keyword of a section, in the
\* order in which the reader looks for the keywords.  The note at the top of the
\* written file speaks of the options list, and starts a section of options.
TypeHeadings == <<<<"lineTypes", {"LINE TYPES"}>>, <<"rodTypes", {"ROD TYPES"}>>>>
ObjectHeadings ==
  <<<<"bodies", {"BODIES"}>>, <<"rods", {"RODS"}>>, <<"points", {"POINTS"}>>>>
OtherHeadings ==
  <<<<"lines", {"LINES"}>>, <<"failures", {"FAILURE"}>>, <<"controls", {"CONTROL"}>>,
    <<"loads", {"EXTERNAL LOADS"}>>, <<"options", {"WriteLog in the options", "SOLVER OPTIONS"}>>,
    <<"channels", {"OUTPUTS"}>>>>
Headings == TypeHeadings \o ObjectHeadings \o OtherHeadings

\* What the first keyword that a heading contains makes of it.
SectionAt(heading) ==
  LET found == SelectSeq(Headings, LAMBDA h : heading \in h[2])
  IN  IF found = <<>> THEN "header" ELSE found[1][1]

\* The rows that end up in a section: every heading of it starts it anew, and its
\* rows end at the next line of dashes.  Whether they are those of c.
RowsRead(layout, section) ==
  LET starts == {i \in 1..Len(layout) : SectionAt(layout[i][1]) = section}
      last == CHOOSE i \in starts : \A j \in starts : j <= i
  IN  IF starts # {} /\ last < Len(layout) /\ layout[last + 1][1] = "rows"
      THEN layout[last + 1][2] ELSE 0
ReadsMoorDyn(c, layout) == \A i \in 1..Len(Headings) :
  RowsRead(layout, Headings[i][1]) = c[Headings[i][1]]
=============================================================================
