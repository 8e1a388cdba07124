----------------------------- MODULE DeckWriter -----------------------------
(***************************************************************************)
(* What FAST_writer.py writes: for every kind of input file, its sections  *)
(* and their lines as functions of the contents c of the dictionary it is  *)
(* written from.  A writer that ends its file with a line of dashes, or    *)
(* with a blank one, has a last section that nobody reads.                 *)
(***************************************************************************)
EXTENDS DeckLayout

WriteMainInput(c) ==
  <<<<"title", 2>>, <<"SIMULATION CONTROL", 13>>, <<"FEATURE SWITCHES AND FLAGS", 14>>,
    <<"ENVIRONMENTAL CONDITIONS", 10>>, <<"INPUT FILES", 14>>, <<"OUTPUT", 9>>,
    <<"LINEARIZATION", 14>>, <<"VISUALIZATION", 5>>>>

\* ElastoDyn up to the tower, and its outputs.
WriteElastoDynInput(c) ==
  <<<<"title", 2>>, <<"SIMULATION CONTROL", 4>>, <<"DEGREES OF FREEDOM", 19>>,
    <<"INITIAL CONDITIONS", 18>>, <<"TURBINE CONFIGURATION", 29>>, <<"MASS AND INERTIA", 24>>,
    <<"BLADE", 5>>, <<"ROTOR-TEETER", 9>>, <<"YAW-FRICTION", 11>>, <<"DRIVETRAIN", 5>>,
    <<"FURLING", 3>>, <<"TOWER", 3>>>>
\* The nodes of the gages are one line each, also where there are none.
WriteElastoDynOutput_noGages(c) ==
  <<<<"OUTPUT", 8>>, <<"TwrGagNd", 1>>, <<"NBlGages", 1>>>>
  \o Channels("OutList") \o NodalChannels(c, 4) \o <<<<"dashes", 1>>>>
WriteElastoDynOutput(c) ==
  <<<<"OUTPUT", 8>>, <<"TwrGagNd", 1>>, <<"NBlGages", 1>>, <<"BldGagNd", 1>>>>
  \o Channels("OutList") \o NodalChannels(c, 4) \o <<<<"dashes", 1>>>>
WriteElastoDyn(c) == WriteElastoDynInput(c) \o WriteElastoDynOutput(c)

WriteSimpleElastoDyn(c) ==
  <<<<"title", 2>>, <<"SIMULATION CONTROL", 4>>, <<"DEGREES OF FREEDOM", 3>>,
    <<"INITIAL CONDITIONS", 6>>, <<"TURBINE CONFIGURATION", 9>>, <<"MASS AND INERTIA", 3>>,
    <<"DRIVETRAIN", 2>>, <<"OUTPUT", 1>>>>
  \o Channels("OutList") \o <<<<"dashes", 1>>>>

WriteElastoDynBlade(c) ==
  <<<<"title", 2>>, <<"BLADE PARAMETERS", 5>>, <<"BLADE ADJUSTMENT FACTORS", 6>>,
    <<"DISTRIBUTED BLADE PROPERTIES", 3>>, <<"NBlInpSt", c.NBlInpSt>>,
    <<"BLADE MODE SHAPES", 16>>>>

WriteElastoDynTower(c) ==
  <<<<"title", 2>>, <<"TOWER PARAMETERS", 6>>, <<"TOWER ADJUSTMUNT FACTORS", 8>>,
    <<"DISTRIBUTED TOWER PROPERTIES", 3>>, <<"NTwInpSt", c.NTwInpSt>>,
    <<"TOWER FORE-AFT MODE SHAPES", 11>>, <<"TOWER SIDE-TO-SIDE MODE SHAPES", 11>>>>

\* The key points of every member follow its own title and units.
WriteBeamDyn(c) ==
  <<<<"title", 2>>, <<"SIMULATION CONTROL", 16>>, <<"GEOMETRY PARAMETER", 3>>>>
  \o [m \in 1..Len(c.keyPoints) |-> <<"member", 3 + c.keyPoints[m]>>]
  \o <<<<"MESH PARAMETER", 2>>, <<"MATERIAL PARAMETER", 2>>, <<"OUTPUTS", 5>>>>
  \o Channels("OutList") \o NodalChannels(c, 3) \o <<<<"dashes", 1>>>>

\* A station is its position and two six by six matrices, each with a blank line.
WriteBeamDynBlade(c) ==
  <<<<"title", 2>>, <<"Blade Parameters", 3>>, <<"Stiffness-Proportional Damping", 4>>,
    <<"Modal Damping", 3>>, <<"DISTRIBUTED PROPERTIES", 1>>,
    <<"stations", 15 * c.station_total>>, <<"blank", 1>>>>

WriteInflowWind(c) ==
  <<<<"title", 2>>, <<"general", 10>>, <<"Steady Wind", 4>>, <<"Uniform wind file", 4>>,
    <<"TurbSim", 2>>, <<"Bladed", 3>>, <<"HAWC", 11>>, <<"Scaling parameters", 8>>,
    <<"Mean wind profile", 6>>, <<"LIDAR Parameters", 13>>, <<"OUTPUT", 2>>>>
  \o Channels("OutList") \o <<<<"dashes", 1>>>>

\* AeroDyn up to the names of the airfoil files, and the rest.
WriteAeroDynInput(c) ==
  <<<<"title", 2>>, <<"General Options", 11>>, <<"Environmental Conditions", 6>>,
    <<"Blade-Element/Momentum Theory Options", 2>>, <<"Skew correction", 5>>,
    <<"BEM algorithm", 8>>, <<"Shear correction", 6>>, <<"Dynamic wake/inflow", 3>>,
    <<"OLAF", 2>>, <<"Unsteady Airfoil Aerodynamics Options", 5>>>>
  \o (IF {"UAStartRad", "UAEndRad"} \subseteq c.UARad
      THEN <<<<"UAStartRad", 1>>, <<"UAEndRad", 1>>>> ELSE <<>>)
  \o <<<<"Airfoil Information", 8>>, <<"AFNames", c.NumAFfiles>>>>
WriteAeroDynRest(c) ==
  <<<<"Rotor/Blade Properties", 5>>, <<"Hub Properties", 3>>, <<"Nacelle Properties", 6>>,
    <<"Tail Fin Aerodynamics", 3>>, <<"Tower Influence and Aerodynamics", 4>>,
    <<"NumTwrNds", c.NumTwrNds>>, <<"Outputs", 6>>>>
  \o Channels("OutList") \o NodalChannels(c, 4) \o <<<<"dashes", 1>>>>
WriteAeroDyn(c) == WriteAeroDynInput(c) \o WriteAeroDynRest(c)

WriteAeroDynBlade(c) ==
  <<<<"title", 2>>, <<"Blade Properties", 4>>, <<"NumBlNds", c.NumBlNds>>>>

\* Only AFTabMod 2, and 3 with flaps, keep the tables beyond the first.
num_tab(c) ==
  IF c.AFTabMod = 2 \/ (c.AFTabMod = 3 /\ c.flaps = 1) THEN Len(c.tables) ELSE 1
\* Comments apart, which the reader skips.
WriteAeroDynPolar(c) ==
  <<<<"InterpOrd", 1>>, <<"RelThickness", c.RelThickness>>, <<"NonDimArea", 1>>,
    <<"NumCoords", 1>>, <<"BL_file", 1>>, <<"NumTabs", 1>>>>
  \o FlattenSeq([t \in 1..num_tab(c) |->
       <<<<"Re", 1>>, <<"UserProp", 1>>, <<"InclUAdata", 1>>,
         <<"Unsteady Aero Data", 32 * c.tables[t].InclUAdata>>, <<"NumAlf", 1>>,
         <<"polar", c.tables[t].NumAlf>>>>])

WriteAeroDynCoord(c) ==
  <<<<"NumCoords", 1>>, <<"reference", 1>>, <<"coordinates", c.NumCoords - 1>>>>

WriteOLAF(c) ==
  <<<<"title", 2>>, <<"GENERAL OPTIONS", 5>>, <<"CIRCULATION SPECIFICATIONS", 6>>,
    <<"WAKE OPTIONS", 2>>, <<"WAKE EXTENT AND DISCRETIZATION", 6>>,
    <<"WAKE REGULARIZATIONS AND DIFFUSION", 8>>, <<"WAKE TREATMENT OPTIONS", 3>>,
    <<"SPEEDUP OPTIONS", 4>>, <<"OUTPUT OPTIONS", 8>>, <<"units", 1>>,
    <<"ADVANCED OPTIONS", 3>>>>

WriteAeroDisk(c) ==
  <<<<"title", 2>>, <<"SIMULATION CONTROL", 3>>, <<"ENVIRONMENTAL CONDITIONS", 2>>,
    <<"ACTUATOR DISK PROPERTIES", 5>>, <<"OUTPUTS", 1>>>>
  \o Channels("OutList") \o <<<<"dashes", 1>>>>
WriteAeroDiskProp(c) == <<<<"header", 3>>, <<"data", c.rows>>>>

WriteServoDynInput(c) ==
  <<<<"title", 2>>, <<"SIMULATION CONTROL", 3>>, <<"PITCH CONTROL", 21>>,
    <<"GENERATOR AND TORQUE CONTROL", 9>>, <<"SIMPLE VARIABLE-SPEED TORQUE CONTROL", 5>>,
    <<"SIMPLE INDUCTION GENERATOR", 5>>, <<"THEVENIN-EQUIVALENT INDUCTION GENERATOR", 9>>,
    <<"HIGH-SPEED SHAFT BRAKE", 5>>, <<"NACELLE-YAW CONTROL", 9>>,
    <<"Aerodynamic Flow Control", 5>>, <<"STRUCTURAL CONTROL", 9>>, <<"CABLE CONTROL", 2>>>>
WriteServoDynOutput(c) ==
  <<<<"BLADED INTERFACE", 20>>, <<"BLADED INTERFACE TORQUE-SPEED LOOK-UP TABLE", 4>>,
    <<"DLL_NumTrq", c.DLL_NumTrq>>, <<"OUTPUT", 6>>>>
  \o Channels("OutList") \o <<<<"dashes", 1>>>>
WriteServoDyn(c) == WriteServoDynInput(c) \o WriteServoDynOutput(c)

WriteStC(c) ==
  <<<<"title", 2>>, <<"SIMULATION CONTROL", 2>>, <<"StC DEGREES OF FREEDOM", 5>>,
    <<"StC LOCATION", 4>>, <<"StC INITIAL CONDITIONS", 5>>, <<"StC CONFIGURATION", 7>>,
    <<"StC MASS, STIFFNESS, & DAMPING", 17>>, <<"StC USER-DEFINED SPRING FORCES", 3>>,
    <<"StC SPRING FORCES TABLE", 3>>, <<"NKInpSt", c.NKInpSt>>,
    <<"StructUserProp CONTROL", 13>>, <<"TLCD", 13>>, <<"PRESCRIBED TIME SERIES", 3>>,
    <<"dashes", 1>>>>

WriteSpdTrq(c) == <<<<"header", 1>>, <<"rows", c.rows>>>>

-----------------------------------------------------------------------------

\* Offshore parts.  The tables of HydroDyn come one after another, apart from
\* the simple coefficients, which are always one row.
WriteHydroDynPlatform(c) ==
  <<<<"title", 3>>, <<"FLOATING PLATFORM", 24>>, <<"2ND-ORDER FLOATING PLATFORM FORCES", 5>>,
    <<"PLATFORM ADDITIONAL STIFFNESS AND DAMPING", 1>>, <<"AddF0", 6>>, <<"AddCLin", 6>>,
    <<"AddBLin", 6>>, <<"AddBQuad", 6>>, <<"STRIP THEORY OPTIONS", 4>>>>
  \o Tables(c, <<"NAxCoef", "NJoints", "NPropSetsCyl", "NPropSetsRec">>)
WriteHydroDynCoefficients(c) ==
  <<<<"SIMPLE CYLINDRICAL", 4>>, <<"SIMPLE RECTANGULAR", 4>>>>
  \o Tables(c, <<"NCoefDpthCyl", "NCoefDpthRec", "NCoefMembersCyl", "NCoefMembersRec">>)
WriteHydroDynMembers(c) ==
  Tables(c, <<"NMembers", "NFillGroups", "NMGDepths", "NMOutputs">>)
  \o <<<<"JOINT OUTPUT LIST", 3>>, <<"OUTPUT", 6>>>> \o Channels("OutList")
WriteHydroDyn(c) ==
  WriteHydroDynPlatform(c) \o WriteHydroDynCoefficients(c) \o WriteHydroDynMembers(c)

\* The lines of the kinematics outputs are there with NWaveKin = 0 too.
WriteSeaState(c) ==
  <<<<"title", 3>>, <<"ENVIRONMENTAL CONDITIONS", 4>>, <<"SPATIAL DISCRETIZATION", 7>>,
    <<"WAVES", 20>>, <<"2ND-ORDER WAVES", 7>>, <<"CONSTRAINED WAVES", 6>>, <<"CURRENT", 9>>,
    <<"MacCamy-Fuchs Diffraction Model", 2>>, <<"OUTPUT", 9>>, <<"NWaveKin", 3>>>>
  \o Channels("OUTPUT CHANNELS")

WriteSubDynStructure(c) ==
  <<<<"title", 2>>, <<"SIMULATION CONTROL", 5>>, <<"FEA and CRAIG-BAMPTON PARAMETERS", 8>>,
    <<"GuyanDampSize", c.GuyanDampSize>>, <<"INITIAL RIGID-BODY POSITION", 4>>>>
  \o Tables(c, <<"NJoints", "NReact", "NInterf", "NMembers", "NPropSetsCyl",
                 "NPropSetsRec", "NXPropSets">>)
WriteSubDynRest(c) ==
  Tables(c, <<"NCablePropSets", "NRigidPropSets", "NSpringPropSets", "NCOSMs", "NCmass">>)
  \o <<<<"OUTPUT", 2>>, <<"OutCBModes", c.OutCBModes>>, <<"OutFEMModes", c.OutFEMModes>>,
       <<"output format", 7>>, <<"MEMBER OUTPUT LIST", 4 + c.NMOutputs>>>>
  \o Channels("SDOutList")
WriteSubDyn(c) == WriteSubDynStructure(c) \o WriteSubDynRest(c)

WriteExtPtfm_noEnd(c) ==
  <<<<"title", 2>>, <<"SIMULATION CONTROL", 4>>, <<"REDUCTION INPUTS", 9>>,
    <<"CONNECTION INPUTS", 3>>, <<"USER FORCING INPUTS", 5>>, <<"OUTPUT", 6>>, <<"OutList", 1>>>>
WriteExtPtfm(c) ==
  <<<<"title", 2>>, <<"SIMULATION CONTROL", 4>>, <<"REDUCTION INPUTS", 9>>,
    <<"CONNECTION INPUTS", 3>>, <<"USER FORCING INPUTS", 5>>, <<"OUTPUT", 6>>>>
  \o Channels("OutList")

\* The four files of ExtPtfm are sections that start with a line of "!keyword".
WriteSuperelement(c) ==
  <<<<"!Dimension", 1>>, <<"!Mass", 1 + c.nDOF>>, <<"!Stiffness", 1 + c.nDOF>>,
    <<"!Damping", 1 + c.nDOF>>, <<"!Weight constant", 2>>, <<"!Weight stiffness", 1 + c.nDOF>>>>
WriteConnections(c) ==
  <<<<"!nConn", 1>>, <<"!Connections", 1 + c.nConn>>, <<"!Displacement", 1 + 3 * c.nConn>>>>
WriteUserForcing(c) == <<<<"!nSteps", 1>>, <<"!Forcing", 1 + c.nSteps>>>>
WriteConnForcing(c) == <<<<"!nSteps", 1>>, <<"!Forcing", 1 + c.nSteps>>>>

\* A loop over range(1) writes the line types.
WriteMAP(c) ==
  <<<<"LINE DICTIONARY", 3>>, <<"types", IF c.types > 1 THEN 1 ELSE c.types>>,
    <<"NODE PROPERTIES", 3>>, <<"nodes", c.nodes>>, <<"LINE PROPERTIES", 3>>,
    <<"lines", c.lines>>, <<"SOLVER OPTIONS", 3>>, <<"options", c.options>>, <<"blank", 1>>>>

\* A heading of MoorDyn, its column titles and units, and its rows; some sections
\* are written only when they have rows.
Section(name, rows) == <<<<name, 3>>, <<"rows", rows>>>>
Optional(name, rows) == IF rows = 0 THEN <<>> ELSE Section(name, rows)
WriteMoorDynObjects(c) ==
  <<<<"MoorDyn Input File", 1>>, <<"Generated", 1>>, <<"Comments dropped", 1>>,
    <<"WriteLog in the options", 1>>>>
  \o Section("LINE TYPES", c.lineTypes) \o Optional("ROD TYPES", c.rodTypes)
  \o Optional("BODIES", c.bodies) \o Optional("RODS", c.rods)
WriteMoorDynRest(c) ==
  Section("POINTS", c.points) \o Section("LINES", c.lines) \o Optional("FAILURE", c.failures)
  \o Optional("CONTROL", c.controls) \o Optional("EXTERNAL LOADS", c.loads)
  \o <<<<"SOLVER OPTIONS", 1>>, <<"rows", c.options>>, <<"OUTPUTS", 1>>,
       <<"rows", c.channels>>, <<"END", 1>>>>
WriteMoorDyn(c) == WriteMoorDynObjects(c) \o WriteMoorDynRest(c)

\* The rows of a current profile are written without an end of line, so that the
\* last line of the file, the dashes that end the profile, is glued to them.
WriteWaterKin(c) ==
  <<<<"title", 2>>, <<"WAVES", 11>>, <<"CURRENT", 2>>>>
  \o (IF c.CurrentMod = 2 THEN <<<<"current_Z", 2>>>> ELSE <<>>)
  \o (IF c.CurrentMod = 1 THEN <<<<"profile", 2>>>> ELSE <<>>)
  \o (IF c.CurrentMod = 1 /\ c.rows > 0 THEN <<<<"glued rows", 1>>>> ELSE <<<<"dashes", 1>>>>)
=============================================================================
