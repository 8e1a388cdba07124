---------------------------- MODULE PyLibraries ----------------------------
(* pyOpenFAST: one Python process that drives the compiled libraries        *)
(* through the classes of glue-codes/python/pyOpenFAST. Objects of these    *)
(* classes share class attributes (status buffer, abort level); methods     *)
(* call the library, look at the status it left and, on a fatal one, end    *)
(* the library and raise. The program calls the methods in their documented *)
(* order, may end an object more than once (a finally and a with block),    *)
(* and catches what they raise. A library may report any level.             *)
EXTENDS Integers, FiniteSets

CONSTANTS Processes,    \* sets of classes a process may hold an object of
          Outputs,      \* [T, dt, k, above]: times of OpenFAST and its
                        \* output step, and how their quotients are rounded
          FileLevels,   \* abort levels an OpenFAST input file may set
          MaxCalls      \* bound on the method calls of a process

None   == 0
Warn   == 2
Severe == 3
Fatal  == 4
Levels == {None, Warn, Severe, Fatal}

Kinds == {"fast", "hydrodyn", "moordyn", "inflowwind", "seastate", "aerodyn",
          "wavetank"}

\* An input file may abort on warnings, severe or fatal errors (FAST_Input).
ASSUME FileLevelsAssumption == FileLevels \subseteq {Warn, Severe, Fatal}

ASSUME ProcessesAssumption == Processes \subseteq SUBSET Kinds

Class == "class"     \* the attributes of OpenFASTInterfaceType

VARIABLES objs,     \* the classes this process holds an object of
          status,   \* [Kinds \cup {Class} -> Levels]: error_status_c
          abort,    \* Class's abort_error_level
          ended,    \* [Kinds -> BOOLEAN]: the object's flag
          live,     \* [Kinds -> BOOLEAN]: the library holds data
          ends,     \* [Kinds -> 0..]: calls of the library's End routine
          phase,    \* [Kinds -> Phases]: how far the program is
          last,     \* the last method: object, level reported, raised
          sim,      \* FastLibAPI.sim: output case, i, i_out, output rows
          calls

vars == <<objs, status, abort, ended, live, ends, phase, last, sim, calls>>

Phases == {"new", "pre", "rotor", "ready", "sim", "over", "raised", "done"}

----------------------------------------------------------------------------
(* The status a class reads and the level at which it gives up.             *)

\* The classes whose end tests the flag before it calls the library and checks.
Flagged == {"fast", "hydrodyn", "moordyn", "inflowwind", "aerodyn"}

OwnStatus == {"inflowwind", "seastate", "wavetank"}
OwnLevel  == {"inflowwind", "wavetank"}

Cell(o)  == IF o \in OwnStatus THEN o ELSE Class
Level(o) == IF o \in OwnLevel THEN Fatal ELSE abort

(* What a method changes, before it is stored.                              *)
View(o) == [status |-> status[Cell(o)], ended |-> ended[o], live |-> live[o],
            ends |-> ends[o], raised |-> FALSE]

Raise(v) == [v EXCEPT !.raised = TRUE]
Returned(v, lev) == [v EXCEPT !.status = lev, !.live = TRUE]

LibEnd(v, e) ==
    [v EXCEPT !.status = e, !.live = FALSE, !.ends = @ + 1]

\* check_error of an object that has ended: its end is a no-op
CheckEnded(o, v) ==
    IF v.status >= Level(o) \/ (o = "hydrodyn" /\ v.status # None)
    THEN Raise(v) ELSE v

\* Mutant: the flag is never set.
GuardedEnd_noFlag(o, v, e) ==
    IF v.ended THEN v ELSE CheckEnded(o, LibEnd(v, e))

\* xxx_end of the classes that test the flag before they call the library
GuardedEnd(o, v, e) ==
    IF v.ended THEN v
    ELSE CheckEnded(o, LibEnd([v EXCEPT !.ended = TRUE], e))

\* Mutant: the flag is set, the library is not called.
HydroDynCheck_flagOnly(v) ==
    IF v.status = None THEN v ELSE Raise([v EXCEPT !.ended = TRUE])

\* hydrodyn.py compares the status with the c_int itself: a TypeError
HydroDynCheck(v) == IF v.status = None THEN v ELSE Raise(v)

\* Mutant: strictly above the abort level.
GuardedCheck_above(o, v, e) ==
    IF v.status <= Level(o) THEN v ELSE Raise(GuardedEnd(o, v, e))

GuardedCheck(o, v, e) ==
    IF v.status < Level(o) THEN v ELSE Raise(GuardedEnd(o, v, e))

\* Mutant: raises without ending the library.
DirectCheck_noEnd(o, v, e) == IF v.status < Level(o) THEN v ELSE Raise(v)

\* seastate.py and wavetanktesting.py call the library, not their own end
DirectCheck(o, v, e) ==
    IF v.status < Level(o) THEN v ELSE Raise(LibEnd(v, e))

check_error(o, v, e) ==
    CASE o = "hydrodyn" -> HydroDynCheck(v)
      [] o \in {"moordyn", "inflowwind", "aerodyn"} -> GuardedCheck(o, v, e)
      [] OTHER -> DirectCheck(o, v, e)

----------------------------------------------------------------------------
NoCase == [T |-> 0, dt |-> 1, k |-> 1, above |-> [steps |-> FALSE, rows |-> FALSE]]
NoSim  == [case |-> NoCase, i |-> 0, i_out |-> 0, rows |-> <<>>]

Init ==
    /\ objs \in Processes
    /\ status = [c \in Kinds \cup {Class} |-> None]
    /\ abort = Fatal
    /\ ended = [o \in Kinds |-> FALSE]
    /\ live = [o \in Kinds |-> FALSE]
    /\ ends = [o \in Kinds |-> 0]
    /\ phase = [o \in Kinds |-> "new"]
    /\ last = [obj |-> Class, method |-> "call", level |-> None, raised |-> FALSE]
    /\ sim = NoSim
    /\ calls = 0

\* One method at a time: sim returns before another method is called.
Calls(o, from) ==
    /\ o \in objs /\ phase[o] \in from
    /\ phase["fast"] \in {"sim", "over"} => o = "fast"
    /\ calls < MaxCalls
    /\ calls' = calls + 1

Store(o, to, method, lev, v) ==
    /\ status' = [status EXCEPT ![Cell(o)] = v.status]
    /\ ended' = [ended EXCEPT ![o] = v.ended]
    /\ live' = [live EXCEPT ![o] = v.live]
    /\ ends' = [ends EXCEPT ![o] = v.ends]
    /\ phase' = [phase EXCEPT ![o] = IF v.raised THEN "raised" ELSE to]
    /\ last' = [obj |-> o, method |-> method, level |-> lev, raised |-> v.raised]
    /\ UNCHANGED objs

\* A method that calls the library and checks the status.
Method(o, from, to) ==
    /\ Calls(o, from)
    /\ \E lev, e \in Levels :
          Store(o, to, "call", lev, check_error(o, Returned(View(o), lev), e))
    /\ UNCHANGED <<abort, sim>>

\* Arrays of the wrong shape: an exception before the library is called ...
Refuse(o, from) ==
    /\ Calls(o, from)
    /\ last' = [obj |-> o, method |-> "refuse", level |-> None, raised |-> TRUE]
    /\ UNCHANGED <<objs, status, abort, ended, live, ends, phase, sim>>

\* ... or the end of the library and an exception.
RefuseAndEnd(o, from) ==
    /\ Calls(o, from)
    /\ \E e \in Levels :
          Store(o, "raised", "refuse", None, Raise(GuardedEnd(o, View(o), e)))
    /\ UNCHANGED <<abort, sim>>

\* The program ends an object whose library it has called, or ends it again.
CallsEnd(o) == Calls(o, {"pre", "rotor", "ready", "raised", "done"})

End(o) ==
    /\ CallsEnd(o)
    /\ \E e \in Levels :
          Store(o, "done", "end", e, GuardedEnd(o, View(o), e))
    /\ UNCHANGED <<abort, sim>>

Ready == {"ready"}

----------------------------------------------------------------------------
(* hydrodyn.py                                                              *)

hydrodyn_init == Method("hydrodyn", {"new"}, "ready")
hydrodyn_calcOutput == Method("hydrodyn", Ready, "ready")
hydrodyn_calcOutput_and_addedMass == Method("hydrodyn", Ready, "ready")
hydrodyn_updateStates == Method("hydrodyn", Ready, "ready")
check_input_motions == RefuseAndEnd("hydrodyn", {"new", "ready"})
check_input_motions_noAcc == RefuseAndEnd("hydrodyn", Ready)
hydrodyn_end == End("hydrodyn")

HydroDyn ==
    \/ hydrodyn_init \/ hydrodyn_calcOutput \/ hydrodyn_calcOutput_and_addedMass
    \/ hydrodyn_updateStates \/ check_input_motions \/ check_input_motions_noAcc
    \/ hydrodyn_end

(* moordyn.py                                                               *)

md_init == Method("moordyn", {"new"}, "ready")
md_calcOutput == Method("moordyn", Ready, "ready")
md_updateStates == Method("moordyn", Ready, "ready")
md_end == End("moordyn")

MoorDyn == md_init \/ md_calcOutput \/ md_updateStates \/ md_end

(* inflowwind.py                                                            *)

ifw_init == Method("inflowwind", {"new"}, "ready")
ifw_calc_output == Method("inflowwind", Ready, "ready")
ifw_end == End("inflowwind")

InflowWind == ifw_init \/ ifw_calc_output \/ ifw_end

(* seastate.py: the end calls the library once, but checks the status of    *)
(* the last call every time.                                                *)

\* preinit reads debug_level, an attribute that only the program can have set
seastate_preinit == Method("seastate", {"new"}, "pre") \/ Refuse("seastate", {"new"})
seastate_init == Method("seastate", {"pre"}, "ready")
seastate_calcOutput == Method("seastate", Ready, "ready") \/ Refuse("seastate", Ready)
seastate_getWaveFieldPointer == Method("seastate", Ready, "ready")
seastate_setWaveFieldPointer == Method("seastate", Ready, "ready")
get_fluidVelAcc == Method("seastate", Ready, "ready")
get_surfElev == Method("seastate", Ready, "ready")
get_surfNorm == Method("seastate", Ready, "ready")
get_elevMinMax == Method("seastate", Ready, "ready")

SeaStateEnd(v, e) == IF v.ended THEN v ELSE LibEnd([v EXCEPT !.ended = TRUE], e)

seastate_end ==
    /\ CallsEnd("seastate")
    /\ \E e, e2 \in Levels :
          Store("seastate", "done", "end", e,
                DirectCheck("seastate", SeaStateEnd(View("seastate"), e), e2))
    /\ UNCHANGED <<abort, sim>>

SeaState ==
    \/ seastate_preinit \/ seastate_init \/ seastate_calcOutput
    \/ seastate_getWaveFieldPointer \/ seastate_setWaveFieldPointer
    \/ get_fluidVelAcc \/ get_surfElev \/ get_surfNorm \/ get_elevMinMax
    \/ seastate_end

(* aerodyn_inflow.py                                                        *)

adi_preinit == Method("aerodyn", {"new"}, "pre")
adi_setuprotor ==
    \/ Method("aerodyn", {"pre", "rotor"}, "rotor")
    \/ Refuse("aerodyn", {"pre", "rotor"})
adi_init == Method("aerodyn", {"rotor"}, "ready")
adi_setrotormotion == Method("aerodyn", Ready, "ready") \/ Refuse("aerodyn", Ready)
adi_updateStates == Method("aerodyn", Ready, "ready")
adi_calcOutput == Method("aerodyn", Ready, "ready") \/ Refuse("aerodyn", Ready)
adi_getrotorloads == Method("aerodyn", Ready, "ready")
adi_getdiskavgvel == Method("aerodyn", Ready, "ready")
adi_end == End("aerodyn")

AeroDynInflow ==
    \/ adi_preinit \/ adi_setuprotor \/ adi_init \/ adi_setrotormotion
    \/ adi_updateStates \/ adi_calcOutput \/ adi_getrotorloads
    \/ adi_getdiskavgvel \/ adi_end

(* wavetanktesting.py: the end has no flag.                                 *)

wavetank_init == Method("wavetank", {"new"}, "ready")
calc_step == Method("wavetank", Ready, "ready") \/ Refuse("wavetank", Ready)

wavetank_end ==
    /\ CallsEnd("wavetank")
    /\ \E e, e2 \in Levels :
          Store("wavetank", "done", "end", e,
                DirectCheck("wavetank", LibEnd(View("wavetank"), e), e2))
    /\ UNCHANGED <<abort, sim>>

WaveTank == wavetank_init \/ calc_step \/ wavetank_end

Modules == HydroDyn \/ MoorDyn \/ InflowWind \/ SeaState \/ AeroDynInflow \/ WaveTank
=============================================================================
