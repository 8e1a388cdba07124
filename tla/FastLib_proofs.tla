-------------------------- MODULE FastLib_proofs ---------------------------
(* For every set of processes, output steps and abort levels: the errors of *)
(* the libraries raise, a failed call has ended its library, the classes    *)
(* with a flag end it once, and an object that was ended leaves nothing;    *)
(* for every length, time step and output step, and however the quotients   *)
(* of these are rounded, the rows of sim are right, but where the counts of *)
(* steps and rows were rounded apart.                                       *)
EXTENDS FastLib, SequenceTheorems, TLAPS

----------------------------------------------------------------------------
(* The inductive invariant. An object that the program still uses has not   *)
(* ended, and one that has ended holds no data; without the first part a    *)
(* call on an ended object could fail and leave the library alive.          *)

Active == {"new", "pre", "rotor", "ready", "sim", "over"}

Views == [status : Levels, ended : BOOLEAN, live : BOOLEAN, ends : Nat, raised : BOOLEAN]

Types ==
    /\ objs \subseteq Kinds
    /\ status \in [Kinds \cup {Class} -> Levels]
    /\ abort \in {Warn, Severe, Fatal}
    /\ ended \in [Kinds -> BOOLEAN]
    /\ live \in [Kinds -> BOOLEAN]
    /\ ends \in [Kinds -> Nat]
    /\ phase \in [Kinds -> Phases]
    /\ last \in [obj : Kinds \cup {Class}, method : {"call", "init", "hub", "index", "refuse", "end"},
                 level : Levels, raised : BOOLEAN]

InUse    == \A o \in Kinds : phase[o] \in Active => ~ended[o]
Empty    == \A o \in Kinds : ended[o] \/ phase[o] = "done" => ~live[o]
Counted  == \A o \in Flagged : ends[o] = IF ended[o] THEN 1 ELSE 0

IInv == Types /\ InUse /\ Empty /\ Counted /\ ErrorsRaise /\ EndedOnRaise

\* What a method may store.
Sound(o, to, v) ==
    /\ v \in Views
    /\ v.ended => ~v.live
    /\ v.raised \/ (to = "done" => ~v.live)
    /\ v.raised \/ (to \in Active => ~v.ended)
    /\ o \in Flagged => v.ends = IF v.ended THEN 1 ELSE 0

\* What it says of the library's level, at abort level n.
Reported(o, method, lev, v, n) ==
    method \in {"call", "init", "hub"} =>
       /\ lev = Fatal => v.raised
       /\ lev >= n => v.raised
       /\ v.raised /\ o # "hydrodyn" => lev >= n
       /\ v.raised /\ o # "hydrodyn" /\ <<o, method>> \notin RaisesAtOnce => ~v.live

LevelAt(o, a) == IF o \in OwnLevel THEN Fatal ELSE a

\* The invariant after a method has stored sound results.
LEMMA StoreKeeps ==
    ASSUME IInv, NEW o \in Kinds, NEW to \in Phases, NEW lev \in Levels,
           NEW method \in {"call", "init", "hub", "index", "refuse", "end"}, NEW v,
           Sound(o, to, v), Reported(o, method, lev, v, LevelAt(o, abort')),
           abort' \in {Warn, Severe, Fatal}, Store(o, to, method, lev, v)
    PROVE  IInv'
<1> USE DEF IInv, Store, Sound
<1>a. o \in Kinds /\ Cell(o) \in Kinds \cup {Class} /\ v \in Views
  BY DEF Cell, Kinds
<1>1. Types'
  BY <1>a DEF Types, Views, Phases
<1>2. InUse'
  BY <1>a DEF InUse, Types, Views, Active
<1>3. Empty'
  BY <1>a DEF Empty, Types, Views
<1>4. Counted'
  BY <1>a DEF Counted, Types, Views, Flagged, Kinds
<1>5. last' = [obj |-> o, method |-> method, level |-> lev, raised |-> v.raised]
      /\ live'[o] = v.live
  BY <1>a DEF Types
<1>6. ErrorsRaise'
  BY <1>5 DEF ErrorsRaise, FromLibrary, Reported, Level, LevelAt
<1>7. EndedOnRaise'
  BY <1>5 DEF EndedOnRaise, FromLibrary, Reported
<1> QED BY <1>1, <1>2, <1>3, <1>4, <1>6, <1>7

\* The view of an object is a view, sound as long as the program uses it.
LEMMA ViewSound ==
    ASSUME IInv, NEW o \in Kinds
    PROVE  /\ View(o) \in Views /\ ~View(o).raised
           /\ View(o).ended => ~View(o).live
           /\ phase[o] = "done" => ~View(o).live
           /\ phase[o] \in Active => ~View(o).ended
           /\ o \in Flagged => View(o).ends = IF View(o).ended THEN 1 ELSE 0
           /\ View(o).ended = ended[o] /\ View(o).live = live[o]
           /\ Level(o) \in {Warn, Severe, Fatal}
BY DEF IInv, Types, InUse, Empty, Counted, View, Views, Cell, Level, OwnLevel, Kinds, Class, Fatal

\* The fields of the results of the updates.
LEMMA LibEndFields ==
    ASSUME NEW v \in Views, NEW e \in Levels
    PROVE  LET w == LibEnd(v, e)
           IN /\ w \in Views /\ w.status = e /\ w.ended = v.ended /\ ~w.live
              /\ w.ends = v.ends + 1 /\ w.raised = v.raised
<1>1. v.ends + 1 \in Nat
  BY DEF Views
<1>2. LibEnd(v, e) \in Views
  BY <1>1, Zenon DEF Views, LibEnd
<1>3. /\ LibEnd(v, e).status = e /\ LibEnd(v, e).ended = v.ended /\ ~LibEnd(v, e).live
      /\ LibEnd(v, e).ends = v.ends + 1 /\ LibEnd(v, e).raised = v.raised
  BY DEF Views, LibEnd
<1> QED BY <1>2, <1>3

\* The fields of the view after a call of the library.
LEMMA ReturnedFields ==
    ASSUME NEW v \in Views, NEW e \in Levels
    PROVE  LET w == Returned(v, e)
           IN /\ w \in Views /\ w.status = e /\ w.ended = v.ended /\ w.live
              /\ w.ends = v.ends /\ w.raised = v.raised
<1>1. Returned(v, e) \in Views
  BY Zenon DEF Views, Returned
<1>2. /\ Returned(v, e).status = e /\ Returned(v, e).ended = v.ended /\ Returned(v, e).live
      /\ Returned(v, e).ends = v.ends /\ Returned(v, e).raised = v.raised
  BY DEF Views, Returned
<1> QED BY <1>1, <1>2

\* The fields of the view of a method that raises.
LEMMA RaiseFields ==
    ASSUME NEW v \in Views
    PROVE  LET w == Raise(v)
           IN /\ w \in Views /\ w.status = v.status /\ w.ended = v.ended /\ w.live = v.live
              /\ w.ends = v.ends /\ w.raised
<1>1. Raise(v) \in Views
  BY Zenon DEF Views, Raise
<1>2. /\ Raise(v).status = v.status /\ Raise(v).ended = v.ended /\ Raise(v).live = v.live
      /\ Raise(v).ends = v.ends /\ Raise(v).raised
  BY DEF Views, Raise
<1> QED BY <1>1, <1>2

Marked(v) == [v EXCEPT !.ended = TRUE]

\* The fields of the view after the flag has been set.
LEMMA MarkedFields ==
    ASSUME NEW v \in Views
    PROVE  LET w == Marked(v)
           IN /\ w \in Views /\ w.status = v.status /\ w.ended /\ w.live = v.live
              /\ w.ends = v.ends /\ w.raised = v.raised
<1>1. Marked(v) \in Views
  BY Zenon DEF Views, Marked
<1>2. /\ Marked(v).status = v.status /\ Marked(v).ended /\ Marked(v).live = v.live
      /\ Marked(v).ends = v.ends /\ Marked(v).raised = v.raised
  BY DEF Views, Marked
<1> QED BY <1>1, <1>2

\* The end of a class with a flag: once, and nothing is left.
LEMMA GuardedEndSound ==
    ASSUME NEW o \in Kinds, NEW e \in Levels, NEW v \in Views,
           v.ended => ~v.live,
           o \in Flagged => v.ends = IF v.ended THEN 1 ELSE 0
    PROVE  LET w == GuardedEnd(o, v, e)
           IN /\ w \in Views /\ w.ended /\ ~w.live
              /\ o \in Flagged => w.ends = 1
<1> DEFINE u == LibEnd(Marked(v), e)
<1>1. CASE v.ended
  BY <1>1 DEF GuardedEnd
<1>2. CASE ~v.ended
  <2>1. /\ u \in Views /\ u.ended /\ ~u.live
        /\ o \in Flagged => u.ends = 1
    BY <1>2, MarkedFields, LibEndFields
  <2>2. GuardedEnd(o, v, e) = u \/ GuardedEnd(o, v, e) = Raise(u)
    BY <1>2 DEF GuardedEnd, CheckEnded, Marked
  <2>3. /\ Raise(u) \in Views /\ Raise(u).ended /\ ~Raise(u).live
        /\ o \in Flagged => Raise(u).ends = 1
    BY <2>1, RaiseFields
  <2> HIDE DEF u
  <2> QED BY <2>1, <2>2, <2>3
<1> QED BY <1>1, <1>2

\* check_error after a call of the library by an object in use.
LEMMA CheckSound ==
    ASSUME NEW o \in Kinds \ {"fast"}, NEW e \in Levels, NEW lev \in Levels,
           NEW to \in Phases, to # "done", NEW v \in Views,
           ~v.raised, ~v.ended,
           o \in Flagged => v.ends = 0,
           Level(o) \in {Warn, Severe, Fatal}
    PROVE  LET w == check_error(o, Returned(v, lev), e)
           IN /\ Sound(o, to, w) /\ Reported(o, "call", lev, w, Level(o))
<1> DEFINE r == Returned(v, lev)
           w == check_error(o, r, e)
<1>1. /\ r \in Views /\ ~r.raised /\ ~r.ended /\ r.status = lev /\ r.ends = v.ends
  BY ReturnedFields
<1> SUFFICES Sound(o, to, w) /\ Reported(o, "call", lev, w, Level(o))
  OBVIOUS
<1> HIDE DEF r
<1>2. CASE o = "hydrodyn"
  <2>1. w = IF lev = None THEN r ELSE Raise(r)
    BY <1>1, <1>2 DEF check_error, HydroDynCheck
  <2> HIDE DEF w
  <2>2. CASE lev = None
    BY <2>1, <2>2, <1>1, <1>2 DEF Sound, Reported, Flagged, None, Warn, Severe, Fatal
  <2>3. CASE lev # None
    BY <2>1, <2>3, <1>1, <1>2, RaiseFields DEF Sound, Reported, Flagged
  <2> QED BY <2>2, <2>3
<1>3. CASE o \in {"moordyn", "inflowwind", "aerodyn"}
  <2> DEFINE g == GuardedEnd(o, r, e)
  <2>2. o \in Flagged /\ r.ends = 0
    BY <1>1, <1>3 DEF Flagged
  <2>3. g \in Views /\ g.ended /\ ~g.live /\ g.ends = 1
    BY <2>2, <1>1, GuardedEndSound
  <2>4. w = IF lev < Level(o) THEN r ELSE Raise(g)
    BY <1>1, <1>3 DEF check_error, GuardedCheck
  <2> HIDE DEF w, g
  <2>5. CASE lev < Level(o)
    BY <2>2, <2>4, <2>5, <1>1, <1>3 DEF Sound, Reported, Levels, None, Warn, Severe, Fatal
  <2>6. CASE lev >= Level(o)
    <3>1. w = Raise(g)
      BY <2>4, <2>6 DEF Levels, None, Warn, Severe, Fatal
    <3> QED BY <2>2, <2>3, <2>6, <3>1, RaiseFields DEF Sound, Reported
  <2> QED BY <2>5, <2>6 DEF Levels, None, Warn, Severe, Fatal
<1>4. CASE o \in {"seastate", "wavetank"}
  <2> DEFINE g == LibEnd(r, e)
  <2>1. w = IF lev < Level(o) THEN r ELSE Raise(g)
    BY <1>1, <1>4 DEF check_error, DirectCheck
  <2>2. g \in Views /\ ~g.live
    BY <1>1, LibEndFields
  <2>3. o \notin Flagged
    BY <1>4 DEF Flagged
  <2> HIDE DEF w, g
  <2>5. CASE lev < Level(o)
    BY <2>1, <2>3, <2>5, <1>1 DEF Sound, Reported, Levels, None, Warn, Severe, Fatal
  <2>6. CASE lev >= Level(o)
    <3>1. w = Raise(g)
      BY <2>1, <2>6 DEF Levels, None, Warn, Severe, Fatal
    <3> QED BY <2>2, <2>3, <2>6, <3>1, RaiseFields DEF Sound, Reported
  <2> QED BY <2>5, <2>6 DEF Levels, None, Warn, Severe, Fatal
<1> QED BY <1>2, <1>3, <1>4 DEF Kinds

----------------------------------------------------------------------------
(* Every kind of method keeps the invariant.                                *)

\* A method that calls the library and checks its status (calcOutput, updateStates and the like).
LEMMA MethodKeeps ==
    ASSUME IInv, NEW o \in Kinds \ {"fast"}, NEW from \in SUBSET Active,
           NEW to \in Active, Method(o, from, to)
    PROVE  IInv'
<1>1. phase[o] \in Active /\ to \in Phases /\ to # "done" /\ abort' = abort
  BY DEF Method, Calls, Active, Phases
<1>2. PICK lev \in Levels, e \in Levels :
         Store(o, to, "call", lev, check_error(o, Returned(View(o), lev), e))
  BY DEF Method
<1> DEFINE w == check_error(o, Returned(View(o), lev), e)
<1>3. /\ View(o) \in Views /\ ~View(o).raised /\ ~View(o).ended
      /\ o \in Flagged => View(o).ends = 0
      /\ Level(o) \in {Warn, Severe, Fatal}
  BY <1>1, ViewSound
<1>4. Sound(o, to, w) /\ Reported(o, "call", lev, w, Level(o))
  BY <1>1, <1>3, CheckSound
<1>5. LevelAt(o, abort') = Level(o)
  BY <1>1 DEF LevelAt, Level
<1>6. abort' \in {Warn, Severe, Fatal}
  BY <1>1 DEF IInv, Types
<1>7. Sound(o, to, w) /\ Reported(o, "call", lev, w, LevelAt(o, abort'))
  BY <1>4, <1>5
<1>8. Store(o, to, "call", lev, w)
  BY <1>2
<1> HIDE DEF w
<1> QED BY <1>1, <1>6, <1>7, <1>8, StoreKeeps

\* A method that raises on arguments of the wrong shape before it calls the library.
LEMMA RefuseKeeps ==
    ASSUME IInv, NEW o \in Kinds, NEW from, Refuse(o, from)
    PROVE  IInv'
BY DEF IInv, Types, InUse, Empty, Counted, ErrorsRaise, FromLibrary, EndedOnRaise, Refuse, Calls,
       Levels

\* A store that reports nothing of the library.
LEMMA QuietStore ==
    ASSUME IInv, NEW o \in Kinds, NEW to \in Phases, NEW lev \in Levels,
           NEW method \in {"refuse", "end"}, NEW v,
           Sound(o, to, v), abort' = abort, Store(o, to, method, lev, v)
    PROVE  IInv'
<1>1. Reported(o, method, lev, v, LevelAt(o, abort'))
  BY DEF Reported
<1>2. abort' \in {Warn, Severe, Fatal}
  BY DEF IInv, Types
<1> QED BY <1>1, <1>2, StoreKeeps

\* hydrodyn.py's checks of motions, which end the library and raise.
LEMMA RefuseAndEndKeeps ==
    ASSUME IInv, NEW o \in Flagged, NEW from, RefuseAndEnd(o, from)
    PROVE  IInv'
<1>1. o \in Kinds /\ "raised" \in Phases /\ None \in Levels /\ abort' = abort
  BY DEF Flagged, Kinds, Phases, Levels, RefuseAndEnd
<1>2. PICK e \in Levels :
         Store(o, "raised", "refuse", None, Raise(GuardedEnd(o, View(o), e)))
  BY DEF RefuseAndEnd
<1> DEFINE g == GuardedEnd(o, View(o), e)
<1>3. g \in Views /\ g.ended /\ ~g.live /\ g.ends = 1
  BY <1>1, ViewSound, GuardedEndSound
<1> HIDE DEF g
<1>4. Sound(o, "raised", Raise(g))
  BY <1>3, RaiseFields DEF Sound, Active
<1> QED BY <1>1, <1>2, <1>4, QuietStore DEF g

\* The end of the classes that test their flag.
LEMMA EndKeeps ==
    ASSUME IInv, NEW o \in Flagged, End(o)
    PROVE  IInv'
<1>1. o \in Kinds /\ "done" \in Phases /\ abort' = abort
  BY DEF Flagged, Kinds, Phases, End
<1>2. PICK e \in Levels : Store(o, "done", "end", e, GuardedEnd(o, View(o), e))
  BY DEF End
<1> DEFINE g == GuardedEnd(o, View(o), e)
<1>3. g \in Views /\ g.ended /\ ~g.live /\ g.ends = 1
  BY <1>1, ViewSound, GuardedEndSound
<1> HIDE DEF g
<1>4. Sound(o, "done", g)
  BY <1>3 DEF Sound, Active
<1> QED BY <1>1, <1>2, <1>4, QuietStore DEF g

\* The two classes that call the End of the library directly.
LEMMA DirectSound ==
    ASSUME NEW o \in {"seastate", "wavetank"}, NEW v \in Views, ~v.live, NEW e \in Levels
    PROVE  Sound(o, "done", DirectCheck(o, v, e))
<1> DEFINE g == LibEnd(v, e)
<1>1. g \in Views /\ ~g.live
  BY LibEndFields
<1> HIDE DEF g
<1>2. Raise(g) \in Views /\ ~Raise(g).live
  BY <1>1, RaiseFields
<1>3. DirectCheck(o, v, e) = v \/ DirectCheck(o, v, e) = Raise(g)
  BY DEF DirectCheck, g
<1>4. o \notin Flagged /\ "done" \notin Active
  BY DEF Flagged, Active
<1> QED BY <1>1, <1>2, <1>3, <1>4 DEF Sound

\* seastate_end: the flag guards the call, the check follows every time.
LEMMA SeaStateEndKeeps ==
    ASSUME IInv, seastate_end
    PROVE  IInv'
<1> DEFINE o == "seastate"
<1>1. o \in Kinds /\ "done" \in Phases /\ abort' = abort
  BY DEF Kinds, Phases, seastate_end
<1>2. PICK e \in Levels, e2 \in Levels :
         Store(o, "done", "end", e, DirectCheck(o, SeaStateEnd(View(o), e), e2))
  BY DEF seastate_end
<1>3. View(o) \in Views /\ (View(o).ended => ~View(o).live)
  BY <1>1, ViewSound
<1>4. SeaStateEnd(View(o), e) \in Views /\ ~SeaStateEnd(View(o), e).live
  <2>1. LibEnd(Marked(View(o)), e) \in Views /\ ~LibEnd(Marked(View(o)), e).live
    BY <1>3, MarkedFields, LibEndFields
  <2> QED BY <1>3, <2>1 DEF SeaStateEnd, Marked
<1>5. Sound(o, "done", DirectCheck(o, SeaStateEnd(View(o), e), e2))
  BY <1>4, DirectSound
<1> QED BY <1>1, <1>2, <1>5, QuietStore

\* The wave tank's end, which has no flag.
LEMMA WaveTankEndKeeps ==
    ASSUME IInv, wavetank_end
    PROVE  IInv'
<1> DEFINE o == "wavetank"
<1>1. o \in Kinds /\ "done" \in Phases /\ abort' = abort
  BY DEF Kinds, Phases, wavetank_end
<1>2. PICK e \in Levels, e2 \in Levels :
         Store(o, "done", "end", e, DirectCheck(o, LibEnd(View(o), e), e2))
  BY DEF wavetank_end
<1>3. LibEnd(View(o), e) \in Views /\ ~LibEnd(View(o), e).live
  BY <1>1, ViewSound, LibEndFields
<1>5. Sound(o, "done", DirectCheck(o, LibEnd(View(o), e), e2))
  BY <1>3, DirectSound
<1> QED BY <1>1, <1>2, <1>5, QuietStore

----------------------------------------------------------------------------
(* FastLibAPI.                                                              *)

\* The view that a method of FastLibAPI stores keeps its fields.
Kept(v) == [v EXCEPT !.status = status[Class]]

\* A view that is stored unchanged is sound.
LEMMA KeptSound ==
    ASSUME IInv, NEW to \in Phases, NEW v \in Views, Sound("fast", to, v)
    PROVE  /\ Sound("fast", to, Kept(v))
           /\ Kept(v).raised = v.raised /\ Kept(v).live = v.live
<1>1. status[Class] \in Levels
  BY DEF IInv, Types
<1>2. Kept(v) \in Views
  BY <1>1, Zenon DEF Views, Kept
<1>3. /\ Kept(v).raised = v.raised /\ Kept(v).live = v.live
      /\ Kept(v).ended = v.ended /\ Kept(v).ends = v.ends
  BY DEF Views, Kept
<1> QED BY <1>2, <1>3 DEF Sound

\* A method of FastLibAPI that stores a sound view keeps the invariant.
LEMMA FastStoreKeeps ==
    ASSUME IInv, NEW to \in Phases, NEW lev \in Levels, NEW v \in Views,
           NEW method \in {"call", "init", "hub", "index", "refuse", "end"},
           Sound("fast", to, v), Reported("fast", method, lev, v, abort'),
           abort' \in {Warn, Severe, Fatal}, StoreFast(to, method, lev, v)
    PROVE  IInv'
<1>1. Store("fast", to, method, lev, Kept(v)) /\ "fast" \in Kinds
  BY DEF StoreFast, Kept, Kinds
<1>2. Sound("fast", to, Kept(v))
  BY KeptSound
<1>3. Reported("fast", method, lev, Kept(v), LevelAt("fast", abort'))
  BY KeptSound DEF Reported, LevelAt, OwnLevel
<1> QED BY <1>1, <1>2, <1>3, StoreKeeps

\* deinit: once, and nothing is left.
LEMMA DeinitSound ==
    ASSUME IInv
    PROVE  LET w == fast_deinit(View("fast"))
           IN w \in Views /\ w.ended /\ ~w.live /\ w.ends = 1
<1>1. "fast" \in Kinds /\ "fast" \in Flagged /\ None \in Levels
  BY DEF Kinds, Flagged, Levels
<1>2. LibEnd(Marked(View("fast")), None) \in Views
      /\ LibEnd(Marked(View("fast")), None).ended /\ ~LibEnd(Marked(View("fast")), None).live
      /\ LibEnd(Marked(View("fast")), None).ends = View("fast").ends + 1
  BY <1>1, ViewSound, MarkedFields, LibEndFields
<1>3. CASE View("fast").ended
  BY <1>1, <1>3, ViewSound DEF fast_deinit
<1>4. CASE ~View("fast").ended
  BY <1>1, <1>2, <1>4, ViewSound DEF fast_deinit, Marked
<1> QED BY <1>3, <1>4

\* One call of the library from sim, by an object that has not ended.
LEMMA StepKeeps ==
    ASSUME IInv, phase["fast"] \in Active, NEW lev \in Levels, NEW to \in Active,
           Step(lev, to), abort' = abort
    PROVE  IInv'
<1> DEFINE v == View("fast")
           w == IF fatal_error(lev, abort) THEN Raise(fast_deinit(v)) ELSE v
<1>1. StoreFast(to, "call", lev, w) /\ to \in Phases /\ to # "done" /\ "fast" \in Kinds
  BY DEF Step, Active, Phases, Kinds
<1>2. abort' \in {Warn, Severe, Fatal}
  BY DEF IInv, Types
<1>3. CASE fatal_error(lev, abort)
  <2>1. w = Raise(fast_deinit(v))
    BY <1>3
  <2> DEFINE d == fast_deinit(v)
  <2>2. d \in Views /\ d.ended /\ ~d.live /\ d.ends = 1
    BY DeinitSound
  <2> HIDE DEF d, v, w
  <2>3. Raise(d) \in Views /\ Raise(d).ended /\ ~Raise(d).live /\ Raise(d).ends = 1
        /\ Raise(d).raised
    BY <2>2, RaiseFields
  <2>4. w \in Views /\ Sound("fast", to, w) /\ Reported("fast", "call", lev, w, abort')
    BY <2>1, <2>3, <1>3 DEF Sound, Reported, fatal_error, d
  <2> QED BY <1>1, <1>2, <2>4, FastStoreKeeps
<1>4. CASE ~fatal_error(lev, abort)
  <2>1. w = v
    BY <1>4
  <2>2. v \in Views /\ ~v.raised /\ ~v.ended /\ v.ends = 0
    BY <1>1, ViewSound DEF Flagged
  <2> HIDE DEF v, w
  <2>3. Sound("fast", to, w)
    BY <2>1, <2>2, <1>1 DEF Sound
  <2>4. w \in Views /\ Reported("fast", "call", lev, w, abort')
    BY <2>1, <2>2, <1>2, <1>4 DEF Reported, fatal_error, Levels, None, Warn, Severe, Fatal
  <2> QED BY <1>1, <1>2, <2>3, <2>4, FastStoreKeeps
<1> QED BY <1>3, <1>4

\* Every method of FastLibAPI (fast.py) keeps the invariant.
LEMMA FastKeeps == ASSUME IInv, Fast PROVE IInv'
<1> DEFINE v == View("fast")
<1>v. /\ "fast" \in Kinds /\ "fast" \in Flagged /\ v \in Views /\ ~v.raised
      /\ v.ended => ~v.live
      /\ phase["fast"] \in Active => ~v.ended
      /\ v.ends = IF v.ended THEN 1 ELSE 0
      /\ abort \in {Warn, Severe, Fatal}
  BY ViewSound DEF Kinds, Flagged, IInv, Types
<1>p. Active \subseteq Phases /\ "done" \in Phases /\ "done" \notin Active
  BY DEF Active, Phases
<1>1. CASE AllocateFails
  <2>1. /\ phase["fast"] = "new" /\ abort' = abort
        /\ StoreFast("new", "init", Fatal, Raise(v))
    BY <1>1 DEF AllocateFails, Calls
  <2>2. Raise(v) \in Views /\ Raise(v).raised /\ Raise(v).ended = v.ended
        /\ Raise(v).live = v.live /\ Raise(v).ends = v.ends
    BY <1>v, RaiseFields
  <2> HIDE DEF v
  <2>3. Sound("fast", "new", Raise(v)) /\ Reported("fast", "init", Fatal, Raise(v), abort')
    BY <2>1, <2>2, <1>v DEF Sound, Reported, RaisesAtOnce, Warn, Severe, Fatal
  <2>4. "new" \in Phases /\ Fatal \in Levels
    BY DEF Phases, Levels
  <2> QED BY <2>1, <2>2, <2>3, <2>4, <1>v, FastStoreKeeps
<1>2. CASE fast_init
  <2>1. PICK lev \in Levels, level \in FileLevels :
           /\ abort' = level
           /\ StoreFast("ready", "init", lev,
                        IF fatal_error(lev, level) THEN Raise([v EXCEPT !.live = TRUE])
                        ELSE [v EXCEPT !.live = TRUE])
    BY <1>2 DEF fast_init
  <2> DEFINE u == [v EXCEPT !.live = TRUE]
             w == IF fatal_error(lev, level) THEN Raise(u) ELSE u
  <2>2. phase["fast"] = "new"
    BY <1>2 DEF fast_init, Calls
  <2>3. ~v.ended /\ v.ends = 0
    BY <2>2, <1>v DEF Active
  <2>4. abort' \in {Warn, Severe, Fatal} /\ "ready" \in Phases /\ "ready" # "done"
    BY <2>1, FileLevelsAssumption DEF Phases
  <2>5. u \in Views
    BY <1>v, Zenon DEF Views
  <2>6. ~u.raised /\ ~u.ended /\ u.ends = 0
    BY <2>3, <1>v DEF Views
  <2>7. StoreFast("ready", "init", lev, w)
    BY <2>1
  <2> HIDE DEF u, v
  <2>8. Raise(u) \in Views /\ Raise(u).raised /\ ~Raise(u).ended /\ Raise(u).ends = 0
    BY <2>5, <2>6, RaiseFields
  <2>9. w \in Views /\ (w.raised <=> fatal_error(lev, level)) /\ ~w.ended /\ w.ends = 0
    BY <2>5, <2>6, <2>8
  <2> HIDE DEF w
  <2>10. Sound("fast", "ready", w)
    BY <2>9, <2>4 DEF Sound
  <2>11. Reported("fast", "init", lev, w, abort')
    BY <2>9, <2>1, <2>4 DEF Reported, RaisesAtOnce, fatal_error, Levels, None, Warn, Severe, Fatal
  <2> QED BY <2>4, <2>7, <2>9, <2>10, <2>11, FastStoreKeeps
<1>3. CASE FAST_Start
  <2>1. phase["fast"] \in Active /\ "sim" \in Active /\ abort' = abort
        /\ \E lev \in Levels : Step(lev, "sim")
    BY <1>3 DEF FAST_Start, Calls, Ready, Active
  <2> QED BY <2>1, StepKeeps
<1>4. CASE FAST_Update
  <2>1. phase["fast"] \in Active /\ "sim" \in Active /\ "over" \in Active /\ abort' = abort
        /\ \E lev \in Levels, end_early \in BOOLEAN :
              Step(lev, IF end_early THEN "over" ELSE "sim")
    BY <1>4 DEF FAST_Update, Active
  <2> QED BY <2>1, StepKeeps
<1>5. CASE fast_finish \/ deinit
  <2>1. StoreFast("done", "end", None, fast_deinit(v)) /\ abort' = abort /\ None \in Levels
    BY <1>5 DEF fast_finish, deinit, Levels
  <2> DEFINE d == fast_deinit(v)
  <2>2. d \in Views /\ d.ended /\ ~d.live /\ d.ends = 1
    BY DeinitSound
  <2> HIDE DEF d
  <2>3. Sound("fast", "done", d) /\ Reported("fast", "end", None, d, abort')
    BY <2>2, <1>p DEF Sound, Reported
  <2> QED BY <2>1, <2>2, <2>3, <1>v, <1>p, FastStoreKeeps DEF d
<1>6. CASE get_hub_position
  <2>1. PICK lev \in {None, Fatal} :
           StoreFast("ready", "hub", lev, IF fatal_error(lev, abort) THEN Raise(v) ELSE v)
    BY <1>6 DEF get_hub_position
  <2> DEFINE w == IF fatal_error(lev, abort) THEN Raise(v) ELSE v
  <2>2. /\ phase["fast"] \in Active /\ abort' = abort /\ lev \in Levels
        /\ "ready" \in Phases /\ "ready" # "done"
    BY <1>6 DEF get_hub_position, Calls, Ready, Active, Levels, Phases
  <2>3. StoreFast("ready", "hub", lev, w)
    BY <2>1
  <2> HIDE DEF v
  <2>4. Raise(v) \in Views /\ Raise(v).raised /\ Raise(v).ended = v.ended /\ Raise(v).ends = v.ends
    BY <1>v, RaiseFields
  <2>5. w \in Views /\ (w.raised <=> fatal_error(lev, abort)) /\ ~w.ended /\ w.ends = 0
    BY <2>2, <2>4, <1>v
  <2> HIDE DEF w
  <2>6. Sound("fast", "ready", w)
    BY <2>5, <2>2 DEF Sound
  <2>7. Reported("fast", "hub", lev, w, abort')
    BY <2>5, <2>2, <1>v DEF Reported, RaisesAtOnce, fatal_error, Levels, None, Warn, Severe, Fatal
  <2> QED BY <2>2, <2>3, <2>5, <2>6, <2>7, <1>v, FastStoreKeeps
<1>7. CASE FAST_Update_pastRows
  <2>1. /\ StoreFast("raised", "index", None, Raise(v)) /\ abort' = abort
        /\ phase["fast"] \in Active /\ None \in Levels /\ "raised" \in Phases
        /\ "raised" # "done" /\ "raised" \notin Active
    BY <1>7 DEF FAST_Update_pastRows, Active, Levels, Phases
  <2> HIDE DEF v
  <2>2. Raise(v) \in Views /\ Raise(v).raised /\ ~Raise(v).ended /\ Raise(v).ends = 0
    BY <2>1, <1>v, RaiseFields
  <2>3. Sound("fast", "raised", Raise(v)) /\ Reported("fast", "index", None, Raise(v), abort')
    BY <2>1, <2>2 DEF Sound, Reported
  <2> QED BY <2>1, <2>2, <2>3, <1>v, FastStoreKeeps
<1> QED BY <1>1, <1>2, <1>3, <1>4, <1>5, <1>6, <1>7 DEF Fast

\* Every method of the classes of single modules keeps the invariant.
LEMMA ModulesKeep == ASSUME IInv, Modules PROVE IInv'
<1> USE DEF Kinds, Active, Ready, Flagged
<1>1. CASE HydroDyn
  BY <1>1, MethodKeeps, RefuseAndEndKeeps, EndKeeps
     DEF HydroDyn, hydrodyn_init, hydrodyn_calcOutput, hydrodyn_calcOutput_and_addedMass,
         hydrodyn_updateStates, check_input_motions, check_input_motions_noAcc, hydrodyn_end
<1>2. CASE MoorDyn
  BY <1>2, MethodKeeps, EndKeeps DEF MoorDyn, md_init, md_calcOutput, md_updateStates, md_end
<1>3. CASE InflowWind
  BY <1>3, MethodKeeps, EndKeeps DEF InflowWind, ifw_init, ifw_calc_output, ifw_end
<1>4. CASE SeaState
  BY <1>4, MethodKeeps, RefuseKeeps, SeaStateEndKeeps
     DEF SeaState, seastate_preinit, seastate_init, seastate_calcOutput,
         seastate_getWaveFieldPointer, seastate_setWaveFieldPointer, get_fluidVelAcc,
         get_surfElev, get_surfNorm, get_elevMinMax
<1>5. CASE AeroDynInflow
  BY <1>5, MethodKeeps, RefuseKeeps, EndKeeps
     DEF AeroDynInflow, adi_preinit, adi_setuprotor, adi_init, adi_setrotormotion,
         adi_updateStates, adi_calcOutput, adi_getrotorloads, adi_getdiskavgvel, adi_end
<1>6. CASE WaveTank
  BY <1>6, MethodKeeps, RefuseKeeps, WaveTankEndKeeps DEF WaveTank, wavetank_init, calc_step
<1> QED BY <1>1, <1>2, <1>3, <1>4, <1>5, <1>6 DEF Modules

----------------------------------------------------------------------------

\* A process starts with libraries that hold nothing and flags that are not set.
LEMMA InitInv == ASSUME Init, objs \subseteq Kinds PROVE IInv
BY DEF Init, IInv, Types, InUse, Empty, Counted, ErrorsRaise, EndedOnRaise, FromLibrary, Level,
       OwnLevel, Class, Levels, None, Warn, Severe, Fatal, Phases, Active, Flagged, Kinds

\* Every step keeps the inductive invariant.
LEMMA NextInv == ASSUME IInv, [Next]_vars PROVE IInv'
<1>1. CASE Fast
  BY <1>1, FastKeeps
<1>2. CASE Modules
  BY <1>2, ModulesKeep
<1>3. CASE UNCHANGED vars
  BY <1>3 DEF vars, IInv, Types, InUse, Empty, Counted, ErrorsRaise, EndedOnRaise, FromLibrary,
              Level, OwnLevel
<1> QED BY <1>1, <1>2, <1>3 DEF Next

\* The inductive invariant holds in every behaviour.
THEOREM SpecInv == Spec => []IInv
<1>1. Init => IInv
  BY ProcessesAssumption, InitInv DEF Init
<1>2. IInv /\ [Next]_vars => IInv'
  BY NextInv
<1> QED BY <1>1, <1>2, PTL DEF Spec

\* A level at or above the abort level raises, and in every class but HydroDyn
\* nothing else does, whatever levels the libraries report and whatever abort
\* level an input file stores in the shared attribute.
THEOREM SpecErrorsRaise == Spec => []ErrorsRaise
BY SpecInv, PTL DEF IInv

\* A call that fails has ended its library when it raises, in every class but
\* HydroDyn and every method but those of RaisesAtOnce, FastLibAPI's init and
\* get_hub_position.
THEOREM SpecEndedOnRaise == Spec => []EndedOnRaise
BY SpecInv, PTL DEF IInv

\* However often a program ends an object, the library is ended once.
THEOREM SpecEndedOnce == Spec => []EndedOnce
<1>1. IInv => EndedOnce
  BY DEF IInv, Counted, EndedOnce
<1> QED BY <1>1, SpecInv, PTL

\* An object that has been ended leaves no data in its library.
THEOREM SpecLibraryReleased == Spec => []LibraryReleased
<1>1. IInv => LibraryReleased
  BY DEF IInv, Types, Empty, LibraryReleased
<1> QED BY <1>1, SpecInv, PTL

----------------------------------------------------------------------------
(* The output rows of FastLibAPI.sim, for every length, time step and       *)
(* output step and every rounding: each row holds the outputs of the last   *)
(* step written to it, the one it is for, and steps and rows come out even  *)
(* but in the cases TooFewRows and RowToSpare.                              *)

----------------------------------------------------------------------------
(* Arithmetic of products and of rounding up.                               *)

\* A product grows with its factor.
LEMMA Grows ==
    ASSUME NEW x \in Int, NEW y \in Int, x <= y, NEW b \in Nat
    PROVE  x * b <= y * b
<1>1. (y - x) * b >= 0
  <2> DEFINE t == y - x
  <2>1. t \in Nat
    OBVIOUS
  <2> HIDE DEF t
  <2>2. t * b \in Nat
    BY <2>1
  <2> QED BY <2>2 DEF t
<1>2. (y - x) * b = y * b - x * b
  OBVIOUS
<1> QED BY <1>1, <1>2

\* A smaller product has a smaller factor.
LEMMA Shrinks ==
    ASSUME NEW x \in Int, NEW y \in Int, NEW b \in Nat \ {0}, x * b < y * b
    PROVE  x < y
<1>1. CASE y <= x
  BY <1>1, Grows
<1> QED BY <1>1

\* One more factor is one more b.
LEMMA OneMore ==
    ASSUME NEW x \in Int, NEW b \in Int
    PROVE  (x + 1) * b = x * b + b /\ (x - 1) * b = x * b - b
OBVIOUS

\* Quotient and remainder.
LEMMA Division ==
    ASSUME NEW a \in Nat, NEW b \in Nat \ {0}
    PROVE  /\ a \div b \in Nat
           /\ a = (a \div b) * b + (a % b)
           /\ a % b \in 0..(b - 1)
OBVIOUS

\* CeilDiv(a, b) is the least number of b that reach a.
LEMMA CeilDivBounds ==
    ASSUME NEW a \in Nat, NEW b \in Nat \ {0}
    PROVE  /\ CeilDiv(a, b) \in Nat
           /\ a <= CeilDiv(a, b) * b
           /\ CeilDiv(a, b) * b < a + b
<1> DEFINE n == a + b - 1
<1>1. n \in Nat
  OBVIOUS
<1> HIDE DEF n
<1>2. n \div b \in Nat /\ n = (n \div b) * b + (n % b) /\ n % b \in 0..(b - 1)
  BY <1>1, Division
<1>3. CeilDiv(a, b) = n \div b
  BY DEF CeilDiv, n
<1> DEFINE p == (n \div b) * b
<1>4. p \in Int /\ n = p + (n % b)
  BY <1>2
<1> HIDE DEF p
<1>5. a <= p /\ p < a + b
  BY <1>2, <1>4 DEF n
<1> QED BY <1>2, <1>3, <1>5 DEF p

\* It is the least.
LEMMA CeilDivLeast ==
    ASSUME NEW a \in Nat, NEW b \in Nat \ {0}, NEW m \in Int, a <= m * b
    PROVE  CeilDiv(a, b) <= m
<1> DEFINE q == CeilDiv(a, b)
<1>1. q \in Nat /\ q * b < a + b
  BY CeilDivBounds
<1> HIDE DEF q
<1>2. (q - 1) * b < m * b
  <2>1. q * b \in Int /\ m * b \in Int
    BY <1>1
  <2>2. (q - 1) * b = q * b - b
    BY <1>1, OneMore
  <2> QED BY <1>1, <2>1, <2>2
<1>3. q - 1 < m
  BY <1>1, <1>2, Shrinks
<1> QED BY <1>1, <1>3 DEF q

\* Within one interval only its end is a multiple.
LEMMA OnlyEnd ==
    ASSUME NEW k \in Nat \ {0}, NEW q \in Nat, NEW i \in Nat, (q - 1) * k < i, i <= q * k
    PROVE  i % k = 0 <=> i = q * k
<1> DEFINE d == i \div k
           r == i % k
<1>1. d \in Nat /\ i = d * k + r /\ r \in 0..(k - 1)
  BY Division
<1> HIDE DEF d, r
<1>2. d * k \in Int /\ q * k \in Int
  BY <1>1
<1>3. ASSUME r = 0 PROVE i = q * k
  <2>1. (q - 1) * k < d * k /\ d * k <= q * k
    BY <1>1, <1>2, <1>3
  <2>2. q - 1 < d
    BY <1>1, <2>1, Shrinks
  <2>3. d * k < (q + 1) * k
    BY <1>2, <2>1, OneMore
  <2>4. d < q + 1
    BY <1>1, <2>3, Shrinks
  <2>5. d = q
    BY <1>1, <2>2, <2>4
  <2> QED BY <1>1, <1>2, <1>3, <2>5
<1>4. ASSUME i = q * k PROVE r = 0
  <2>1. d * k <= q * k /\ q * k < (d + 1) * k
    BY <1>1, <1>2, <1>4, OneMore
  <2>2. q < d + 1
    BY <1>1, <2>1, Shrinks
  <2>3. d * k < (q + 1) * k
    BY <1>2, <2>1, OneMore
  <2>4. d < q + 1
    BY <1>1, <2>3, Shrinks
  <2>5. d = q
    BY <1>1, <2>2, <2>4
  <2> QED BY <1>1, <1>2, <1>4, <2>5
<1> QED BY <1>3, <1>4 DEF r

\* An exact quotient is not rounded up.
LEMMA CeilDivExact ==
    ASSUME NEW a \in Nat, NEW b \in Nat \ {0}, a % b = 0
    PROVE  CeilDiv(a, b) * b = a
<1> DEFINE q == CeilDiv(a, b)
           m == a \div b
<1>1. m \in Nat /\ a = m * b
  <2>1. m \in Nat /\ a = m * b + (a % b)
    BY Division
  <2> QED BY <2>1
<1>2. q \in Nat /\ a <= q * b /\ q * b \in Nat /\ m * b \in Nat
  <2>1. q \in Nat /\ a <= q * b
    BY CeilDivBounds
  <2> HIDE DEF q
  <2> QED BY <1>1, <2>1
<1>3. q <= m
  BY <1>1, CeilDivLeast
<1> HIDE DEF q, m
<1>4. q * b <= m * b
  BY <1>1, <1>2, <1>3, Grows
<1>5. q * b = a
  BY <1>1, <1>2, <1>4
<1> QED BY <1>5 DEF q

\* A multiple of b leaves no remainder.
LEMMA Multiple ==
    ASSUME NEW m \in Nat, NEW b \in Nat \ {0}
    PROVE  (m * b) % b = 0
<1> DEFINE a == m * b
           q == a \div b
           r == a % b
<1>1. a \in Nat
  OBVIOUS
<1>2. q \in Nat /\ a = q * b + r /\ r \in 0..(b - 1)
  <2> HIDE DEF a
  <2> QED BY <1>1, Division
<1>3. a = m * b
  OBVIOUS
<1> HIDE DEF a, q, r
<1>4. q * b \in Nat /\ (q + 1) * b = q * b + b /\ (m + 1) * b = m * b + b /\ m * b \in Nat
  BY <1>2, OneMore
<1>5. m < q + 1
  <2>1. m * b < (q + 1) * b
    BY <1>2, <1>3, <1>4
  <2> QED BY <1>2, <2>1, Shrinks
<1>6. q < m + 1
  <2>1. q * b < (m + 1) * b
    BY <1>2, <1>3, <1>4
  <2> QED BY <1>2, <2>1, Shrinks
<1>7. q = m
  BY <1>2, <1>5, <1>6
<1>8. r = 0
  BY <1>2, <1>3, <1>4, <1>7
<1> QED BY <1>8 DEF r, a

\* Rows as a sequence.
LEMMA RowsLen ==
    ASSUME NEW n \in Nat, NEW rows \in [1..n -> Int]
    PROVE  Len(rows) = n
<1>1. rows \in Seq(Int)
  BY SeqDef
<1>2. Len(rows) \in Nat /\ DOMAIN rows = 1..Len(rows)
  BY <1>1, LenProperties
<1>3. DOMAIN rows = 1..n
  OBVIOUS
<1> QED BY <1>2, <1>3

----------------------------------------------------------------------------
(* The inductive invariant: where sim stands between two output steps.      *)

\* Steps and rows of an output case.
Steps(c) == CeilQuotient(c.T, c.dt, c.above.steps)
Rows(c)  == CeilQuotient(c.T, c.k * c.dt, c.above.rows) + 1

Sims(c) == [case : {c}, i : Nat, i_out : Nat, rows : [1..Rows(c) -> Int]]

\* No rows before the object has been initialized, or if that failed.
Nothing == sim = NoSim /\ phase["fast"] \notin {"ready", "sim", "over"}

\* The rows are there, none is filled.
Allocated ==
    /\ phase["fast"] \notin {"new", "sim", "over"}
    /\ sim.i = 0 /\ sim.i_out = 0

\* i - 1 is the last step; it was written to row q (from 0), or it was the
\* last step of its interval and q has advanced. No step follows the one that
\* moved q past the last row.
At(k, n, s, i, q, rows) ==
    /\ i \in 1..(s + 1)
    /\ (q - 1) * k <= i - 1
    /\ i - 1 < q * k
    /\ \A r \in 1..n : r <= q => rows[r] = (r - 1) * k
    /\ i - 1 = (q - 1) * k \/ (q + 1 <= n => rows[q + 1] = i - 1)
    /\ q <= n
    /\ q = n => i - 1 = (q - 1) * k

Running(c) ==
    /\ phase["fast"] \notin {"new", "ready"}
    /\ At(c.k, Rows(c), Steps(c), sim.i, sim.i_out, sim.rows)

RowInv ==
    \/ Nothing
    \/ \E c \in Outputs : sim \in Sims(c) /\ (Allocated \/ Running(c))

\* Numbers of an output case.
LEMMA CaseFacts ==
    ASSUME NEW c \in Outputs
    PROVE  /\ c.T \in Nat /\ c.dt \in Nat \ {0} /\ c.k \in Nat \ {0}
           /\ c.k * c.dt \in Nat \ {0}
           /\ Steps(c) \in Nat /\ Rows(c) \in Nat /\ Rows(c) >= 1
           /\ total_time_steps(c) = Steps(c) + 1 /\ total_output_steps(c) = Rows(c)
<1>1. c.T \in Nat /\ c.dt \in Nat \ {0} /\ c.k \in Nat \ {0}
  BY OutputsAssumption
<1>2. c.k * c.dt \in Nat \ {0}
  <2> DEFINE k == c.k
             d == c.dt
  <2>1. k \in Nat \ {0} /\ d \in Nat \ {0}
    BY <1>1
  <2> HIDE DEF k, d
  <2>2. 1 * d <= k * d
    BY <2>1, Grows
  <2>3. k * d \in Nat
    BY <2>1
  <2> QED BY <2>1, <2>2, <2>3 DEF k, d
<1>3. CeilDiv(c.T, c.dt) \in Nat /\ CeilDiv(c.T, c.k * c.dt) \in Nat
  BY <1>1, <1>2, CeilDivBounds
<1>4. Steps(c) \in Nat /\ Rows(c) \in Nat /\ Rows(c) >= 1
  BY <1>3 DEF Steps, Rows, CeilQuotient
<1> QED BY <1>1, <1>2, <1>4 DEF Steps, Rows, total_time_steps, total_output_steps

\* With exact quotients: the last row is for the last step, or the one where the
\* interval of the last step began.
LEMMA ExactRows ==
    ASSUME NEW c \in Outputs, NEW m \in Nat
    PROVE  LET N == CeilDiv(c.T, c.dt)
               M == CeilDiv(c.T, c.k * c.dt)
           IN /\ N \in Nat /\ M \in Nat /\ N <= M * c.k
              /\ N <= m * c.k => M <= m
<1> DEFINE T == c.T
           d == c.dt
           k == c.k
           N == CeilDiv(T, d)
           M == CeilDiv(T, k * d)
<1>0. T \in Nat /\ d \in Nat \ {0} /\ k \in Nat \ {0} /\ k * d \in Nat \ {0}
  BY CaseFacts
<1> HIDE DEF T, d, k
<1>1. /\ T \in Nat /\ d \in Nat \ {0} /\ k \in Nat \ {0} /\ k * d \in Nat \ {0}
      /\ N \in Nat /\ M \in Nat /\ N = CeilDiv(T, d) /\ M = CeilDiv(T, k * d)
  BY <1>0, CeilDivBounds
<1> HIDE DEF N, M
<1>2. T <= M * (k * d) /\ T <= N * d
  BY <1>1, CeilDivBounds
<1>3. M * k \in Nat /\ m * k \in Nat
  BY <1>1
<1>4. M * (k * d) = (M * k) * d /\ m * (k * d) = (m * k) * d
  BY <1>1
<1>5. N <= M * k
  BY <1>1, <1>2, <1>3, <1>4, CeilDivLeast
<1>6. ASSUME N <= m * k PROVE M <= m
  <2>1. N * d <= (m * k) * d
    BY <1>1, <1>3, <1>6, Grows
  <2>2. N * d \in Nat /\ m * (k * d) \in Nat
    BY <1>1
  <2>3. T <= m * (k * d)
    BY <1>1, <1>2, <1>4, <2>1, <2>2
  <2> QED BY <1>1, <2>3, CeilDivLeast
<1>7. N \in Nat /\ M \in Nat /\ N <= M * k /\ (N <= m * k => M <= m)
  BY <1>1, <1>5, <1>6
<1> QED BY <1>7 DEF N, M, k, d, T

\* The same of the counts of the code, rounded each on its own: the steps reach no
\* further than the rows but for TooFewRows, and the last row is reached but for
\* RowToSpare.
LEMMA LastRow ==
    ASSUME NEW c \in Outputs, NEW m \in Nat
    PROVE  /\ ~TooFewRows(c) => Steps(c) <= (Rows(c) - 1) * c.k
           /\ ~RowToSpare(c) /\ Steps(c) <= m * c.k => Rows(c) - 1 <= m
<1> DEFINE T == c.T
           d == c.dt
           k == c.k
           kd == c.k * c.dt
           N == CeilDiv(T, d)
           M == CeilDiv(T, kd)
           upS == c.above.steps /\ T > 0 /\ T % d = 0
           upR == c.above.rows /\ T > 0 /\ T % kd = 0
           x == IF upS THEN 1 ELSE 0
           y == IF upR THEN 1 ELSE 0
<1>1. /\ T \in Nat /\ d \in Nat \ {0} /\ k \in Nat \ {0} /\ kd \in Nat \ {0}
      /\ kd = k * d
  BY CaseFacts
<1>2. N \in Nat /\ M \in Nat /\ N <= M * k
  BY ExactRows
<1>3. N <= m * k => M <= m
  BY ExactRows
<1>4. Steps(c) = N + x /\ Rows(c) - 1 = M + y /\ x \in 0..1 /\ y \in 0..1
  <2>1. Steps(c) = N + x /\ x \in 0..1 /\ y \in 0..1
    BY DEF Steps, CeilQuotient
  <2>2. Rows(c) = M + y + 1
    BY DEF Rows, CeilQuotient
  <2> HIDE DEF y, M
  <2> QED BY <1>2, <2>1, <2>2
<1>5. T % kd = 0 => M * kd = T
  BY <1>1, CeilDivExact
<1>6. T % d = 0 => N * d = T
  BY <1>1, CeilDivExact
<1>7. ~TooFewRows(c) /\ x = 1 /\ y = 0 => T % d = 0 /\ T % kd # 0
  BY DEF TooFewRows, WholeRows
<1>8. ~RowToSpare(c) /\ y = 1 => T % kd = 0 /\ (T % d = 0 => x = 1)
  BY DEF RowToSpare, WholeRows
<1> HIDE DEF T, d, k, kd, N, M, upS, upR, x, y
<1>9. /\ M * k \in Nat /\ m * k \in Nat /\ (M + 1) * k = M * k + k /\ M * kd = (M * k) * d
      /\ (M + 0) * k = M * k
  BY <1>1, <1>2, OneMore
<1>10. ~TooFewRows(c) => N + x <= (M + y) * k
  <2>1. CASE x = 0 \/ y = 1
    BY <2>1, <1>1, <1>2, <1>4, <1>9
  <2>2. ASSUME x = 1, y = 0, ~TooFewRows(c) PROVE N + 1 <= M * k
    <3>1. N # M * k
      <4> SUFFICES ASSUME N = M * k PROVE FALSE
        OBVIOUS
      <4>1. T = M * kd
        BY <2>2, <1>6, <1>7, <1>9
      <4> QED BY <4>1, <2>2, <1>1, <1>2, <1>7, Multiple
    <3> QED BY <3>1, <1>2, <1>9
  <2> QED BY <2>1, <2>2, <1>4, <1>9
<1>11. ASSUME ~RowToSpare(c), N + x <= m * k PROVE M + y <= m
  <2>1. CASE y = 0
    BY <2>1, <1>11, <1>2, <1>3, <1>4, <1>9
  <2>2. CASE y = 1
    <3>1. T = (M * k) * d /\ T % kd = 0
      BY <2>2, <1>5, <1>8, <1>9, <1>11
    <3>2. T % d = 0
      BY <3>1, <1>1, <1>9, Multiple
    <3>3. x = 1 /\ N * d = (M * k) * d
      BY <3>1, <3>2, <2>2, <1>6, <1>8, <1>11
    <3>4. ~(N < M * k)
      <4> SUFFICES ASSUME N < M * k PROVE FALSE
        OBVIOUS
      <4>1. (N + 1) * d <= (M * k) * d /\ (N + 1) * d = N * d + d /\ N * d \in Nat
        BY <1>1, <1>2, <1>9, Grows, OneMore
      <4> QED BY <4>1, <3>3, <1>1
    <3>5. M * k < m * k
      BY <3>3, <3>4, <1>2, <1>9, <1>11
    <3>6. M < m
      BY <3>5, <1>1, <1>2, Shrinks
    <3> QED BY <3>6, <2>2, <1>2
  <2> QED BY <2>1, <2>2, <1>4
<1>12. /\ ~TooFewRows(c) => Steps(c) <= (Rows(c) - 1) * k
       /\ ~RowToSpare(c) /\ Steps(c) <= m * k => Rows(c) - 1 <= m
  BY <1>4, <1>10, <1>11
<1> QED BY <1>12 DEF k

----------------------------------------------------------------------------
(* Every step keeps it.                                                     *)

\* A method leaves the abort level alone and counts as one call.
Counts == abort' = abort /\ calls < MaxCalls /\ calls' = calls + 1

\* The modules' classes do not touch the simulation.
Apart == UNCHANGED sim /\ phase'["fast"] = phase["fast"] /\ Counts

\* Whatever their methods do.
LEMMA ModulesFrame ==
    ASSUME Types, Modules
    PROVE  Apart
<1>1. ASSUME NEW o \in Kinds \ {"fast"}, NEW to, NEW method, NEW lev, NEW v,
             Store(o, to, method, lev, v)
      PROVE  phase'["fast"] = phase["fast"]
  BY <1>1 DEF Store, Types, Kinds
<1>2. ASSUME NEW o \in Kinds \ {"fast"}, NEW from, NEW to, Method(o, from, to)
      PROVE  Apart
  BY <1>1, <1>2 DEF Method, Calls, Apart, Counts
<1>3. ASSUME NEW o \in Kinds \ {"fast"}, NEW from, Refuse(o, from) \/ RefuseAndEnd(o, from)
      PROVE  Apart
  BY <1>1, <1>3 DEF Refuse, RefuseAndEnd, Calls, Apart, Counts
<1>4. ASSUME NEW o \in Kinds \ {"fast"}, End(o)
      PROVE  Apart
  BY <1>1, <1>4 DEF End, CallsEnd, Calls, Apart, Counts
<1>5. ASSUME seastate_end \/ wavetank_end
      PROVE  Apart
  BY <1>1, <1>5 DEF seastate_end, wavetank_end, CallsEnd, Calls, Apart, Counts, Kinds
<1> USE DEF Kinds
<1>6. CASE HydroDyn
  BY <1>2, <1>3, <1>4, <1>6
     DEF HydroDyn, hydrodyn_init, hydrodyn_calcOutput, hydrodyn_calcOutput_and_addedMass,
         hydrodyn_updateStates, check_input_motions, check_input_motions_noAcc, hydrodyn_end
<1>7. CASE MoorDyn
  BY <1>2, <1>4, <1>7 DEF MoorDyn, md_init, md_calcOutput, md_updateStates, md_end
<1>8. CASE InflowWind
  BY <1>2, <1>4, <1>8 DEF InflowWind, ifw_init, ifw_calc_output, ifw_end
<1>9. CASE SeaState
  BY <1>2, <1>3, <1>5, <1>9
     DEF SeaState, seastate_preinit, seastate_init, seastate_calcOutput,
         seastate_getWaveFieldPointer, seastate_setWaveFieldPointer, get_fluidVelAcc,
         get_surfElev, get_surfNorm, get_elevMinMax
<1>10. CASE AeroDynInflow
  BY <1>2, <1>3, <1>4, <1>10
     DEF AeroDynInflow, adi_preinit, adi_setuprotor, adi_init, adi_setrotormotion,
         adi_updateStates, adi_calcOutput, adi_getrotorloads, adi_getdiskavgvel, adi_end
<1>11. CASE WaveTank
  BY <1>2, <1>3, <1>5, <1>11 DEF WaveTank, wavetank_init, calc_step
<1> QED BY <1>6, <1>7, <1>8, <1>9, <1>10, <1>11 DEF Modules

\* The phase after a method of FastLibAPI.
LEMMA FastPhase ==
    ASSUME Types, NEW to, NEW method, NEW lev, NEW v, StoreFast(to, method, lev, v)
    PROVE  phase'["fast"] \in {"raised", to}
BY DEF StoreFast, Store, Types, Kinds

\* fast_init allocates the rows.
LEMMA InitRows ==
    ASSUME Types, RowInv, fast_init
    PROVE  RowInv'
<1>1. phase["fast"] = "new"
  BY DEF fast_init, Calls
<1>2. Nothing
  BY <1>1 DEF RowInv, Allocated, Running
<1>3. PICK lev \in Levels, level \in FileLevels, c \in Outputs :
         LET v == [View("fast") EXCEPT !.live = TRUE] IN
         /\ StoreFast("ready", "init", lev, IF fatal_error(lev, level) THEN Raise(v) ELSE v)
         /\ sim' = IF fatal_error(lev, level) THEN sim
                   ELSE [case |-> c, i |-> 0, i_out |-> 0,
                         rows |-> [r \in 1..total_output_steps(c) |-> Unset]]
  BY DEF fast_init
<1> DEFINE v == [View("fast") EXCEPT !.live = TRUE]
<1>4. phase'["fast"] \in {"raised", "ready"}
  BY <1>3, FastPhase
<1>5. CASE fatal_error(lev, level)
  <2>1. phase'["fast"] = "raised"
    BY <1>3, <1>5 DEF StoreFast, Store, Raise, Types, Kinds, View
  <2> QED BY <1>2, <1>3, <1>5, <2>1 DEF RowInv, Nothing
<1>6. CASE ~fatal_error(lev, level)
  <2>1. sim' = [case |-> c, i |-> 0, i_out |-> 0, rows |-> [r \in 1..Rows(c) |-> Unset]]
    BY <1>3, <1>6, CaseFacts
  <2>2. sim' \in Sims(c)
    BY <2>1 DEF Sims, Unset
  <2>3. Allocated'
    BY <1>4, <2>1 DEF Allocated
  <2> QED BY <2>2, <2>3 DEF RowInv
<1> QED BY <1>5, <1>6

\* What a step writes into sim.
Filled(rows, j, x) == [rows EXCEPT ![j] = x]
Wrote(s, a, j, x, b) == [s EXCEPT !.i = a, !.rows[j] = x, !.i_out = b]

\* Its fields.
LEMMA SimWritten ==
    ASSUME NEW c, NEW s \in Sims(c), NEW a \in Nat, NEW b \in Nat, NEW j, NEW x \in Int
    PROVE  LET w == Wrote(s, a, j, x, b)
           IN /\ w \in Sims(c) /\ w.i = a /\ w.i_out = b
              /\ w.rows = Filled(s.rows, j, x)
<1> DEFINE R == [s.rows EXCEPT ![j] = x]
           w == [s EXCEPT !.i = a, !.rows = R, !.i_out = b]
<1>1. s.rows \in [1..Rows(c) -> Int]
  BY DEF Sims
<1>2. R \in [1..Rows(c) -> Int]
  BY <1>1, Zenon
<1>3. Wrote(s, a, j, x, b) = w
  BY DEF Sims, Wrote
<1> HIDE DEF R
<1>4. w \in Sims(c)
  BY <1>2, Zenon DEF Sims
<1>5. w.i = a /\ w.i_out = b /\ w.rows = R
  BY DEF Sims
<1> QED BY <1>3, <1>4, <1>5 DEF R, Filled

\* FAST_Start fills the first row.
LEMMA StartRows ==
    ASSUME Types, RowInv, FAST_Start
    PROVE  RowInv'
<1>1. phase["fast"] = "ready" /\ phase'["fast"] \in {"raised", "sim"}
  BY FastPhase DEF FAST_Start, Calls, Ready, Step
<1>2. PICK c \in Outputs : sim \in Sims(c) /\ Allocated
  BY <1>1 DEF RowInv, Nothing, Running
<1>3. sim' = Wrote(sim, 1, 1, 0, 1)
  BY DEF FAST_Start, Wrote
<1>4. /\ Rows(c) \in Nat /\ Rows(c) >= 1 /\ Steps(c) \in Nat /\ c.k \in Nat \ {0}
  BY CaseFacts
<1>5. /\ sim'.i = 1 /\ sim'.i_out = 1 /\ sim'.rows = Filled(sim.rows, 1, 0)
      /\ sim' \in Sims(c)
  BY <1>2, <1>3, SimWritten
<1>6. Running(c)'
  <2>1. (1 - 1) * c.k = 0 /\ 1 * c.k = c.k
    BY <1>4
  <2>2. sim'.rows[1] = 0
    BY <1>2, <1>4, <1>5 DEF Sims, Filled
  <2>3. At(c.k, Rows(c), Steps(c), 1, 1, sim'.rows)
    BY <1>4, <2>1, <2>2 DEF At
  <2> QED BY <1>1, <1>5, <2>3 DEF Running
<1> QED BY <1>5, <1>6 DEF RowInv

\* The step i fills the row q, and the next one is for q + 1 if i ends its interval.
LEMMA NextAt ==
    ASSUME NEW k \in Nat \ {0}, NEW n \in Nat, NEW s \in Nat, NEW i \in Nat, NEW q \in Nat,
           NEW rows \in [1..n -> Int], At(k, n, s, i, q, rows), i < s + 1, q < n
    PROVE  At(k, n, s, i + 1, IF i % k = 0 THEN q + 1 ELSE q, [rows EXCEPT ![q + 1] = i])
<1>1. /\ i \in 1..(s + 1) /\ (q - 1) * k <= i - 1 /\ i - 1 < q * k
      /\ \A r \in 1..n : r <= q => rows[r] = (r - 1) * k
  BY DEF At
<1>2. /\ q * k \in Int /\ (q - 1) * k \in Int /\ (q + 1) * k = q * k + k
      /\ ((q + 1) - 1) * k = q * k
  BY OneMore
<1>3. i % k = 0 <=> i = q * k
  <2>1. (q - 1) * k < i /\ i <= q * k
    BY <1>1, <1>2
  <2> QED BY <2>1, OnlyEnd
<1> DEFINE R == [rows EXCEPT ![q + 1] = i]
<1>4. R[q + 1] = i /\ \A r \in 1..n : r <= q => R[r] = (r - 1) * k
  BY <1>1
<1> HIDE DEF R
<1>5. ASSUME i = q * k
      PROVE  At(k, n, s, i + 1, q + 1, R)
  <2>1. /\ i + 1 \in 1..(s + 1) /\ i + 1 - 1 = ((q + 1) - 1) * k
        /\ ((q + 1) - 1) * k <= i + 1 - 1 /\ i + 1 - 1 < (q + 1) * k
    BY <1>1, <1>2, <1>5
  <2>2. ASSUME NEW r \in 1..n, r <= q + 1 PROVE R[r] = (r - 1) * k
    <3>1. CASE r = q + 1
      BY <3>1, <1>2, <1>4, <1>5
    <3>2. CASE r <= q
      BY <3>2, <1>4
    <3> QED BY <3>1, <3>2, <2>2
  <2> QED BY <2>1, <2>2 DEF At
<1>6. ASSUME i # q * k
      PROVE  At(k, n, s, i + 1, q, R)
  <2>1. i + 1 \in 1..(s + 1) /\ (q - 1) * k <= i + 1 - 1 /\ i + 1 - 1 < q * k
    BY <1>1, <1>2, <1>6
  <2>2. R[q + 1] = i + 1 - 1
    BY <1>4
  <2> QED BY <1>4, <2>1, <2>2 DEF At
<1> QED BY <1>3, <1>5, <1>6 DEF R

\* FAST_Update fills the row i_out, and goes on to the next at the end of its interval.
LEMMA UpdateRows ==
    ASSUME Types, RowInv, FAST_Update
    PROVE  RowInv'
<1>1. phase["fast"] = "sim" /\ phase'["fast"] \in {"raised", "sim", "over"}
  BY FastPhase DEF FAST_Update, Step
<1>2. PICK c \in Outputs : sim \in Sims(c) /\ Running(c)
  BY <1>1 DEF RowInv, Nothing, Allocated
<1> DEFINE w == IF sim.i % c.k = 0 THEN sim.i_out + 1 ELSE sim.i_out
<1>3. /\ sim.case = c /\ sim.i \in Nat /\ sim.i_out \in Nat /\ w \in Nat /\ sim.i + 1 \in Nat
      /\ sim.rows \in [1..Rows(c) -> Int]
  BY <1>2 DEF Sims
<1>4. sim.i < Steps(c) + 1 /\ sim.i_out < Rows(c)
  <2>1. Len(sim.rows) = Rows(c)
    BY <1>3, CaseFacts, RowsLen
  <2> QED BY <2>1, <1>3, CaseFacts DEF FAST_Update
<1>5. sim' = Wrote(sim, sim.i + 1, sim.i_out + 1, sim.i, w)
  BY <1>3 DEF FAST_Update, output_frequency, Wrote
<1> HIDE DEF w
<1>6. sim.i \in Int
  BY <1>3
<1>7. /\ sim' \in Sims(c) /\ sim'.i = sim.i + 1 /\ sim'.i_out = w
      /\ sim'.rows = Filled(sim.rows, sim.i_out + 1, sim.i)
  <2> DEFINE a == sim.i + 1
             j == sim.i_out + 1
             x == sim.i
             z == Wrote(sim, a, j, x, w)
  <2>1. sim \in Sims(c) /\ a \in Nat /\ w \in Nat /\ x \in Int
    BY <1>2, <1>3, <1>6
  <2> HIDE DEF a, j, x
  <2>2. /\ z \in Sims(c) /\ z.i = a /\ z.i_out = w
        /\ z.rows = Filled(sim.rows, j, x)
    BY <2>1, SimWritten
  <2> QED BY <1>5, <2>2 DEF a, j, x
<1>8. At(c.k, Rows(c), Steps(c), sim.i + 1, w, Filled(sim.rows, sim.i_out + 1, sim.i))
  BY <1>2, <1>3, <1>4, CaseFacts, NextAt DEF Running, w, Filled
<1> QED BY <1>1, <1>7, <1>8 DEF RowInv, Running

\* Every step keeps the rows.
LEMMA RowsKept ==
    ASSUME Types, RowInv, [Next]_vars
    PROVE  RowInv'
<1>1. ASSUME UNCHANGED sim, phase["fast"] = "new" => phase'["fast"] \in {"new", "raised"},
             phase["fast"] = "ready" => phase'["fast"] \in {"ready", "raised"},
             phase["fast"] \notin {"new", "ready"} =>
                phase'["fast"] \in {phase["fast"], "raised", "done"}
      PROVE  RowInv'
  <2>1. CASE Nothing
    BY <1>1, <2>1 DEF RowInv, Nothing
  <2>2. CASE \E c \in Outputs : sim \in Sims(c) /\ Allocated
    BY <1>1, <2>2 DEF RowInv, Allocated
  <2>3. CASE \E c \in Outputs : sim \in Sims(c) /\ Running(c)
    BY <1>1, <2>3 DEF RowInv, Running
  <2> QED BY <2>1, <2>2, <2>3 DEF RowInv
<1>2. CASE AllocateFails
  BY <1>1, <1>2, FastPhase DEF AllocateFails, Calls
<1>3. CASE fast_finish
  BY <1>1, <1>3, FastPhase DEF fast_finish
<1>4. CASE deinit
  BY <1>1, <1>4, FastPhase DEF deinit, Calls
<1>5. CASE get_hub_position \/ FAST_Update_pastRows
  BY <1>1, <1>5, FastPhase DEF get_hub_position, FAST_Update_pastRows, Calls, Ready
<1>6. CASE Modules \/ UNCHANGED vars
  BY <1>1, <1>6, ModulesFrame DEF vars, Apart
<1> QED BY <1>2, <1>3, <1>4, <1>5, <1>6, InitRows, StartRows, UpdateRows DEF Next, Fast

\* The rows in every behaviour.
THEOREM SpecRowInv == Spec => []RowInv
<1>1. Init => RowInv
  BY DEF Init, RowInv, Nothing, Kinds
<1>2. RowInv /\ IInv /\ [Next]_vars => RowInv'
  BY RowsKept DEF IInv
<1> QED BY <1>1, <1>2, SpecInv, PTL DEF Spec

\* Where the rows are between steps, and after the last one.
LEMMA RunningRows ==
    ASSUME NEW c \in Outputs, sim \in Sims(c), Running(c)
    PROVE  /\ sim.i_out <= Rows(c)
           /\ ~TooFewRows(c) /\ sim.i < Steps(c) + 1 => sim.i_out < Rows(c)
           /\ \A r \in 1..Rows(c) : r <= sim.i_out => sim.rows[r] = (r - 1) * c.k
           /\ ~RowToSpare(c) /\ sim.i = Steps(c) + 1 =>
                 /\ sim.rows[Rows(c)] = Steps(c)
                 /\ \A r \in 1..Rows(c) : r < Rows(c) => r <= sim.i_out
<1> DEFINE i == sim.i
           q == sim.i_out
           k == c.k
           n == Rows(c)
           s == Steps(c)
           rows == sim.rows
           few == TooFewRows(c)
           spare == RowToSpare(c)
<1>1. /\ k \in Nat \ {0} /\ n \in Nat /\ n >= 1 /\ s \in Nat
      /\ i \in Nat /\ q \in Nat /\ At(k, n, s, i, q, rows)
  BY CaseFacts DEF Sims, Running
<1>2. (~few => s <= (n - 1) * k) /\ \A m \in Nat : ~spare /\ s <= m * k => n - 1 <= m
  BY LastRow
<1> SUFFICES /\ q <= n
             /\ ~few /\ i < s + 1 => q < n
             /\ \A r \in 1..n : r <= q => rows[r] = (r - 1) * k
             /\ ~spare /\ i = s + 1 => /\ rows[n] = s
                                      /\ \A r \in 1..n : r < n => r <= q
  OBVIOUS
<1> HIDE DEF i, q, k, n, s, rows, few, spare
<1>3. /\ (q - 1) * k <= i - 1 /\ i - 1 < q * k /\ i \in 1..(s + 1)
      /\ \A r \in 1..n : r <= q => rows[r] = (r - 1) * k
      /\ i - 1 = (q - 1) * k \/ (q + 1 <= n => rows[q + 1] = i - 1)
      /\ q <= n /\ (q = n => i - 1 = (q - 1) * k)
  BY <1>1 DEF At
<1>4. /\ (q - 1) * k \in Int /\ (n - 1) * k \in Int /\ n * k = (n - 1) * k + k
      /\ q * k \in Int /\ 0 * k = 0
  BY <1>1, OneMore
<1>5. ASSUME ~few, i < s + 1 PROVE q < n
  <2>1. (q - 1) * k < (n - 1) * k
    BY <1>1, <1>2, <1>3, <1>4, <1>5
  <2>2. q - 1 < n - 1
    BY <1>1, <2>1, Shrinks
  <2> QED BY <1>1, <2>2
<1>6. ASSUME ~spare, i = s + 1
      PROVE  rows[n] = s /\ \A r \in 1..n : r < n => r <= q
  <2>1. i - 1 = s /\ s < q * k
    BY <1>1, <1>3, <1>6
  <2>2. q >= 1
    <3>1. 0 * k < q * k
      BY <1>1, <1>4, <2>1
    <3> QED BY <1>1, <3>1, Shrinks
  <2>3. n - 1 <= q
    BY <1>1, <1>2, <1>4, <1>6, <2>1
  <2>4. CASE q = n
    <3>1. rows[n] = (n - 1) * k
      BY <1>1, <1>3, <2>4
    <3> QED BY <1>1, <1>2, <1>3, <1>4, <2>1, <2>4, <3>1
  <2>5. CASE q = n - 1
    <3>1. s # (q - 1) * k
      <4> SUFFICES ASSUME s = (q - 1) * k PROVE FALSE
        OBVIOUS
      <4>1. q - 1 \in Nat /\ s <= (q - 1) * k
        BY <1>1, <1>4, <2>2
      <4>2. n - 1 <= q - 1
        BY <1>2, <1>6, <4>1
      <4> QED BY <1>1, <2>5, <4>2
    <3>2. rows[q + 1] = s /\ q + 1 = n
      BY <1>1, <1>3, <2>1, <2>5, <3>1
    <3> QED BY <1>1, <2>5, <3>2
  <2> QED BY <1>1, <1>3, <2>3, <2>4, <2>5
<1> QED BY <1>3, <1>5, <1>6

\* The rows as the properties name them.
LEMMA SimFacts ==
    ASSUME NEW c \in Outputs, sim \in Sims(c)
    PROVE  /\ sim.case = c /\ sim.i \in Nat /\ sim.i_out \in Nat /\ Len(sim.rows) = Rows(c)
           /\ total_time_steps(sim.case) = Steps(c) + 1 /\ output_frequency(sim.case) = c.k
BY CaseFacts, RowsLen DEF Sims, output_frequency

\* FastLibAPI.sim passes a row past the end of output_values in no other case than
\* TooFewRows, for any length, time step and output step, however their quotients
\* are rounded, wherever it ends or fails.
THEOREM SpecRowInBounds == Spec => []RowInBounds
<1>1. RowInv => RowInBounds
  <2> SUFFICES ASSUME RowInv, phase["fast"] = "sim", sim.i < total_time_steps(sim.case),
                      ~TooFewRows(sim.case)
               PROVE  sim.i_out < Len(sim.rows)
    BY DEF RowInBounds, StepToCome
  <2>1. PICK c \in Outputs : sim \in Sims(c) /\ Running(c)
    BY DEF RowInv, Nothing, Allocated
  <2> QED BY <2>1, RunningRows, SimFacts
<1> QED BY <1>1, SpecRowInv, PTL

\* Row r holds the outputs of time step r * dt_out / dt, though every step of its
\* interval was written there, however the quotients are rounded; after the last
\* step every row is filled and the last one holds that step, but for RowToSpare.
THEOREM SpecRowsAreSteps == Spec => []RowsAreSteps
<1>1. RowInv => RowsAreSteps
  <2> SUFFICES ASSUME RowInv PROVE RowsAreSteps
    OBVIOUS
  <2>1. CASE Nothing
    <3>1. sim.rows = <<>> /\ Len(sim.rows) = 0
      BY <2>1 DEF Nothing, NoSim
    <3> QED BY <3>1 DEF RowsAreSteps
  <2>2. ASSUME NEW c \in Outputs, sim \in Sims(c), Allocated
        PROVE  RowsAreSteps
    BY <2>2, SimFacts, CaseFacts DEF RowsAreSteps, Allocated
  <2>3. ASSUME NEW c \in Outputs, sim \in Sims(c), Running(c)
        PROVE  RowsAreSteps
    <3>1. /\ Steps(c) \in Nat /\ Rows(c) \in Nat /\ Rows(c) >= 1 /\ c.k \in Nat \ {0}
          /\ Len(sim.rows) = Rows(c) /\ total_time_steps(sim.case) = Steps(c) + 1
          /\ output_frequency(sim.case) = c.k /\ sim.i \in Nat /\ sim.case = c
      BY <2>3, CaseFacts, SimFacts
    <3>2. \A r \in 1..Rows(c) : r <= sim.i_out => sim.rows[r] = (r - 1) * c.k
      BY <2>3, RunningRows
    <3>3. ASSUME ~RowToSpare(c), sim.i = Steps(c) + 1
          PROVE  sim.rows[Rows(c)] = sim.i - 1 /\ \A r \in 1..Rows(c) : sim.rows[r] # Unset
      <4>1. sim.rows[Rows(c)] = Steps(c) /\ \A r \in 1..Rows(c) : r < Rows(c) => r <= sim.i_out
        BY <2>3, <3>3, RunningRows
      <4>2. ASSUME NEW r \in 1..Rows(c), r < Rows(c) PROVE sim.rows[r] # Unset
        <5>1. 0 * c.k <= (r - 1) * c.k /\ 0 * c.k = 0
          BY <3>1, Grows
        <5>2. sim.rows[r] = (r - 1) * c.k
          BY <3>2, <4>1, <4>2
        <5> QED BY <3>1, <5>1, <5>2 DEF Unset
      <4>3. \A r \in 1..Rows(c) : r < Rows(c) \/ r = Rows(c)
        BY <3>1
      <4> QED BY <3>1, <3>3, <4>1, <4>2, <4>3 DEF Unset
    <3> QED BY <3>1, <3>2, <3>3 DEF RowsAreSteps
  <2> QED BY <2>1, <2>2, <2>3 DEF RowInv
<1> QED BY <1>1, SpecRowInv, PTL

----------------------------------------------------------------------------

\* The bound on calls, and the abort levels an input file may set.
Bounded == calls \in 0..MaxCalls /\ abort \in FileLevels \cup {Fatal}

\* Every step keeps them.
LEMMA BoundedKept ==
    ASSUME Types, Bounded, [Next]_vars
    PROVE  Bounded'
<1>1. ASSUME abort' = abort \/ abort' \in FileLevels,
             calls' = calls \/ (calls < MaxCalls /\ calls' = calls + 1)
      PROVE  Bounded'
  BY <1>1, MaxCallsAssumption DEF Bounded
<1>2. CASE Fast
  BY <1>1, <1>2 DEF Fast, AllocateFails, fast_init, FAST_Start, FAST_Update,
                    FAST_Update_pastRows, fast_finish, deinit, get_hub_position, Calls
<1>3. CASE Modules
  BY <1>1, <1>3, ModulesFrame DEF Apart, Counts
<1>4. CASE UNCHANGED vars
  BY <1>1, <1>4 DEF vars
<1> QED BY <1>2, <1>3, <1>4 DEF Next

\* Types, and the row to be filled is one of the array's or the one after its last.
THEOREM SpecTypeOK == Spec => []TypeOK
<1>1. Init => Bounded
  BY MaxCallsAssumption DEF Init, Bounded
<1>2. Bounded /\ IInv /\ [Next]_vars => Bounded'
  BY BoundedKept DEF IInv
<1>3. RowInv => sim.i_out \in 0..Len(sim.rows)
  <2> SUFFICES ASSUME RowInv PROVE sim.i_out \in 0..Len(sim.rows)
    OBVIOUS
  <2>1. CASE Nothing
    <3>1. sim.i_out = 0 /\ Len(sim.rows) = 0
      BY <2>1 DEF Nothing, NoSim
    <3> QED BY <3>1
  <2>2. ASSUME NEW c \in Outputs, sim \in Sims(c), Allocated \/ Running(c)
        PROVE  sim.i_out \in 0..Len(sim.rows)
    BY <2>2, SimFacts, CaseFacts, RunningRows DEF Allocated
  <2> QED BY <2>1, <2>2 DEF RowInv
<1>4. IInv /\ RowInv /\ Bounded => TypeOK
  BY <1>3 DEF TypeOK, IInv, Types, Bounded
<1> QED BY <1>1, <1>2, <1>4, SpecInv, SpecRowInv, PTL DEF Spec
=============================================================================
