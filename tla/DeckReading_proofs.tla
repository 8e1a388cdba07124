------------------------- MODULE DeckReading_proofs -------------------------
(***************************************************************************)
(* What a program reads under a name.  First where every file of the run   *)
(* directory comes from: a program stored a part of its dictionaries in    *)
(* it.  Then what a reader still has to read and what it has, whatever is  *)
(* on the disk: TypeOK.  Then, under a name that was written whole, all of *)
(* it is from the last writer: ReadIsOneVersion.                           *)
(***************************************************************************)
EXTENDS Deck_proofs

\* A step of p, and what no step of p changes.
Move(p) == StartWrite(p) \/ Act(p) \/ Kill(p) \/ StartRead(p)
SameFor(q) == pc'[q] = pc[q] /\ todo'[q] = todo[q] /\ vt'[q] = vt[q] /\ wrote'[q] = wrote[q]

\* A program moves itself only.
LEMMA OthersRest ==
  ASSUME TypeInv, NEW p \in Programs, Move(p)
  PROVE  source' = source /\ target' = target /\ \A q \in Programs \ {p} : SameFor(q)
<1>1. CASE StartWrite(p)
  BY <1>1 DEF StartWrite, TypeInv, SameFor
<1>2. CASE Open(p)
  BY <1>2 DEF Open, Done, TypeInv, SameFor
<1>3. CASE Close(p)
  BY <1>3 DEF Close, Done, TypeInv, SameFor
<1>4. CASE Raise(p) \/ Kill(p)
  BY <1>4 DEF Raise, Kill, EndEarly, TypeInv, SameFor
<1>5. CASE StartRead(p)
  BY <1>5 DEF StartRead, TypeInv, SameFor
<1>6. CASE Read(p)
  <2>1. PICK x, y, z : /\ vt' = [vt EXCEPT ![p] = x] /\ todo' = [todo EXCEPT ![p] = y]
                       /\ pc' = [pc EXCEPT ![p] = z]
    BY <1>6 DEF Read
  <2>. QED BY <1>6, <2>1 DEF Read, TypeInv, SameFor
<1>. QED BY <1>1, <1>2, <1>3, <1>4, <1>5, <1>6 DEF Move, Act

-----------------------------------------------------------------------------

\* What q writes: its source deck, with something changed in all of it.
Copy(q) == Edited(Loaded[source[q]][1], q)
\* The pairs of functions are one of the Assignments.
Assigned == \E a \in Assignments : source = a[1] /\ target = a[2]
\* What a program has while it does not read.
Origin(q) ==
  /\ pc[q] \in {"loading", "writing", "wrote", "cut", "reading", "read", "failed"}
  /\ pc[q] # "loading" => wrote[q] = Copy(q) /\ Loaded[source[q]][3] # "raised"
  /\ pc[q] = "loading" => wrote[q] = <<>> /\ vt[q] = <<>>
  /\ pc[q] \in {"writing", "wrote", "cut"} => vt[q] = wrote[q]
  /\ pc[q] \in {"loading", "wrote", "cut", "read"} => todo[q] = <<>>
\* It writes files of what it wrote.
Working(q) ==
  pc[q] = "writing" =>
    \A i \in 1..Len(todo[q]) : todo[q][i][1] # "raise" => todo[q][i][2] \in FilesOf(wrote[q])
\* The file f is of the part of q.
FileFrom(f, q, part) ==
  /\ pc[q] # "loading" /\ part \in FilesOf(wrote[q]) /\ f = FileOf(target[q], part)
  /\ disk[f].c = Stored(wrote[q], part)
  /\ disk[f].all = Len(Written(part, Stored(wrote[q], part)))
  /\ disk[f].done \in 0..disk[f].all
OnRecord == \A f \in DOMAIN disk : \E q \in Programs : \E part : FileFrom(f, q, part)
\* No two programs work on one name.
Busy(q) == pc[q] \in {"writing", "reading"}
Apart == \A p, q \in Programs : p # q /\ target[p] = target[q] => ~Busy(p) \/ ~Busy(q)
BaseInv ==
  /\ Assigned /\ kills \in 0..MaxKills
  /\ \A q \in Programs : Origin(q) /\ Working(q)
  /\ OnRecord /\ Apart

\* What a program wrote is as the reader makes it, and can be written.
LEMMA WroteFits ==
  ASSUME LoadedAsRead, LoadedWritable, TypeInv, NEW q \in Programs, pc[q] # "loading", Origin(q)
  PROVE  /\ AsRead(wrote[q]) /\ BladesFit(wrote[q]) /\ Writable(wrote[q])
         /\ Fst \in DOMAIN wrote[q]
         /\ \A part \in DOMAIN wrote[q] : "ver" \in DOMAIN wrote[q][part] /\ wrote[q][part].ver = q
         /\ \A part : Stored(wrote[q], part).ver = q
<1>1. /\ AsRead(wrote[q]) /\ BladesFit(wrote[q]) /\ Writable(wrote[q])
      /\ wrote[q] = Edited(Loaded[source[q]][1], q)
  BY DEF Origin, Copy, LoadedAsRead, LoadedWritable, TypeInv
<1>2. /\ Fst \in DOMAIN wrote[q]
      /\ \A part \in DOMAIN wrote[q] : "ver" \in DOMAIN wrote[q][part]
  BY <1>1 DEF AsRead
<1>3. ASSUME NEW part \in DOMAIN wrote[q] PROVE wrote[q][part].ver = q
  <2>1. PICK c : wrote[q][part] = [c EXCEPT !.ver = q]
    BY <1>1 DEF Edited
  <2>. QED BY <1>2, <2>1
<1>. QED BY <1>1, <1>2, <1>3, StoredIsOf

\* A file that stays is from whom it was.
LEMMA FileStays ==
  ASSUME TypeInv, NEW p \in Programs, Move(p), NEW q \in Programs, NEW f \in DOMAIN disk, NEW part,
         FileFrom(f, q, part), q = p => pc'[q] # "loading" /\ wrote'[q] = wrote[q],
         disk'[f].c = disk[f].c, disk'[f].all = disk[f].all, disk'[f].done \in 0..disk[f].all
  PROVE  FileFrom(f, q, part)'
<1>1. target' = target /\ (q # p => SameFor(q))
  BY OthersRest
<1>2. pc'[q] # "loading" /\ wrote'[q] = wrote[q]
  BY <1>1 DEF FileFrom, SameFor
<1>. QED BY <1>1, <1>2 DEF FileFrom

\* The files of a name are those that somebody stored under it.
LEMMA UnderFrom ==
  ASSUME OnRecord, NEW n, NEW part
  PROVE  /\ Found(Under(n), part) <=> FileOf(n, part) \in DOMAIN disk
         /\ Found(Under(n), part) =>
              /\ FileAt(Under(n), part) = disk[FileOf(n, part)]
              /\ \E q \in Programs : FileFrom(FileOf(n, part), q, part)
<1>0. DOMAIN Under(n).files = {f[2] : f \in {g \in DOMAIN disk : g = FileOf(n, g[2])}}
  BY DEF Under
<1>1. FileOf(n, part)[2] = part
  BY DEF FileOf
<1>2. Found(Under(n), part) <=> FileOf(n, part) \in DOMAIN disk
  BY <1>0, <1>1 DEF Found
<1>3. ASSUME Found(Under(n), part)
      PROVE  /\ FileAt(Under(n), part) = disk[FileOf(n, part)]
             /\ \E q \in Programs : FileFrom(FileOf(n, part), q, part)
  <2>1. FileAt(Under(n), part) = disk[FileOf(n, part)]
    BY <1>0, <1>3 DEF FileAt, Found, Under
  <2>2. PICK q, other : q \in Programs /\ FileFrom(FileOf(n, part), q, other)
    BY <1>2, <1>3 DEF OnRecord
  <2>3. other = part
    BY <2>2, <1>1 DEF FileFrom, FileOf
  <2>. QED BY <2>1, <2>2, <2>3
<1>. QED BY <1>2, <1>3

\* What a program has stays while another one moves.
LEMMA OthersBase ==
  ASSUME TypeInv, NEW p \in Programs, Move(p), NEW q \in Programs \ {p}
  PROVE  (Origin(q) => Origin(q)') /\ (Working(q) => Working(q)')
<1>1. source' = source /\ SameFor(q)
  BY OthersRest
<1>. QED BY <1>1 DEF SameFor, Origin, Working, Copy

\* Who begins to work on a name is alone there.
LEMMA ApartKept ==
  ASSUME TypeInv, NEW p \in Programs, Move(p), Apart, Busy(p)' => Busy(p) \/ Alone(p)
  PROVE  Apart'
<1>1. target' = target /\ \A q \in Programs \ {p} : pc'[q] = pc[q]
  BY OthersRest DEF SameFor
<1>2. ASSUME NEW q \in Programs \ {p}, target[p] = target[q] PROVE ~Busy(p)' \/ ~Busy(q)'
  <2>1. Busy(q)' <=> Busy(q)
    BY <1>1 DEF Busy
  <2>2. CASE Busy(p)
    BY <1>2, <2>1, <2>2 DEF Apart
  <2>3. CASE Alone(p)
    BY <1>2, <2>1, <2>3 DEF Alone, Busy
  <2>. QED BY <2>2, <2>3
<1>3. ASSUME NEW q \in Programs \ {p}, NEW r \in Programs \ {p}, q # r, target[q] = target[r]
      PROVE  ~Busy(q)' \/ ~Busy(r)'
  BY <1>1, <1>3 DEF Apart, Busy
<1>. QED BY <1>1, <1>2, <1>3 DEF Apart

\* Where no file changes, every one is still from whom it was.
LEMMA OnRecordKept ==
  ASSUME TypeInv, NEW p \in Programs, Move(p), OnRecord, disk' = disk,
         pc[p] # "loading" => pc'[p] # "loading" /\ wrote'[p] = wrote[p]
  PROVE  OnRecord'
<1>1. ASSUME NEW f \in DOMAIN disk PROVE \E q \in Programs : \E part : FileFrom(f, q, part)'
  <2>1. PICK q, part : q \in Programs /\ FileFrom(f, q, part)
    BY DEF OnRecord
  <2>2. disk'[f].done \in 0..disk[f].all
    BY <2>1 DEF FileFrom
  <2>3. q = p => pc'[q] # "loading" /\ wrote'[q] = wrote[q]
    BY <2>1 DEF FileFrom
  <2>. QED BY <2>1, <2>2, <2>3, FileStays
<1>. QED BY <1>1 DEF OnRecord

\* The invariant holds initially.
LEMMA InitBase == Init => BaseInv
<1>. SUFFICES ASSUME Init PROVE BaseInv
  OBVIOUS
<1>1. \A q \in Programs : pc[q] = "loading" /\ todo[q] = <<>> /\ vt[q] = <<>> /\ wrote[q] = <<>>
  BY DEF Init
<1>2. Assigned /\ disk = <<>> /\ kills \in 0..MaxKills
  BY DeckAssumption DEF Init, Assigned, DeckAssumption
<1>3. OnRecord
  BY <1>2 DEF OnRecord
<1>. QED BY <1>1, <1>2, <1>3 DEF BaseInv, Origin, Working, Apart, Busy

\* StartWrite: all of the plan is on files of the deck.
LEMMA StartWriteBase ==
  ASSUME LoadedAsRead, LoadedWritable, DeckInv, BaseInv, NEW p \in Programs, StartWrite(p)
  PROVE  BaseInv'
<1>. PICK d : d = Copy(p)
  OBVIOUS
<1>1. /\ pc[p] = "loading" /\ Alone(p) /\ Loaded[source[p]][3] # "raised"
      /\ vt' = [vt EXCEPT ![p] = d] /\ wrote' = [wrote EXCEPT ![p] = d]
      /\ todo' = [todo EXCEPT ![p] = WritePlan(d)]
      /\ pc' = [pc EXCEPT ![p] = "writing"]
      /\ UNCHANGED <<source, target, disk, kills>>
  BY DEF StartWrite, Copy
<1>2. TypeInv /\ Move(p) /\ source[p] \in DOMAIN SourceFiles
  BY DEF DeckInv, Move, TypeInv
<1>3. Writable(d)
  BY <1>1, <1>2 DEF LoadedWritable, Copy
<1>4. /\ pc'[p] = "writing" /\ vt'[p] = d /\ wrote'[p] = d /\ todo'[p] = WritePlan(d)
      /\ Copy(p)' = d
  BY <1>1, <1>2 DEF TypeInv, Copy
<1>5. Origin(p)' /\ Working(p)'
  BY <1>1, <1>3, <1>4 DEF Origin, Working, Writable
<1>6. \A q \in Programs : Origin(q)' /\ Working(q)'
  BY <1>2, <1>5, OthersBase DEF BaseInv
<1>7. OnRecord' /\ Apart'
  BY <1>1, <1>2, OnRecordKept, ApartKept DEF BaseInv
<1>. QED BY <1>1, <1>6, <1>7 DEF BaseInv, Assigned

\* StartRead and Read change no file.
LEMMA ReadBase ==
  ASSUME DeckInv, BaseInv, NEW p \in Programs, StartRead(p) \/ Read(p)
  PROVE  BaseInv'
<1>1. TypeInv /\ Move(p)
  BY DEF DeckInv, Move, Act
<1>2. /\ pc[p] # "loading" /\ UNCHANGED <<source, target, wrote, disk, kills>>
      /\ pc'[p] \in {"reading", "read", "failed"}
      /\ pc'[p] = "read" => todo'[p] = <<>>
      /\ pc'[p] = "reading" => Busy(p) \/ Alone(p)
  <2>1. CASE StartRead(p)
    BY <1>1, <2>1 DEF StartRead, TypeInv
  <2>2. CASE Read(p)
    <3>1. PICK r : /\ vt' = [vt EXCEPT ![p] = r[1]] /\ todo' = [todo EXCEPT ![p] = r[2]]
                   /\ pc' = [pc EXCEPT ![p] = IF r[3] = "raised" THEN "failed"
                                              ELSE IF r[2] = <<>> THEN "read" ELSE "reading"]
      BY <2>2 DEF Read
    <3>2. pc'[p] = (IF r[3] = "raised" THEN "failed" ELSE IF r[2] = <<>> THEN "read" ELSE "reading")
          /\ todo'[p] = r[2]
      BY <1>1, <3>1 DEF TypeInv
    <3>. QED BY <2>2, <3>2 DEF Read, Busy
  <2>. QED BY <2>1, <2>2
<1>3. Origin(p)' /\ Working(p)'
  BY <1>2 DEF BaseInv, Origin, Working, Copy
<1>4. \A q \in Programs : Origin(q)' /\ Working(q)'
  BY <1>1, <1>3, OthersBase DEF BaseInv
<1>5. OnRecord' /\ Apart'
  BY <1>1, <1>2, OnRecordKept, ApartKept DEF BaseInv, Busy
<1>. QED BY <1>2, <1>4, <1>5 DEF BaseInv, Assigned

\* What is left of the steps is on files of the deck.
LEMMA TailSteps ==
  ASSUME NEW w, Due(w), NEW i \in 1..Len(Tail(w))
  PROVE  i + 1 \in 1..Len(w) /\ Tail(w)[i] = w[i + 1]
<1>. DEFINE All == Steps \cup MainSteps
<1>1. w \in Seq(All) /\ Len(w) > 0 /\ Len(w) \in Nat
  BY LenProperties DEF Due
<1>2. w # <<>>
  BY <1>1, EmptySeq
<1>3. /\ Tail(w) \in Seq(All) /\ Len(Tail(w)) = Len(w) - 1
      /\ \A j \in 1..Len(Tail(w)) : Tail(w)[j] = w[j + 1]
  BY <1>1, <1>2, HeadTailProperties
<1>. QED BY <1>1, <1>3

\* Open and Close: the file of the step is of a part of the deck.
LEMMA WriteBase ==
  ASSUME LoadedAsRead, LoadedWritable, DeckInv, BaseInv, NEW p \in Programs, Open(p) \/ Close(p)
  PROVE  BaseInv'
<1>1. PICK w, k, n : w = todo[p] /\ k = Head(todo[p])[2] /\ n = target[p]
  OBVIOUS
<1>2. /\ TypeInv /\ Move(p) /\ pc[p] = "writing" /\ Standing(p) /\ Origin(p) /\ Working(p)
      /\ vt[p] = wrote[p] /\ Due(w) /\ Matched(w)
  BY <1>1 DEF DeckInv, Move, Act, Open, Close, BaseInv, Standing
<1>3. /\ todo' = [todo EXCEPT ![p] = Tail(w)] /\ Head(w)[1] \in {"open", "close"}
      /\ UNCHANGED <<source, target, vt, wrote, kills>>
  BY <1>1, <1>2 DEF Open, Close, Done, Step, TypeInv
<1>4. Writable(wrote[p])
  BY <1>2, WroteFits
<1>5. k \in FilesOf(wrote[p])
  <2>1. Len(w) \in Nat /\ Len(w) > 0 /\ Head(w) = w[1]
    BY <1>2, TailDue DEF Due
  <2>2. 1 \in 1..Len(w)
    BY <2>1
  <2>. QED BY <1>1, <1>2, <1>3, <2>1, <2>2 DEF Working
<1>6. PICK c, all : c = Stored(wrote[p], k) /\ all = Len(Written(k, Stored(wrote[p], k)))
  OBVIOUS
<1>7. all \in Nat
  BY <1>4, <1>5, <1>6 DEF Writable
<1>8. PICK file : /\ disk' = With(disk, FileOf(n, k), file)
                  /\ file.c = c /\ file.all = all /\ file.done \in 0..all
  <2>1. PICK whole : whole = [c |-> c, all |-> all, done |-> all] /\ whole = Whole(k, Stored(vt[p], k))
    BY <1>2, <1>6 DEF Whole
  <2>2. CASE Open(p)
    <3>1. disk' = With(disk, FileOf(n, k), [whole EXCEPT !.done = 0])
      BY <1>1, <2>1, <2>2 DEF Open, Step
    <3>. QED BY <1>7, <2>1, <3>1
  <2>3. CASE Close(p)
    <3>1. disk' = With(disk, FileOf(n, k), whole)
      BY <1>1, <2>1, <2>3 DEF Close, Step
    <3>. QED BY <1>7, <2>1, <3>1
  <2>. QED BY <2>2, <2>3
<1>9. /\ DOMAIN disk' = DOMAIN disk \cup {FileOf(n, k)} /\ disk'[FileOf(n, k)] = file
      /\ \A f \in DOMAIN disk : f # FileOf(n, k) => disk'[f] = disk[f]
  BY <1>8 DEF With
<1>10. /\ pc'[p] \in {"writing", "wrote"} /\ (pc'[p] = "wrote" => Tail(w) = <<>>)
  <2>1. CASE Open(p)
    BY <1>2, <2>1 DEF Open
  <2>2. CASE Close(p)
    BY <1>1, <1>2, <2>2 DEF Close, TypeInv
  <2>. QED BY <2>1, <2>2
<1>11. Origin(p)' /\ Working(p)'
  <2>1. todo'[p] = Tail(w) /\ wrote'[p] = wrote[p] /\ vt'[p] = vt[p] /\ Copy(p)' = Copy(p) /\ source' = source
    BY <1>2, <1>3 DEF TypeInv, Copy
  <2>2. ASSUME NEW i \in 1..Len(Tail(w)), Tail(w)[i][1] # "raise"
        PROVE  Tail(w)[i][2] \in FilesOf(wrote[p])
    <3>1. i + 1 \in 1..Len(w) /\ Tail(w)[i] = w[i + 1]
      BY <1>2, TailSteps
    <3>. QED BY <1>1, <1>2, <2>2, <3>1 DEF Working
  <2>3. Working(p)'
    BY <2>1, <2>2 DEF Working
  <2>. QED BY <1>2, <1>10, <2>1, <2>3 DEF Origin
<1>12. \A q \in Programs : Origin(q)' /\ Working(q)'
  BY <1>2, <1>11, OthersBase DEF BaseInv
<1>13. OnRecord'
  <2>1. FileFrom(FileOf(n, k), p, k)'
    BY <1>1, <1>3, <1>5, <1>6, <1>8, <1>9, <1>10 DEF FileFrom
  <2>2. ASSUME NEW f \in DOMAIN disk, f # FileOf(n, k)
        PROVE  \E q \in Programs : \E part : FileFrom(f, q, part)'
    <3>1. PICK q, part : q \in Programs /\ FileFrom(f, q, part)
      BY DEF BaseInv, OnRecord
    <3>2. disk'[f] = disk[f] /\ disk'[f].done \in 0..disk[f].all
      BY <1>9, <2>2, <3>1 DEF FileFrom
    <3>3. q = p => pc'[q] # "loading" /\ wrote'[q] = wrote[q]
      BY <1>3, <1>10
    <3>. QED BY <1>2, <3>1, <3>2, <3>3, FileStays
  <2>. QED BY <1>9, <2>1, <2>2 DEF OnRecord
<1>14. Apart'
  BY <1>2, ApartKept DEF BaseInv, Busy
<1>. QED BY <1>3, <1>12, <1>13, <1>14 DEF BaseInv, Assigned

\* Raise and Kill: of an open file there is less than was to be written.
LEMMA EndEarlyBase ==
  ASSUME LoadedAsRead, LoadedWritable, DeckInv, BaseInv, NEW p \in Programs, Raise(p) \/ Kill(p)
  PROVE  BaseInv'
<1>1. /\ TypeInv /\ Move(p) /\ EndEarly(p) /\ pc[p] = "writing" /\ Origin(p)
      /\ UNCHANGED <<source, target, vt, wrote>>
  BY DEF DeckInv, Move, Act, Raise, Kill, BaseInv
<1>2. kills' \in 0..MaxKills
  <2>1. CASE Raise(p)
    BY <2>1 DEF Raise, BaseInv
  <2>2. CASE Kill(p)
    BY <2>2, DeckAssumption DEF Kill, BaseInv, DeckAssumption
  <2>. QED BY <2>1, <2>2
<1>3. PICK left \in [OpenFiles(p) -> 0..MostSections] :
        /\ \A f \in DOMAIN left : left[f] < disk[f].all
        /\ disk' = [f \in DOMAIN disk |-> IF f \in DOMAIN left THEN [disk[f] EXCEPT !.done = left[f]] ELSE disk[f]]
  BY <1>1 DEF EndEarly
<1>4. pc'[p] = "cut" /\ todo'[p] = <<>>
  BY <1>1 DEF EndEarly, TypeInv
<1>5. Origin(p)' /\ Working(p)'
  BY <1>1, <1>4 DEF Origin, Working, Copy
<1>6. \A q \in Programs : Origin(q)' /\ Working(q)'
  BY <1>1, <1>5, OthersBase DEF BaseInv
<1>7. OnRecord'
  <2>1. ASSUME NEW f \in DOMAIN disk PROVE \E q \in Programs : \E part : FileFrom(f, q, part)'
    <3>1. PICK q, part : q \in Programs /\ FileFrom(f, q, part)
      BY DEF BaseInv, OnRecord
    <3>2. {"c", "all", "done"} \subseteq DOMAIN disk[f] /\ disk[f].done \in 0..disk[f].all
      BY <1>1, <3>1 DEF TypeInv, FileFrom
    <3>3. disk'[f].c = disk[f].c /\ disk'[f].all = disk[f].all /\ disk'[f].done \in 0..disk[f].all
      <4>1. CASE f \in DOMAIN left
        <5>1. left[f] \in 0..MostSections /\ left[f] < disk[f].all /\ disk'[f] = [disk[f] EXCEPT !.done = left[f]]
          BY <1>3, <4>1
        <5>2. disk'[f].c = disk[f].c /\ disk'[f].all = disk[f].all /\ disk'[f].done = left[f]
          BY <3>2, <5>1
        <5>3. disk[f].all \in Int /\ left[f] \in 0..disk[f].all
          <6>1. PICK all : all = Len(Written(part, Stored(wrote[q], part))) /\ all = disk[f].all
            BY <3>1 DEF FileFrom
          <6>2. all \in Nat
            <7>1. Origin(q) /\ pc[q] # "loading" /\ part \in FilesOf(wrote[q])
              BY <3>1 DEF BaseInv, FileFrom
            <7>2. Writable(wrote[q])
              BY <1>1, <3>1, <7>1, WroteFits
            <7>. QED BY <6>1, <7>1, <7>2 DEF Writable
          <6>. QED BY <5>1, <6>1, <6>2 DEF MostSections
        <5>. QED BY <5>2, <5>3
      <4>2. CASE f \notin DOMAIN left
        BY <1>3, <3>2, <4>2
      <4>. QED BY <4>1, <4>2
    <3>4. q = p => pc'[q] # "loading" /\ wrote'[q] = wrote[q]
      BY <1>1, <1>4
    <3>. QED BY <1>1, <3>1, <3>3, <3>4, FileStays
  <2>2. DOMAIN disk' = DOMAIN disk
    BY <1>3
  <2>. QED BY <2>1, <2>2 DEF OnRecord
<1>8. Apart'
  BY <1>1, ApartKept DEF BaseInv, Busy
<1>. QED BY <1>1, <1>2, <1>6, <1>7, <1>8 DEF BaseInv, Assigned

-----------------------------------------------------------------------------

\* The kinds of which there are many parts, of which there is one part or one for each
\* blade, and of which there is one; and the keys that dictionaries have.
ManyKinds == StCKinds \cup {"Polar", "Coord"}
BladedKinds == {"EDBlade", "ADBlade", "BD", "BDBlade"}
OneKinds == (Kinds \cup {"Fst"}) \ (ManyKinds \cup BladedKinds)
Slots == (OneKinds \X {0}) \cup (ManyKinds \X (Nat \ {0})) \cup (BladedKinds \X (0..3))
\* What there is to read: a file for its own key, a file of a blade for a key of its kind
\* or for none, and the blades of BeamDyn.
BladeItems == {x \in (BladedKinds \X Nat) \X Slots : x[2] = none \/ Kind(x[2]) = Kind(x[1])}
OwnItems == {<<x, x>> : x \in Slots \ {none}}
Items == OwnItems \cup {<<Fst, none>>} \cup BladeItems
\* The files that say which blades there are, and what is said by none of them.
Roots == {<<ED, ED>>, <<AD, AD>>, <<Fst, none>>}
OwnerOf(kind) == IF kind = "EDBlade" THEN <<ED, ED>> ELSE IF kind = "ADBlade" THEN <<AD, AD>> ELSE <<Fst, none>>
Plain == {<<x, x>> : x \in {y \in Slots : Kind(y) \notin BladedKinds} \ {none, Fst, ED, AD}}

SlotsOf(s) == {s[i][2] : i \in 1..Len(s)}
Once(s, x) == \A i, j \in 1..Len(s) : s[i] = x /\ s[j] = x => i = j
OneOrEach(slots) == \A x \in slots : Kind(x) \in BladedKinds /\ <<Kind(x), 0>> \in slots => x[2] = 0
NoneOf(slots, kind) == \A x \in slots : Kind(x) # kind

\* What is in two sequences one after the other, and how often.
LEMMA ConcatOnce ==
  ASSUME NEW S, NEW a \in Seq(S), NEW b \in Seq(S)
  PROVE  /\ a \o b \in Seq(S)
         /\ \A x : Has(a \o b, x) <=> Has(a, x) \/ Has(b, x)
         /\ SlotsOf(a \o b) = SlotsOf(a) \cup SlotsOf(b)
         /\ \A x : ~Has(a, x) /\ Once(b, x) => Once(a \o b, x)
         /\ \A x : Once(a, x) /\ ~Has(b, x) => Once(a \o b, x)
<1>. SUFFICES ASSUME NEW s, s = a \o b
              PROVE  /\ s \in Seq(S)
                     /\ \A x : Has(s, x) <=> Has(a, x) \/ Has(b, x)
                     /\ SlotsOf(s) = SlotsOf(a) \cup SlotsOf(b)
                     /\ \A x : ~Has(a, x) /\ Once(b, x) => Once(s, x)
                     /\ \A x : Once(a, x) /\ ~Has(b, x) => Once(s, x)
  OBVIOUS
<1>1. /\ s \in Seq(S) /\ Len(a) \in Nat /\ Len(b) \in Nat
      /\ \A i \in 1..Len(a) : i \in 1..Len(s) /\ s[i] = a[i]
      /\ \A i \in 1..Len(b) : Len(a) + i \in 1..Len(s) /\ s[Len(a) + i] = b[i]
      /\ \A i \in 1..Len(s) : i \in 1..Len(a) \/ \E j \in 1..Len(b) : i = Len(a) + j
  BY ConcatAt
<1>2. \A x : Has(s, x) <=> Has(a, x) \/ Has(b, x)
  <2>1. ASSUME NEW x, Has(s, x) PROVE Has(a, x) \/ Has(b, x)
    <3>1. PICK i \in 1..Len(s) : s[i] = x
      BY <2>1 DEF Has
    <3>2. CASE i \in 1..Len(a)
      BY <1>1, <3>1, <3>2 DEF Has
    <3>3. ASSUME NEW j \in 1..Len(b), i = Len(a) + j PROVE Has(b, x)
      BY <1>1, <3>1, <3>3 DEF Has
    <3>. QED BY <1>1, <3>2, <3>3
  <2>2. ASSUME NEW x, Has(a, x) \/ Has(b, x) PROVE Has(s, x)
    BY <2>2, ConcatHas
  <2>. QED BY <2>1, <2>2
<1>3. SlotsOf(s) = SlotsOf(a) \cup SlotsOf(b)
  <2>1. ASSUME NEW x \in SlotsOf(s) PROVE x \in SlotsOf(a) \cup SlotsOf(b)
    <3>1. PICK i \in 1..Len(s) : x = s[i][2]
      BY DEF SlotsOf
    <3>2. CASE i \in 1..Len(a)
      BY <1>1, <3>1, <3>2 DEF SlotsOf
    <3>3. ASSUME NEW j \in 1..Len(b), i = Len(a) + j PROVE x \in SlotsOf(b)
      BY <1>1, <3>1, <3>3 DEF SlotsOf
    <3>. QED BY <1>1, <3>2, <3>3
  <2>2. ASSUME NEW x \in SlotsOf(a) PROVE x \in SlotsOf(s)
    BY <1>1 DEF SlotsOf
  <2>3. ASSUME NEW x \in SlotsOf(b) PROVE x \in SlotsOf(s)
    <3>1. PICK i \in 1..Len(b) : x = b[i][2]
      BY DEF SlotsOf
    <3>2. Len(a) + i \in 1..Len(s) /\ s[Len(a) + i][2] = x
      BY <1>1, <3>1
    <3>. QED BY <3>2 DEF SlotsOf
  <2>. QED BY <2>1, <2>2, <2>3
<1>4. ASSUME NEW x, ~Has(a, x), NEW i \in 1..Len(s), s[i] = x
      PROVE  \E k \in 1..Len(b) : i = Len(a) + k /\ b[k] = x
  BY <1>1, <1>4 DEF Has
<1>5. ASSUME NEW x, ~Has(a, x), Once(b, x), NEW i \in 1..Len(s), NEW j \in 1..Len(s), s[i] = x, s[j] = x
      PROVE  i = j
  <2>1. PICK k \in 1..Len(b) : i = Len(a) + k /\ b[k] = x
    BY <1>4, <1>5
  <2>2. PICK l \in 1..Len(b) : j = Len(a) + l /\ b[l] = x
    BY <1>4, <1>5
  <2>. QED BY <1>5, <2>1, <2>2 DEF Once
<1>6. ASSUME NEW x, ~Has(b, x), NEW i \in 1..Len(s), s[i] = x PROVE i \in 1..Len(a) /\ a[i] = x
  <2>1. ASSUME NEW k \in 1..Len(b), i = Len(a) + k PROVE FALSE
    BY <1>1, <1>6, <2>1 DEF Has
  <2>. QED BY <1>1, <1>6, <2>1
<1>7. ASSUME NEW x, ~Has(b, x), Once(a, x), NEW i \in 1..Len(s), NEW j \in 1..Len(s), s[i] = x, s[j] = x
      PROVE  i = j
  BY <1>6, <1>7 DEF Once
<1>8. \A x : ~Has(a, x) /\ Once(b, x) => Once(s, x)
  BY <1>5 DEF Once
<1>9. \A x : Once(a, x) /\ ~Has(b, x) => Once(s, x)
  BY <1>7 DEF Once
<1>. QED BY <1>1, <1>2, <1>3, <1>8, <1>9

\* What is in a sequence after its head is gone.
LEMMA TailOnce ==
  ASSUME NEW S, NEW s \in Seq(S), s # <<>>
  PROVE  /\ Head(s) \in S /\ Tail(s) \in Seq(S) /\ Has(s, Head(s)) /\ Head(s)[2] \in SlotsOf(s)
         /\ \A x : Has(s, x) <=> x = Head(s) \/ Has(Tail(s), x)
         /\ \A x : Has(Tail(s), x) /\ Once(s, x) => x # Head(s) /\ Once(Tail(s), x)
         /\ SlotsOf(Tail(s)) \subseteq SlotsOf(s)
         /\ Len(s) = 1 => Tail(s) = <<>>
<1>. SUFFICES ASSUME NEW t, NEW h, t = Tail(s), h = Head(s)
              PROVE  /\ h \in S /\ t \in Seq(S) /\ Has(s, h) /\ h[2] \in SlotsOf(s)
                     /\ \A x : Has(s, x) <=> x = h \/ Has(t, x)
                     /\ \A x : Has(t, x) /\ Once(s, x) => x # h /\ Once(t, x)
                     /\ SlotsOf(t) \subseteq SlotsOf(s)
                     /\ Len(s) = 1 => t = <<>>
  OBVIOUS
<1>1. /\ h = s[1] /\ h \in S /\ t \in Seq(S) /\ Len(t) = Len(s) - 1 /\ Len(s) \in Nat /\ Len(s) > 0
      /\ \A i \in 1..Len(t) : t[i] = s[i + 1]
  BY HeadTailProperties, LenProperties, EmptySeq
<1>2. PICK n \in Nat : n = Len(t) /\ Len(s) = n + 1
  <2>1. Len(s) - 1 \in Nat /\ Len(s) = (Len(s) - 1) + 1
    BY <1>1
  <2>. QED BY <1>1, <2>1
<1>3. \A i \in 1..n : i + 1 \in 1..Len(s) /\ t[i] = s[i + 1]
  BY <1>1, <1>2
<1>4. 1 \in 1..Len(s)
  BY <1>1
<1>5. Has(s, h) /\ h[2] \in SlotsOf(s)
  BY <1>1, <1>4 DEF Has, SlotsOf
<1>6. ASSUME NEW i \in 1..Len(s) PROVE i = 1 \/ \E k \in 1..n : i = k + 1
  <2>1. i = 1 \/ (i - 1 \in 1..n /\ i = (i - 1) + 1)
    BY <1>2
  <2>. QED BY <2>1
<1>7. ASSUME NEW x PROVE Has(s, x) <=> x = h \/ Has(t, x)
  <2>1. ASSUME Has(s, x), x # h PROVE Has(t, x)
    <3>1. PICK i \in 1..Len(s) : s[i] = x
      BY <2>1 DEF Has
    <3>2. PICK k \in 1..n : i = k + 1
      BY <1>1, <1>6, <2>1, <3>1
    <3>. QED BY <1>2, <1>3, <3>1, <3>2 DEF Has
  <2>2. ASSUME Has(t, x) PROVE Has(s, x)
    BY <1>2, <1>3, <2>2 DEF Has
  <2>. QED BY <1>5, <2>1, <2>2
<1>8. ASSUME NEW x, Has(t, x), Once(s, x) PROVE x # h /\ Once(t, x)
  <2>1. PICK k \in 1..n : t[k] = x
    BY <1>2, <1>8 DEF Has
  <2>2. x # h
    BY <1>1, <1>3, <1>4, <1>8, <2>1 DEF Once
  <2>3. ASSUME NEW i \in 1..n, NEW j \in 1..n, t[i] = x, t[j] = x PROVE i = j
    <3>1. i + 1 = j + 1
      BY <1>3, <1>8, <2>3 DEF Once
    <3>. QED BY <3>1
  <2>. QED BY <1>2, <2>2, <2>3 DEF Once
<1>9. SlotsOf(t) \subseteq SlotsOf(s)
  BY <1>2, <1>3 DEF SlotsOf
<1>10. Len(s) = 1 => t = <<>>
  BY <1>1, <1>2, EmptySeq
<1>. QED BY <1>1, <1>5, <1>7, <1>8, <1>9, <1>10

\* Contents that somebody stored, and dictionaries of such.
Typed(part, c) ==
  /\ c.ver \in Programs \cup {Incomplete}
  /\ part \in {Fst, ED, AD} => c.files \in [1..3 -> Nat]
  /\ part = AD => c.NumAFfiles \in Nat /\ c.coords \in Seq(Nat \ {0})
  /\ part = SrvD => {c.NStC, c.BStC, c.TStC, c.SStC} \subseteq Nat
HasRead(d) ==
  /\ \A part \in DOMAIN d : part \in Slots /\ Typed(part, d[part])
  /\ OneOrEach(DOMAIN d)
\* What a reader has, and what it still has to read: of the blades of a kind there is
\* nothing before the file that says which there are.
Reads(d, s) ==
  /\ s \in Seq(Items)
  /\ \A part \in DOMAIN d : part \in Slots /\ Typed(part, d[part])
  /\ OneOrEach(DOMAIN d \cup SlotsOf(s))
  /\ \A kind \in BladedKinds : Has(s, OwnerOf(kind)) =>
       Once(s, OwnerOf(kind)) /\ NoneOf(DOMAIN d \cup SlotsOf(s), kind)
  /\ Has(s, <<Fst, none>>) => Fst \in DOMAIN d
  /\ Has(s, <<Fst, Fst>>) => Len(s) = 1 /\ DOMAIN d = {}
\* What is read next because of the item head.
Leaves == Items \ (Roots \cup {<<Fst, Fst>>})
Fit(s, head) ==
  /\ s \in Seq(Leaves) /\ OneOrEach(SlotsOf(s))
  /\ \A x \in SlotsOf(s) : Kind(x) \in BladedKinds => OwnerOf(Kind(x)) = head

\* The names of these sets.
LEMMA ItemKinds ==
  /\ Plain \subseteq Leaves /\ BladeItems \subseteq Leaves /\ Leaves \subseteq Items
  /\ \A x \in Items : x[2] \in Slots
  /\ \A x \in Plain : Kind(x[2]) \notin BladedKinds
  /\ none \in Slots /\ Fst \in Slots /\ Kind(none) \notin BladedKinds
  /\ \A kind \in BladedKinds : OwnerOf(kind) \in Roots
  /\ <<Fst, Fst>> \in Items
<1>1. none \in Slots /\ Fst \in Slots /\ Kind(none) \notin BladedKinds /\ Fst # none
  BY DEF none, Fst, Slots, OneKinds, ManyKinds, BladedKinds, StCKinds, Kinds, Kind
<1>2. \A x \in Items : x[2] \in Slots
  BY <1>1 DEF Items, OwnItems, BladeItems
<1>3. \A kind \in BladedKinds : OwnerOf(kind) \in Roots
  BY DEF OwnerOf, Roots
<1>4. Plain \subseteq Leaves
  <2>1. ASSUME NEW x \in {y \in Slots : Kind(y) \notin BladedKinds} \ {none, Fst, ED, AD}
        PROVE  <<x, x>> \in Leaves
    <3>1. <<x, x>> \in Items
      BY <2>1 DEF Items, OwnItems
    <3>2. <<x, x>> \notin Roots \cup {<<Fst, Fst>>}
      BY <2>1 DEF Roots
    <3>. QED BY <3>1, <3>2 DEF Leaves
  <2>. QED BY <2>1 DEF Plain
<1>5. BladeItems \subseteq Leaves
  <2>1. ASSUME NEW x \in BladeItems PROVE x \in Leaves
    <3>1. x \in Items /\ x[1][1] \in BladedKinds
      BY DEF Items, BladeItems
    <3>2. x \notin Roots \cup {<<Fst, Fst>>}
      BY <3>1 DEF Roots, ED, AD, Fst, BladedKinds
    <3>. QED BY <3>1, <3>2 DEF Leaves
  <2>. QED BY <2>1
<1>6. \A x \in Plain : Kind(x[2]) \notin BladedKinds
  BY DEF Plain
<1>7. <<Fst, Fst>> \in Items
  BY <1>1 DEF Items, OwnItems
<1>. QED BY <1>1, <1>2, <1>3, <1>4, <1>5, <1>6, <1>7 DEF Leaves

\* What is read next may be followed by files that are not of blades.
LEMMA FitPlain ==
  ASSUME NEW a, NEW b \in Seq(Plain), NEW head, Fit(a, head)
  PROVE  Fit(a \o b, head)
<1>1. a \in Seq(Leaves) /\ b \in Seq(Leaves)
  BY ItemKinds DEF Fit
<1>2. a \o b \in Seq(Leaves) /\ SlotsOf(a \o b) = SlotsOf(a) \cup SlotsOf(b)
  BY <1>1, ConcatOnce
<1>3. \A x \in SlotsOf(b) : Kind(x) \notin BladedKinds
  <2>1. \A i \in 1..Len(b) : b[i] \in Plain
    BY ElementOfSeq
  <2>. QED BY <2>1, ItemKinds DEF SlotsOf
<1>4. OneOrEach(SlotsOf(a) \cup SlotsOf(b))
  <2>1. ASSUME NEW x \in SlotsOf(a), <<Kind(x), 0>> \in SlotsOf(b), Kind(x) \in BladedKinds PROVE FALSE
    BY <1>3, <2>1 DEF Kind
  <2>. QED BY <1>3, <2>1 DEF Fit, OneOrEach
<1>. QED BY <1>2, <1>3, <1>4 DEF Fit

\* Reading an item that is not the main file.
LEMMA ReadsOn ==
  ASSUME NEW d, NEW s, Reads(d, s), s # <<>>, Head(s) # <<Fst, Fst>>,
         NEW e, NEW next, Fit(next, Head(s)),
         DOMAIN d \subseteq DOMAIN e, DOMAIN e \subseteq DOMAIN d \cup {Head(s)[2]},
         \A part \in DOMAIN e : part \in Slots /\ Typed(part, e[part])
  PROVE  Reads(e, next \o Tail(s))
<1>1. PICK h, t, u : h = Head(s) /\ t = Tail(s) /\ u = DOMAIN d \cup SlotsOf(s)
  OBVIOUS
<1>2. /\ s \in Seq(Items) /\ t \in Seq(Items) /\ h[2] \in SlotsOf(s)
      /\ \A x : Has(s, x) <=> x = h \/ Has(t, x)
      /\ \A x : Has(t, x) /\ Once(s, x) => x # h /\ Once(t, x)
      /\ SlotsOf(t) \subseteq SlotsOf(s)
      /\ Len(s) = 1 => t = <<>>
  BY <1>1, TailOnce DEF Reads
<1>3. next \in Seq(Leaves) /\ next \in Seq(Items)
  BY ItemKinds DEF Fit
<1>4. PICK r : r = next \o t
  OBVIOUS
<1>5. /\ r \in Seq(Items)
      /\ \A x : Has(r, x) <=> Has(next, x) \/ Has(t, x)
      /\ SlotsOf(r) = SlotsOf(next) \cup SlotsOf(t)
      /\ \A x : ~Has(next, x) /\ Once(t, x) => Once(r, x)
  BY <1>2, <1>3, <1>4, ConcatOnce
<1>6. \A x \in Roots \cup {<<Fst, Fst>>} : ~Has(next, x)
  <2>1. \A i \in 1..Len(next) : next[i] \in Leaves
    BY <1>3, ElementOfSeq
  <2>. QED BY <2>1 DEF Has, Leaves
<1>7. DOMAIN e \cup SlotsOf(r) \subseteq u \cup SlotsOf(next)
  BY <1>1, <1>2, <1>5
<1>8. OneOrEach(u) /\ OneOrEach(SlotsOf(next))
  BY <1>1 DEF Reads, Fit
<1>9. ASSUME NEW x \in SlotsOf(next), Kind(x) \in BladedKinds PROVE NoneOf(u, Kind(x))
  <2>1. OwnerOf(Kind(x)) = h /\ Has(s, h)
    BY <1>1, <1>2, <1>9 DEF Fit
  <2>. QED BY <1>1, <1>9, <2>1 DEF Reads
<1>10. OneOrEach(u \cup SlotsOf(next))
  <2>1. ASSUME NEW x \in u, Kind(x) \in BladedKinds, <<Kind(x), 0>> \in SlotsOf(next) PROVE FALSE
    <3>1. Kind(<<Kind(x), 0>>) = Kind(x)
      BY DEF Kind
    <3>2. NoneOf(u, Kind(x))
      BY <1>9, <2>1, <3>1
    <3>. QED BY <3>2 DEF NoneOf
  <2>2. ASSUME NEW x \in SlotsOf(next), Kind(x) \in BladedKinds, <<Kind(x), 0>> \in u PROVE FALSE
    <3>1. Kind(<<Kind(x), 0>>) = Kind(x)
      BY DEF Kind
    <3>. QED BY <1>9, <2>2, <3>1 DEF NoneOf
  <2>. QED BY <1>8, <2>1, <2>2 DEF OneOrEach
<1>11. OneOrEach(DOMAIN e \cup SlotsOf(r))
  BY <1>7, <1>10 DEF OneOrEach
<1>12. ASSUME NEW kind \in BladedKinds, Has(r, OwnerOf(kind))
       PROVE  Once(r, OwnerOf(kind)) /\ NoneOf(DOMAIN e \cup SlotsOf(r), kind)
  <2>1. PICK o : o = OwnerOf(kind)
    OBVIOUS
  <2>2. o \in Roots /\ ~Has(next, o) /\ Has(t, o) /\ Has(s, o)
    BY <1>2, <1>5, <1>6, <1>12, <2>1, ItemKinds
  <2>3. Once(s, o) /\ NoneOf(u, kind)
    BY <1>1, <2>1, <2>2 DEF Reads
  <2>4. o # h /\ Once(r, o)
    BY <1>2, <1>5, <2>2, <2>3
  <2>5. NoneOf(SlotsOf(next), kind)
    BY <1>1, <2>1, <2>4 DEF NoneOf, Fit
  <2>. QED BY <1>7, <2>1, <2>3, <2>4, <2>5 DEF NoneOf
<1>13. ~Has(r, <<Fst, Fst>>)
  <2>1. SUFFICES ASSUME Has(t, <<Fst, Fst>>) PROVE FALSE
    BY <1>5, <1>6
  <2>2. t = <<>>
    BY <1>2, <2>1 DEF Reads
  <2>. QED BY <2>1, <2>2, EmptySeq DEF Has
<1>14. Has(r, <<Fst, none>>) => Fst \in DOMAIN e
  BY <1>1, <1>2, <1>5, <1>6 DEF Reads, Roots
<1>. QED BY <1>1, <1>4, <1>5, <1>11, <1>12, <1>13, <1>14 DEF Reads

\* A sequence is one of what is in it, and has the keys of that.
LEMMA SeqHas ==
  ASSUME NEW S, NEW s \in Seq(S)
  PROVE  /\ \A x : Has(s, x) => x \in S
         /\ \A T : (\A x : Has(s, x) => x \in T) => s \in Seq(T)
         /\ \A y : y \in SlotsOf(s) <=> \E x : Has(s, x) /\ y = x[2]
<1>1. Len(s) \in Nat /\ \A i \in 1..Len(s) : s[i] \in S
  BY LenProperties, ElementOfSeq
<1>2. \A i \in 1..Len(s) : Has(s, s[i])
  BY DEF Has
<1>3. ASSUME NEW T, \A x : Has(s, x) => x \in T PROVE s \in Seq(T)
  <2>1. s = [i \in 1..Len(s) |-> s[i]]
    BY LenProperties
  <2>2. \A i \in 1..Len(s) : s[i] \in T
    BY <1>2, <1>3
  <2>. QED BY <1>1, <2>1, <2>2
<1>4. \A y : y \in SlotsOf(s) <=> \E x : Has(s, x) /\ y = x[2]
  BY DEF SlotsOf, Has
<1>. QED BY <1>1, <1>3, <1>4 DEF Has

\* What is read next, if the keys that it may have are known.
LEMMA FitIn ==
  ASSUME NEW s \in Seq(Leaves), NEW slots, NEW head, SlotsOf(s) \subseteq slots, OneOrEach(slots),
         \A x \in slots : Kind(x) \in BladedKinds => OwnerOf(Kind(x)) = head
  PROVE  Fit(s, head)
BY DEF Fit, OneOrEach

\* Sequences of no item, of one, and of the items of a list of files.
LEMMA FewHave ==
  /\ \A x : ~Has(<<>>, x) /\ Once(<<>>, x)
  /\ \A S, y : y \in S => <<y>> \in Seq(S)
  /\ \A y, x : (Has(<<y>>, x) <=> x = y) /\ Once(<<y>>, x)
  /\ \A S : <<>> \in Seq(S)
BY DEF Has, Once

\* An item there is on a condition.
LEMMA PartHas ==
  ASSUME NEW S, NEW y \in S, NEW cond \in BOOLEAN
  PROVE  /\ Part(cond, <<y>>) \in Seq(S)
         /\ \A x : (Has(Part(cond, <<y>>), x) <=> cond /\ x = y) /\ Once(Part(cond, <<y>>), x)
BY FewHave DEF Part

\* Every file is read for its own key.
LEMMA ItselfHas ==
  ASSUME NEW S, NEW s \in Seq(S)
  PROVE  /\ Itself(s) \in Seq({<<x, x>> : x \in S})
         /\ Len(Itself(s)) = Len(s)
         /\ \A y : Has(Itself(s), y) <=> \E x : y = <<x, x>> /\ Has(s, x)
         /\ \A x : Once(s, x) => Once(Itself(s), <<x, x>>)
<1>1. Len(s) \in Nat /\ \A i \in 1..Len(s) : s[i] \in S
  BY LenProperties, ElementOfSeq
<1>2. /\ Itself(s) \in Seq({<<x, x>> : x \in S}) /\ Len(Itself(s)) = Len(s)
      /\ \A i \in 1..Len(s) : Itself(s)[i] = <<s[i], s[i]>>
  BY <1>1 DEF Itself
<1>3. \A y : Has(Itself(s), y) <=> \E x : y = <<x, x>> /\ Has(s, x)
  BY <1>2 DEF Has
<1>4. \A x : Once(s, x) => Once(Itself(s), <<x, x>>)
  BY <1>2 DEF Once
<1>. QED BY <1>2, <1>3, <1>4

\* Parts of which there is one have a key, and so have those of which there are many.
PlainParts == {y \in Slots : Kind(y) \notin BladedKinds} \ {none, Fst, ED, AD}
LEMMA PartSlots ==
  /\ Single \subseteq Slots /\ Single \ {ED, AD} \subseteq PlainParts
  /\ ManyKinds \X (Nat \ {0}) \subseteq PlainParts
  /\ {<<x, x>> : x \in PlainParts} = Plain
  /\ \A x \in Single : Kind(x) \notin BladedKinds /\ x # none /\ x # Fst
<1>1. ASSUME NEW x \in Single
      PROVE  x \in Slots /\ Kind(x) \notin BladedKinds /\ x # none /\ x # Fst
  <2>1. \E kind \in OneKinds \ {"none", "Fst"} : x = <<kind, 0>>
    BY DEF Single, OneKinds, Kinds, ManyKinds, StCKinds, BladedKinds,
           ED, SED, Tower, IfW, AD, OLAF, ADsk, ADskProp, SrvD, DISCON, SpdTrq, HD, SeaSt, SubD, ExtP, SE,
           Conn, UserF, ConnF, MAP, MD, WK
  <2>2. PICK kind \in OneKinds \ {"none", "Fst"} : x = <<kind, 0>>
    BY <2>1
  <2>. QED BY <2>2 DEF Slots, OneKinds, Kind, none, Fst
<1>2. ASSUME NEW x \in ManyKinds \X (Nat \ {0}) PROVE x \in PlainParts
  <2>1. x \in Slots /\ Kind(x) \notin BladedKinds
    BY DEF Slots, Kind, ManyKinds, StCKinds, BladedKinds
  <2>2. x[2] # 0 /\ none[2] = 0 /\ Fst[2] = 0 /\ ED[2] = 0 /\ AD[2] = 0
    BY DEF none, Fst, ED, AD
  <2>. QED BY <2>1, <2>2 DEF PlainParts
<1>. QED BY <1>1, <1>2 DEF PlainParts, Plain

\* As many parts as a count says, and the airfoils with coordinates.
LEMMA ManyHave ==
  /\ \A kind \in ManyKinds, n \in Nat :
       /\ Several(kind, n) \in Seq(PlainParts)
       /\ \A x : Has(Several(kind, n), x) <=> \E i \in 1..n : x = <<kind, i>>
  /\ \A c : c.coords \in Seq(Nat \ {0}) =>
       /\ Coordinates(c) \in Seq(PlainParts)
       /\ \A x : Has(Coordinates(c), x) <=> \E i \in 1..Len(c.coords) : x = <<"Coord", c.coords[i]>>
<1>1. ASSUME NEW kind \in ManyKinds, NEW n \in Nat
      PROVE  /\ Several(kind, n) \in Seq(PlainParts)
             /\ \A x : Has(Several(kind, n), x) <=> \E i \in 1..n : x = <<kind, i>>
  <2>1. \A i \in 1..n : <<kind, i>> \in PlainParts
    BY PartSlots
  <2>2. Several(kind, n) \in Seq(PlainParts) /\ Len(Several(kind, n)) = n
    BY <2>1 DEF Several
  <2>. QED BY <2>2 DEF Has, Several
<1>2. ASSUME NEW c, c.coords \in Seq(Nat \ {0})
      PROVE  /\ Coordinates(c) \in Seq(PlainParts)
             /\ \A x : Has(Coordinates(c), x) <=> \E i \in 1..Len(c.coords) : x = <<"Coord", c.coords[i]>>
  <2>1. Len(c.coords) \in Nat /\ \A i \in 1..Len(c.coords) : c.coords[i] \in Nat \ {0}
    BY <1>2, LenProperties, ElementOfSeq
  <2>2. \A i \in 1..Len(c.coords) : <<"Coord", c.coords[i]>> \in PlainParts
    BY <2>1, PartSlots DEF ManyKinds
  <2>3. Coordinates(c) \in Seq(PlainParts) /\ Len(Coordinates(c)) = Len(c.coords)
    BY <2>1, <2>2 DEF Coordinates
  <2>. QED BY <2>3 DEF Has, Coordinates
<1>. QED BY <1>1, <1>2

\* Two lists of single parts, of which not both have ElastoDyn or AeroDyn.
LEMMA Joined ==
  ASSUME NEW a \in Seq(Single), NEW b \in Seq(Single), \A x \in {ED, AD} : ~Has(a, x) \/ ~Has(b, x),
         \A x \in {ED, AD} : Once(a, x) /\ Once(b, x)
  PROVE  /\ a \o b \in Seq(Single) /\ Once(a \o b, ED) /\ Once(a \o b, AD)
         /\ \A x : Has(a \o b, x) <=> Has(a, x) \/ Has(b, x)
BY ConcatOnce

\* The files that are read because the main file asks for them.
InMain(at, c, y) ==
  \/ c.CompElast = 3 /\ y = SED
  \/ c.CompElast # 3 /\ y = ED
  \/ c.CompInflow = 1 /\ y = IfW
  \/ c.CompAero = 1 /\ y = ADsk
  \/ c.CompAero = 2 /\ y = AD
  \/ c.CompServo = 1 /\ y = SrvD
  \/ c.CompHydro = 1 /\ y = HD
  \/ c.CompSeaSt = 1 /\ y = SeaSt
  \/ c.CompSub = 1 /\ y = SubD
  \/ c.CompSub = 2 /\ y = ExtP
  \/ c.CompMooring = 1 /\ Found(at, MAP) /\ y = MAP
  \/ c.CompMooring = 3 /\ Found(at, MD) /\ y = MD

\* They are read once, and then the blades of BeamDyn (execute).
LEMMA FromMainHas ==
  ASSUME NEW at, NEW c
  PROVE  /\ FromMain(at, c) \in Seq(Items) /\ FromMain(at, c) # <<>>
         /\ \A z : Has(FromMain(at, c), z) <=> z = <<Fst, none>> \/ \E y : z = <<y, y>> /\ InMain(at, c, y)
         /\ \A z \in Roots : Once(FromMain(at, c), z)
<1>1. /\ {SED, ED, IfW, ADsk, AD, SrvD, HD, SeaSt, SubD, ExtP, MAP, MD} \subseteq Single
      /\ {SED, IfW, ADsk, SrvD, HD, SeaSt, SubD, ExtP, MAP, MD} \cap {ED, AD} = {} /\ ED # AD
  BY DEF Single, SED, ED, IfW, ADsk, AD, SrvD, HD, SeaSt, SubD, ExtP, MAP, MD
<1>0. {SED, ED, IfW, ADsk, AD, SrvD, HD, SeaSt, SubD, ExtP} \subseteq Single
  BY <1>1
<1>2. PICK w0 : w0 = IF c.CompElast = 3 THEN <<SED>> ELSE <<ED>>
  OBVIOUS
<1>3. /\ w0 \in Seq(Single) /\ Once(w0, ED) /\ Once(w0, AD)
      /\ \A y : Has(w0, y) <=> (c.CompElast = 3 /\ y = SED) \/ (c.CompElast # 3 /\ y = ED)
  <2>1. CASE c.CompElast = 3
    BY <1>1, <1>2, <2>1, FewHave
  <2>2. CASE c.CompElast # 3
    BY <1>1, <1>2, <2>2, FewHave
  <2>. QED BY <2>1, <2>2
<1>4. PICK a1, w1 : a1 = Part(c.CompInflow = 1, <<IfW>>) /\ w1 = w0 \o a1
  OBVIOUS
<1>5. /\ w1 \in Seq(Single) /\ Once(w1, ED) /\ Once(w1, AD)
      /\ \A y : Has(w1, y) <=> Has(w0, y) \/ (c.CompInflow = 1 /\ y = IfW)
  <2>1. a1 \in Seq(Single) /\ \A y : (Has(a1, y) <=> c.CompInflow = 1 /\ y = IfW) /\ Once(a1, y)
    BY <1>0, <1>1, <1>4, PartHas
  <2>2. \A x \in {ED, AD} : ~Has(w0, x) \/ ~Has(a1, x)
    BY <1>1, <2>1
  <2>3. /\ w1 \in Seq(Single) /\ Once(w1, ED) /\ Once(w1, AD)
        /\ \A x : Has(w1, x) <=> Has(w0, x) \/ Has(a1, x)
    BY <1>3, <1>4, <2>1, <2>2, Joined
  <2>. QED BY <2>1, <2>3
<1>6. PICK a2, w2 : a2 = Part(c.CompAero = 1, <<ADsk>>) /\ w2 = w1 \o a2
  OBVIOUS
<1>7. /\ w2 \in Seq(Single) /\ Once(w2, ED) /\ Once(w2, AD)
      /\ \A y : Has(w2, y) <=> Has(w1, y) \/ (c.CompAero = 1 /\ y = ADsk)
  <2>1. a2 \in Seq(Single) /\ \A y : (Has(a2, y) <=> c.CompAero = 1 /\ y = ADsk) /\ Once(a2, y)
    BY <1>0, <1>1, <1>6, PartHas
  <2>2. \A x \in {ED, AD} : ~Has(w1, x) \/ ~Has(a2, x)
    BY <1>1, <2>1
  <2>3. /\ w2 \in Seq(Single) /\ Once(w2, ED) /\ Once(w2, AD)
        /\ \A x : Has(w2, x) <=> Has(w1, x) \/ Has(a2, x)
    BY <1>5, <1>6, <2>1, <2>2, Joined
  <2>. QED BY <2>1, <2>3
<1>8. PICK a3, w3 : a3 = Part(c.CompAero = 2, <<AD>>) /\ w3 = w2 \o a3
  OBVIOUS
<1>9. /\ w3 \in Seq(Single) /\ Once(w3, ED) /\ Once(w3, AD)
      /\ \A y : Has(w3, y) <=> Has(w2, y) \/ (c.CompAero = 2 /\ y = AD)
  <2>1. a3 \in Seq(Single) /\ \A y : (Has(a3, y) <=> c.CompAero = 2 /\ y = AD) /\ Once(a3, y)
    <3>1. AD \in Single /\ (c.CompAero = 2) \in BOOLEAN
      BY <1>0
    <3>. QED BY <1>8, <3>1, PartHas
  <2>2. \A x \in {ED, AD} : ~Has(w2, x) \/ ~Has(a3, x)
    BY <1>1, <2>1, <1>3, <1>5, <1>7
  <2>3. /\ w3 \in Seq(Single) /\ Once(w3, ED) /\ Once(w3, AD)
        /\ \A x : Has(w3, x) <=> Has(w2, x) \/ Has(a3, x)
    BY <1>7, <1>8, <2>1, <2>2, Joined
  <2>. QED BY <2>1, <2>3
<1>10. PICK a4, w4 : a4 = Part(c.CompServo = 1, <<SrvD>>) /\ w4 = w3 \o a4
  OBVIOUS
<1>11. /\ w4 \in Seq(Single) /\ Once(w4, ED) /\ Once(w4, AD)
      /\ \A y : Has(w4, y) <=> Has(w3, y) \/ (c.CompServo = 1 /\ y = SrvD)
  <2>1. a4 \in Seq(Single) /\ \A y : (Has(a4, y) <=> c.CompServo = 1 /\ y = SrvD) /\ Once(a4, y)
    BY <1>0, <1>1, <1>10, PartHas
  <2>2. \A x \in {ED, AD} : ~Has(w3, x) \/ ~Has(a4, x)
    BY <1>1, <2>1
  <2>3. /\ w4 \in Seq(Single) /\ Once(w4, ED) /\ Once(w4, AD)
        /\ \A x : Has(w4, x) <=> Has(w3, x) \/ Has(a4, x)
    BY <1>9, <1>10, <2>1, <2>2, Joined
  <2>. QED BY <2>1, <2>3
<1>12. PICK a5, w5 : a5 = Part(c.CompHydro = 1, <<HD>>) /\ w5 = w4 \o a5
  OBVIOUS
<1>13. /\ w5 \in Seq(Single) /\ Once(w5, ED) /\ Once(w5, AD)
      /\ \A y : Has(w5, y) <=> Has(w4, y) \/ (c.CompHydro = 1 /\ y = HD)
  <2>1. a5 \in Seq(Single) /\ \A y : (Has(a5, y) <=> c.CompHydro = 1 /\ y = HD) /\ Once(a5, y)
    BY <1>0, <1>1, <1>12, PartHas
  <2>2. \A x \in {ED, AD} : ~Has(w4, x) \/ ~Has(a5, x)
    BY <1>1, <2>1
  <2>3. /\ w5 \in Seq(Single) /\ Once(w5, ED) /\ Once(w5, AD)
        /\ \A x : Has(w5, x) <=> Has(w4, x) \/ Has(a5, x)
    BY <1>11, <1>12, <2>1, <2>2, Joined
  <2>. QED BY <2>1, <2>3
<1>14. PICK a6, w6 : a6 = Part(c.CompSeaSt = 1, <<SeaSt>>) /\ w6 = w5 \o a6
  OBVIOUS
<1>15. /\ w6 \in Seq(Single) /\ Once(w6, ED) /\ Once(w6, AD)
      /\ \A y : Has(w6, y) <=> Has(w5, y) \/ (c.CompSeaSt = 1 /\ y = SeaSt)
  <2>1. a6 \in Seq(Single) /\ \A y : (Has(a6, y) <=> c.CompSeaSt = 1 /\ y = SeaSt) /\ Once(a6, y)
    BY <1>0, <1>1, <1>14, PartHas
  <2>2. \A x \in {ED, AD} : ~Has(w5, x) \/ ~Has(a6, x)
    BY <1>1, <2>1
  <2>3. /\ w6 \in Seq(Single) /\ Once(w6, ED) /\ Once(w6, AD)
        /\ \A x : Has(w6, x) <=> Has(w5, x) \/ Has(a6, x)
    BY <1>13, <1>14, <2>1, <2>2, Joined
  <2>. QED BY <2>1, <2>3
<1>16. PICK a7, w7 : a7 = Part(c.CompSub = 1, <<SubD>>) /\ w7 = w6 \o a7
  OBVIOUS
<1>17. /\ w7 \in Seq(Single) /\ Once(w7, ED) /\ Once(w7, AD)
      /\ \A y : Has(w7, y) <=> Has(w6, y) \/ (c.CompSub = 1 /\ y = SubD)
  <2>1. a7 \in Seq(Single) /\ \A y : (Has(a7, y) <=> c.CompSub = 1 /\ y = SubD) /\ Once(a7, y)
    BY <1>0, <1>1, <1>16, PartHas
  <2>2. \A x \in {ED, AD} : ~Has(w6, x) \/ ~Has(a7, x)
    BY <1>1, <2>1
  <2>3. /\ w7 \in Seq(Single) /\ Once(w7, ED) /\ Once(w7, AD)
        /\ \A x : Has(w7, x) <=> Has(w6, x) \/ Has(a7, x)
    BY <1>15, <1>16, <2>1, <2>2, Joined
  <2>. QED BY <2>1, <2>3
<1>18. PICK a8, w8 : a8 = Part(c.CompSub = 2, <<ExtP>>) /\ w8 = w7 \o a8
  OBVIOUS
<1>19. /\ w8 \in Seq(Single) /\ Once(w8, ED) /\ Once(w8, AD)
      /\ \A y : Has(w8, y) <=> Has(w7, y) \/ (c.CompSub = 2 /\ y = ExtP)
  <2>1. a8 \in Seq(Single) /\ \A y : (Has(a8, y) <=> c.CompSub = 2 /\ y = ExtP) /\ Once(a8, y)
    BY <1>0, <1>1, <1>18, PartHas
  <2>2. \A x \in {ED, AD} : ~Has(w7, x) \/ ~Has(a8, x)
    BY <1>1, <2>1
  <2>3. /\ w8 \in Seq(Single) /\ Once(w8, ED) /\ Once(w8, AD)
        /\ \A x : Has(w8, x) <=> Has(w7, x) \/ Has(a8, x)
    BY <1>17, <1>18, <2>1, <2>2, Joined
  <2>. QED BY <2>1, <2>3
<1>20. PICK m : m = MooringFiles(at, c)
  OBVIOUS
<1>21. /\ m \in Seq(Single)
      /\ \A y : Has(m, y) <=> (c.CompMooring = 1 /\ Found(at, MAP) /\ y = MAP)
                              \/ (c.CompMooring = 3 /\ Found(at, MD) /\ y = MD)
  <2>1. PICK a, b : /\ a = Part(c.CompMooring = 1 /\ Found(at, MAP), <<MAP>>)
                    /\ b = Part(c.CompMooring = 3 /\ Found(at, MD), <<MD>>)
    OBVIOUS
  <2>2. (c.CompMooring = 1 /\ Found(at, MAP)) \in BOOLEAN /\ (c.CompMooring = 3 /\ Found(at, MD)) \in BOOLEAN
    OBVIOUS
  <2>3. a \in Seq(Single) /\ \A y : Has(a, y) <=> (c.CompMooring = 1 /\ Found(at, MAP)) /\ y = MAP
    BY <1>1, <2>1, <2>2, PartHas
  <2>4. b \in Seq(Single) /\ \A y : Has(b, y) <=> (c.CompMooring = 3 /\ Found(at, MD)) /\ y = MD
    BY <1>1, <2>1, <2>2, PartHas
  <2>5. a \o b \in Seq(Single) /\ \A y : Has(a \o b, y) <=> Has(a, y) \/ Has(b, y)
    BY <2>3, <2>4, ConcatOnce
  <2>6. m = a \o b
    BY <1>20, <2>1 DEF MooringFiles
  <2>7. \A y : Has(m, y) <=> Has(a, y) \/ Has(b, y)
    BY <2>5, <2>6
  <2>8. m \in Seq(Single)
    BY <2>5, <2>6
  <2>9. ASSUME NEW y
        PROVE  Has(m, y) <=> (c.CompMooring = 1 /\ Found(at, MAP) /\ y = MAP)
                              \/ (c.CompMooring = 3 /\ Found(at, MD) /\ y = MD)
    BY <2>3, <2>4, <2>7
  <2>. QED BY <2>8, <2>9
<1>22. PICK w : w = w8 \o m
  OBVIOUS
<1>23. /\ w \in Seq(Single) /\ Once(w, ED) /\ Once(w, AD)
      /\ \A y : Has(w, y) <=> Has(w8, y) \/ Has(m, y)
  <2>1. ~Has(m, ED) /\ ~Has(m, AD)
    BY <1>1, <1>21
  <2>. QED BY <1>19, <1>21, <1>22, <2>1, ConcatOnce
<1>24. \A y : Has(w, y) <=> InMain(at, c, y)
  <2>1. ASSUME NEW y PROVE Has(w, y) <=> InMain(at, c, y)
    <3>1. Has(w, y) <=> Has(w8, y) \/ Has(m, y)
      BY <1>23
    <3>2. Has(m, y) <=> (c.CompMooring = 1 /\ Found(at, MAP) /\ y = MAP)
                              \/ (c.CompMooring = 3 /\ Found(at, MD) /\ y = MD)
      BY <1>21
    <3>3. Has(w8, y) <=> Has(w7, y) \/ (c.CompSub = 2 /\ y = ExtP)
      BY <1>19
    <3>4. Has(w7, y) <=> Has(w6, y) \/ (c.CompSub = 1 /\ y = SubD)
      BY <1>17
    <3>5. Has(w6, y) <=> Has(w5, y) \/ (c.CompSeaSt = 1 /\ y = SeaSt)
      BY <1>15
    <3>6. Has(w5, y) <=> Has(w4, y) \/ (c.CompHydro = 1 /\ y = HD)
      BY <1>13
    <3>7. Has(w4, y) <=> Has(w3, y) \/ (c.CompServo = 1 /\ y = SrvD)
      BY <1>11
    <3>8. Has(w3, y) <=> Has(w2, y) \/ (c.CompAero = 2 /\ y = AD)
      BY <1>9
    <3>9. Has(w2, y) <=> Has(w1, y) \/ (c.CompAero = 1 /\ y = ADsk)
      BY <1>7
    <3>10. Has(w1, y) <=> Has(w0, y) \/ (c.CompInflow = 1 /\ y = IfW)
      BY <1>5
    <3>11. Has(w0, y) <=> (c.CompElast = 3 /\ y = SED) \/ (c.CompElast # 3 /\ y = ED)
      BY <1>3
    <3>. QED BY <3>1, <3>2, <3>3, <3>4, <3>5, <3>6, <3>7, <3>8, <3>9, <3>10, <3>11 DEF InMain
  <2>. QED BY <2>1
<1>25. FromMain(at, c) = Itself(w) \o <<<<Fst, none>>>>
  BY <1>2, <1>4, <1>6, <1>8, <1>10, <1>12, <1>14, <1>16, <1>18, <1>20, <1>22 DEF FromMain
<1>26. /\ Itself(w) \in Seq({<<y, y>> : y \in Single})
       /\ \A z : Has(Itself(w), z) <=> \E y : z = <<y, y>> /\ Has(w, y)
       /\ Once(Itself(w), <<ED, ED>>) /\ Once(Itself(w), <<AD, AD>>)
  BY <1>23, ItselfHas
<1>27. PICK v, l : v = Itself(w) /\ l = <<<<Fst, none>>>>
  OBVIOUS
<1>28. v \in Seq(Items) /\ l \in Seq(Items) /\ \A z : (Has(l, z) <=> z = <<Fst, none>>) /\ Once(l, z)
  <2>1. {<<y, y>> : y \in Single} \subseteq Items /\ <<Fst, none>> \in Items
    BY PartSlots DEF Items, OwnItems
  <2>2. v \in Seq({<<y, y>> : y \in Single})
    BY <1>26, <1>27
  <2>3. \A z : Has(v, z) => z \in Items
    BY <2>1, <2>2, SeqHas
  <2>. QED BY <1>27, <2>1, <2>2, <2>3, SeqHas, FewHave
<1>29. Fst # none /\ <<ED, ED>> # <<Fst, none>> /\ <<AD, AD>> # <<Fst, none>>
  BY DEF Fst, none, ED, AD
<1>30. ~Has(v, <<Fst, none>>)
  BY <1>26, <1>27, <1>29
<1>31. PICK f : f = FromMain(at, c)
  OBVIOUS
<1>32. /\ f \in Seq(Items)
       /\ \A z : Has(f, z) <=> Has(v, z) \/ Has(l, z)
       /\ \A z : ~Has(v, z) /\ Once(l, z) => Once(f, z)
       /\ \A z : Once(v, z) /\ ~Has(l, z) => Once(f, z)
  <2>1. f = v \o l
    BY <1>25, <1>27, <1>31
  <2>. QED BY <1>28, <2>1, ConcatOnce
<1>33. f # <<>>
  <2>1. Has(f, <<Fst, none>>)
    BY <1>28, <1>32
  <2>2. ~Has(<<>>, <<Fst, none>>)
    BY FewHave
  <2>. QED BY <2>1, <2>2
<1>34. \A z \in Roots : Once(f, z)
  BY <1>26, <1>27, <1>28, <1>29, <1>30, <1>32 DEF Roots
<1>. QED BY <1>24, <1>26, <1>27, <1>28, <1>31, <1>32, <1>33, <1>34

\* The keys for the blades of some kinds: one key for all of them, or one for each.
KeysOf(kinds, indices) == (kinds \X indices) \cup {none}

\* What is read for the blades fits the file that asks for them.
LEMMA BladesFitIn ==
  ASSUME NEW s \in Seq(BladeItems), NEW kinds, kinds \subseteq BladedKinds, NEW indices, indices \in {{0}, 1..3},
         SlotsOf(s) \subseteq KeysOf(kinds, indices), NEW head, \A kind \in kinds : OwnerOf(kind) = head
  PROVE  Fit(s, head)
<1>1. s \in Seq(Leaves)
  <2>1. \A x : Has(s, x) => x \in Leaves
    BY SeqHas, ItemKinds
  <2>. QED BY <2>1, SeqHas
<1>2. ASSUME NEW x \in SlotsOf(s), Kind(x) \in BladedKinds
      PROVE  x \in kinds \X indices /\ Kind(x) \in kinds /\ x[2] \in indices
  <2>1. x # none
    BY <1>2, ItemKinds
  <2>. QED BY <1>2, <2>1 DEF KeysOf, Kind
<1>3. OneOrEach(SlotsOf(s))
  <2>1. ASSUME NEW x \in SlotsOf(s), Kind(x) \in BladedKinds, <<Kind(x), 0>> \in SlotsOf(s) PROVE x[2] = 0
    <3>1. PICK y : y = <<Kind(x), 0>>
      OBVIOUS
    <3>2. Kind(y) = Kind(x) /\ y[2] = 0 /\ y \in SlotsOf(s)
      BY <2>1, <3>1 DEF Kind
    <3>3. 0 \in indices
      BY <1>2, <2>1, <3>2
    <3>4. indices = {0}
      BY <3>3
    <3>. QED BY <1>2, <2>1, <3>4
  <2>. QED BY <2>1 DEF OneOrEach
<1>. QED BY <1>1, <1>2, <1>3 DEF Fit

\* One file of a blade, and what of it there is on a condition.
LEMMA BladeItem ==
  ASSUME NEW kind \in BladedKinds, NEW file \in Nat, NEW slot, slot = none \/ \E i \in 0..3 : slot = <<kind, i>>
  PROVE  /\ <<<<kind, file>>, slot>> \in BladeItems
         /\ <<<<<<kind, file>>, slot>>>> \in Seq(BladeItems)
         /\ SlotsOf(<<<<<<kind, file>>, slot>>>>) = {slot}
<1>1. slot \in Slots /\ (slot = none \/ Kind(slot) = kind)
  BY ItemKinds DEF Slots, Kind
<1>2. <<<<kind, file>>, slot>> \in BladeItems
  BY <1>1 DEF BladeItems, Kind
<1>3. SlotsOf(<<<<<<kind, file>>, slot>>>>) = {slot}
  BY DEF SlotsOf
<1>. QED BY <1>2, <1>3
LEMMA PartFits ==
  ASSUME NEW S, NEW s \in Seq(S), NEW cond, NEW slots, SlotsOf(s) \subseteq slots
  PROVE  Part(cond, s) \in Seq(S) /\ SlotsOf(Part(cond, s)) \subseteq slots
<1>1. <<>> \in Seq(S) /\ SlotsOf(<<>>) = {}
  BY DEF SlotsOf
<1>. QED BY <1>1 DEF Part

\* Three lists one after the other.
LEMMA ThreeFit ==
  ASSUME NEW S, NEW a \in Seq(S), NEW b \in Seq(S), NEW c \in Seq(S), NEW slots,
         SlotsOf(a) \subseteq slots, SlotsOf(b) \subseteq slots, SlotsOf(c) \subseteq slots
  PROVE  a \o b \o c \in Seq(S) /\ SlotsOf(a \o b \o c) \subseteq slots
<1>1. PICK e : e = a \o b
  OBVIOUS
<1>2. e \in Seq(S) /\ SlotsOf(e) \subseteq slots
  BY <1>1, ConcatOnce
<1>3. e \o c \in Seq(S) /\ SlotsOf(e \o c) = SlotsOf(e) \cup SlotsOf(c)
  BY <1>2, ConcatOnce
<1>. QED BY <1>1, <1>2, <1>3

\* The list of one blade file, and the item of each of three.
LEMMA OneThree ==
  ASSUME NEW kind \in BladedKinds, NEW files \in [1..3 -> Nat]
  PROVE  /\ One(kind, files, 0) \in Seq(BladeItems) /\ SlotsOf(One(kind, files, 0)) = {<<kind, 0>>}
         /\ \A i \in 1..3 : /\ <<Three(kind, files)[i]>> \in Seq(BladeItems)
                            /\ SlotsOf(<<Three(kind, files)[i]>>) = {<<kind, i>>}
         /\ Three(kind, files) \in Seq(BladeItems) /\ SlotsOf(Three(kind, files)) \subseteq {kind} \X (1..3)
<1>1. files[1] \in Nat /\ files[2] \in Nat /\ files[3] \in Nat
  OBVIOUS
<1>2. One(kind, files, 0) \in Seq(BladeItems) /\ SlotsOf(One(kind, files, 0)) = {<<kind, 0>>}
  <2>1. PICK file, slot : file = files[1] /\ slot = <<kind, 0>>
    OBVIOUS
  <2>2. file \in Nat /\ \E i \in 0..3 : slot = <<kind, i>>
    BY <1>1, <2>1
  <2>3. One(kind, files, 0) = <<<<<<kind, file>>, slot>>>>
    BY <2>1 DEF One
  <2>. QED BY <2>1, <2>2, <2>3, BladeItem
<1>3. ASSUME NEW i \in 1..3
      PROVE  /\ Three(kind, files)[i] = <<<<kind, files[i]>>, <<kind, i>>>>
             /\ Three(kind, files)[i] \in BladeItems
             /\ <<Three(kind, files)[i]>> \in Seq(BladeItems)
             /\ SlotsOf(<<Three(kind, files)[i]>>) = {<<kind, i>>}
  <2>1. PICK file, slot : file = files[i] /\ slot = <<kind, i>>
    OBVIOUS
  <2>2. file \in Nat /\ \E j \in 0..3 : slot = <<kind, j>>
    BY <2>1
  <2>3. Three(kind, files)[i] = <<<<kind, file>>, slot>>
    BY <2>1 DEF Three
  <2>. QED BY <2>1, <2>2, <2>3, BladeItem
<1>4. Three(kind, files) \in Seq(BladeItems) /\ Len(Three(kind, files)) = 3
  BY <1>3 DEF Three
<1>5. SlotsOf(Three(kind, files)) \subseteq {kind} \X (1..3)
  BY <1>3, <1>4 DEF SlotsOf
<1>. QED BY <1>2, <1>3, <1>4, <1>5

\* ElastoDyn's blades: one file for all of them, or some of three.
LEMMA EDBladesFit ==
  ASSUME NEW at, NEW d, d[ED].files \in [1..3 -> Nat]
  PROVE  Fit(EDBlades(at, d), <<ED, ED>>)
<1>1. PICK files : files = d[ED].files /\ files \in [1..3 -> Nat]
  OBVIOUS
<1>2. "EDBlade" \in BladedKinds /\ OwnerOf("EDBlade") = <<ED, ED>>
  BY DEF BladedKinds, OwnerOf
<1>9. PICK kinds : kinds = {"EDBlade"}
  OBVIOUS
<1>0. kinds = {"EDBlade"} /\ kinds \subseteq BladedKinds /\ \A kind \in kinds : OwnerOf(kind) = <<ED, ED>>
  BY <1>2, <1>9
<1>. DEFINE wanted(i) == \/ d[Fst].CompElast = 1
                         \/ InSource(at) /\ Found(at, <<"EDBlade", files[i]>>)
            one == One("EDBlade", files, 0)
            blade(i) == Part(wanted(i), <<Three("EDBlade", files)[i]>>)
<1>3. \/ EDBlades(at, d) = Part(wanted(1), one)
      \/ EDBlades(at, d) = Part(d[Fst].CompElast = 1, one)
      \/ EDBlades(at, d) = blade(1) \o blade(2) \o blade(3)
  BY <1>1 DEF EDBlades
<1>4. ASSUME NEW cond, EDBlades(at, d) = Part(cond, one) PROVE Fit(EDBlades(at, d), <<ED, ED>>)
  <2>0. one \in Seq(BladeItems) /\ SlotsOf(one) = {<<"EDBlade", 0>>}
    BY <1>1, <1>2, OneThree
  <2>1. one \in Seq(BladeItems) /\ SlotsOf(one) \subseteq KeysOf(kinds, {0})
    BY <1>0, <2>0 DEF KeysOf
  <2>. HIDE DEF one
  <2>2. EDBlades(at, d) \in Seq(BladeItems) /\ SlotsOf(EDBlades(at, d)) \subseteq KeysOf(kinds, {0})
    BY <1>4, <2>1, PartFits
  <2>. QED BY <1>0, <2>2, BladesFitIn
<1>5. ASSUME EDBlades(at, d) = blade(1) \o blade(2) \o blade(3) PROVE Fit(EDBlades(at, d), <<ED, ED>>)
  <2>1. ASSUME NEW i \in 1..3
        PROVE  blade(i) \in Seq(BladeItems) /\ SlotsOf(blade(i)) \subseteq KeysOf(kinds, 1..3)
    <3>1. PICK s : s = <<Three("EDBlade", files)[i]>>
      OBVIOUS
    <3>2. s \in Seq(BladeItems) /\ SlotsOf(s) = {<<"EDBlade", i>>}
      BY <1>1, <1>2, <3>1, OneThree
    <3>3. SlotsOf(s) \subseteq KeysOf(kinds, 1..3)
      BY <1>0, <3>2 DEF KeysOf
    <3>. QED BY <3>1, <3>2, <3>3, PartFits
  <2>2. PICK a, b, c : a = blade(1) /\ b = blade(2) /\ c = blade(3)
    OBVIOUS
  <2>. HIDE DEF blade
  <2>3. EDBlades(at, d) = a \o b \o c
    BY <1>5, <2>2
  <2>4. /\ a \in Seq(BladeItems) /\ SlotsOf(a) \subseteq KeysOf(kinds, 1..3)
        /\ b \in Seq(BladeItems) /\ SlotsOf(b) \subseteq KeysOf(kinds, 1..3)
        /\ c \in Seq(BladeItems) /\ SlotsOf(c) \subseteq KeysOf(kinds, 1..3)
    BY <2>1, <2>2
  <2>6. PICK slots : slots = KeysOf(kinds, 1..3)
    OBVIOUS
  <2>7. a \o b \o c \in Seq(BladeItems) /\ SlotsOf(a \o b \o c) \subseteq slots
    BY <2>4, <2>6, ThreeFit
  <2>5. EDBlades(at, d) \in Seq(BladeItems) /\ SlotsOf(EDBlades(at, d)) \subseteq KeysOf(kinds, 1..3)
    BY <2>3, <2>6, <2>7
  <2>. QED BY <1>0, <2>5, BladesFitIn
<1>. QED BY <1>3, <1>4, <1>5

\* AeroDyn's: one file for all of them, and one that is dropped, or one for each.
LEMMA ADBladesFit ==
  ASSUME NEW d, d[AD].files \in [1..3 -> Nat]
  PROVE  Fit(ADBlades(d), <<AD, AD>>)
<1>1. PICK files : files = d[AD].files /\ files \in [1..3 -> Nat]
  OBVIOUS
<1>2. "ADBlade" \in BladedKinds /\ OwnerOf("ADBlade") = <<AD, AD>>
  BY DEF BladedKinds, OwnerOf, ED, AD
<1>9. PICK kinds : kinds = {"ADBlade"}
  OBVIOUS
<1>0. kinds = {"ADBlade"} /\ kinds \subseteq BladedKinds /\ \A kind \in kinds : OwnerOf(kind) = <<AD, AD>>
  BY <1>2, <1>9
<1>. DEFINE one == One("ADBlade", files, 0)
            dropped == <<<<<<"ADBlade", files[2]>>, none>>>>
<1>3. \/ ADBlades(d) = one
      \/ ADBlades(d) = Three("ADBlade", files)
      \/ ADBlades(d) = one \o Part(d[ED].NumBl > 1, dropped)
  BY <1>1 DEF ADBlades
<1>4. one \in Seq(BladeItems) /\ SlotsOf(one) \subseteq KeysOf(kinds, {0})
  <2>1. one \in Seq(BladeItems) /\ SlotsOf(one) = {<<"ADBlade", 0>>}
    BY <1>1, <1>2, OneThree
  <2>. QED BY <1>0, <2>1 DEF KeysOf
<1>5. dropped \in Seq(BladeItems) /\ SlotsOf(dropped) \subseteq KeysOf(kinds, {0})
  <2>1. PICK file : file = files[2]
    OBVIOUS
  <2>2. file \in Nat
    BY <1>1, <2>1
  <2>3. dropped \in Seq(BladeItems) /\ SlotsOf(dropped) = {none}
    BY <1>2, <2>1, <2>2, BladeItem
  <2>. QED BY <2>3 DEF KeysOf
<1>. HIDE DEF one, dropped
<1>6. CASE ADBlades(d) = one
  BY <1>0, <1>4, <1>6, BladesFitIn
<1>7. CASE ADBlades(d) = Three("ADBlade", files)
  <2>0. PICK s : s = Three("ADBlade", files)
    OBVIOUS
  <2>1. s \in Seq(BladeItems) /\ SlotsOf(s) \subseteq {"ADBlade"} \X (1..3)
    BY <1>1, <1>2, <2>0, OneThree
  <2>2. ADBlades(d) \in Seq(BladeItems) /\ SlotsOf(ADBlades(d)) \subseteq KeysOf(kinds, 1..3)
    BY <1>0, <1>7, <2>0, <2>1 DEF KeysOf
  <2>. QED BY <1>0, <2>2, BladesFitIn
<1>8. CASE ADBlades(d) = one \o Part(d[ED].NumBl > 1, dropped)
  <2>1. PICK rest : rest = Part(d[ED].NumBl > 1, dropped)
    OBVIOUS
  <2>2. rest \in Seq(BladeItems) /\ SlotsOf(rest) \subseteq KeysOf(kinds, {0})
    BY <1>5, <2>1, PartFits
  <2>3. ADBlades(d) \in Seq(BladeItems) /\ SlotsOf(ADBlades(d)) \subseteq KeysOf(kinds, {0})
    BY <1>4, <1>8, <2>1, <2>2, ConcatOnce
  <2>. QED BY <1>0, <2>3, BladesFitIn
<1>. QED BY <1>3, <1>6, <1>7, <1>8

\* BeamDyn's: the same, with two files for each.
LEMMA BDBladesFit ==
  ASSUME NEW at, NEW d, d[Fst].files \in [1..3 -> Nat]
  PROVE  Fit(BDBlades(at, d), <<Fst, none>>)
<1>1. PICK files : files = d[Fst].files /\ files \in [1..3 -> Nat]
  OBVIOUS
<1>2. /\ "BD" \in BladedKinds /\ OwnerOf("BD") = <<Fst, none>>
      /\ "BDBlade" \in BladedKinds /\ OwnerOf("BDBlade") = <<Fst, none>>
  BY DEF BladedKinds, OwnerOf
<1>3. PICK kinds : kinds = {"BD", "BDBlade"}
  OBVIOUS
<1>4. kinds \subseteq BladedKinds /\ \A kind \in kinds : OwnerOf(kind) = <<Fst, none>>
  BY <1>2, <1>3
<1>. DEFINE one == One("BD", files, 0) \o One("BDBlade", files, 0)
            two(i) == <<<<<<"BD", files[i]>>, <<"BD", i>>>>, <<<<"BDBlade", files[i]>>, <<"BDBlade", i>>>>>>
            dropped == <<<<<<"BD", files[2]>>, none>>, <<<<"BDBlade", files[2]>>, none>>>>
<1>5. \/ BDBlades(at, d) = <<>>
      \/ BDBlades(at, d) = one
      \/ BDBlades(at, d) = two(1) \o two(2) \o two(3)
      \/ BDBlades(at, d) = one \o Part(d[ED].NumBl > 1, dropped)
  BY <1>1 DEF BDBlades
<1>6. one \in Seq(BladeItems) /\ SlotsOf(one) \subseteq KeysOf(kinds, {0})
  <2>1. PICK a, b : a = One("BD", files, 0) /\ b = One("BDBlade", files, 0)
    OBVIOUS
  <2>2. a \in Seq(BladeItems) /\ SlotsOf(a) = {<<"BD", 0>>} /\ b \in Seq(BladeItems) /\ SlotsOf(b) = {<<"BDBlade", 0>>}
    BY <1>1, <1>2, <2>1, OneThree
  <2>3. a \o b \in Seq(BladeItems) /\ SlotsOf(a \o b) = SlotsOf(a) \cup SlotsOf(b)
    BY <2>2, ConcatOnce
  <2>. QED BY <1>3, <2>1, <2>2, <2>3 DEF KeysOf
<1>7. ASSUME NEW i \in 1..3
      PROVE  two(i) \in Seq(BladeItems) /\ SlotsOf(two(i)) \subseteq KeysOf(kinds, 1..3)
  <2>1. files[i] \in Nat /\ i \in 0..3
    BY <1>1
  <2>2. /\ <<<<"BD", files[i]>>, <<"BD", i>>>> \in BladeItems
        /\ <<<<"BDBlade", files[i]>>, <<"BDBlade", i>>>> \in BladeItems
    BY <1>2, <2>1, BladeItem
  <2>3. SlotsOf(two(i)) = {<<"BD", i>>, <<"BDBlade", i>>}
    BY DEF SlotsOf
  <2>. QED BY <1>3, <2>2, <2>3 DEF KeysOf
<1>8. dropped \in Seq(BladeItems) /\ SlotsOf(dropped) \subseteq KeysOf(kinds, {0})
  <2>0. PICK file : file = files[2] /\ file \in Nat
    BY <1>1
  <2>1. <<<<"BD", file>>, none>> \in BladeItems /\ <<<<"BDBlade", file>>, none>> \in BladeItems
    BY <1>2, <2>0, BladeItem
  <2>2. SlotsOf(dropped) = {none}
    BY DEF SlotsOf
  <2>. QED BY <2>0, <2>1, <2>2 DEF KeysOf
<1>. HIDE DEF one, two, dropped
<1>9. CASE BDBlades(at, d) = <<>>
  <2>1. <<>> \in Seq(BladeItems) /\ SlotsOf(<<>>) = {}
    BY DEF SlotsOf
  <2>. QED BY <1>4, <1>9, <2>1, BladesFitIn
<1>10. CASE BDBlades(at, d) = one
  BY <1>4, <1>6, <1>10, BladesFitIn
<1>11. CASE BDBlades(at, d) = two(1) \o two(2) \o two(3)
  <2>1. PICK a, b, c : a = two(1) /\ b = two(2) /\ c = two(3)
    OBVIOUS
  <2>2. /\ a \in Seq(BladeItems) /\ SlotsOf(a) \subseteq KeysOf(kinds, 1..3)
        /\ b \in Seq(BladeItems) /\ SlotsOf(b) \subseteq KeysOf(kinds, 1..3)
        /\ c \in Seq(BladeItems) /\ SlotsOf(c) \subseteq KeysOf(kinds, 1..3)
    BY <1>7, <2>1
  <2>4. PICK slots : slots = KeysOf(kinds, 1..3)
    OBVIOUS
  <2>5. a \o b \o c \in Seq(BladeItems) /\ SlotsOf(a \o b \o c) \subseteq slots
    BY <2>2, <2>4, ThreeFit
  <2>3. BDBlades(at, d) \in Seq(BladeItems) /\ SlotsOf(BDBlades(at, d)) \subseteq KeysOf(kinds, 1..3)
    BY <1>11, <2>1, <2>4, <2>5
  <2>. QED BY <1>4, <2>3, BladesFitIn
<1>12. CASE BDBlades(at, d) = one \o Part(d[ED].NumBl > 1, dropped)
  <2>1. PICK rest : rest = Part(d[ED].NumBl > 1, dropped)
    OBVIOUS
  <2>2. rest \in Seq(BladeItems) /\ SlotsOf(rest) \subseteq KeysOf(kinds, {0})
    BY <1>8, <2>1, PartFits
  <2>3. BDBlades(at, d) \in Seq(BladeItems) /\ SlotsOf(BDBlades(at, d)) \subseteq KeysOf(kinds, {0})
    BY <1>6, <1>12, <2>1, <2>2, ConcatOnce
  <2>. QED BY <1>4, <2>3, BladesFitIn
<1>. QED BY <1>5, <1>9, <1>10, <1>11, <1>12

\* What is read next and is not of blades.
LEMMA PlainLists ==
  /\ \A x \in Single \ {ED, AD} : \A cond : Part(cond, <<x>>) \in Seq(PlainParts) /\ <<x>> \in Seq(PlainParts)
  /\ \A a, b \in Seq(PlainParts) : a \o b \in Seq(PlainParts)
  /\ \A s \in Seq(PlainParts) : Itself(s) \in Seq(Plain)
<1>1. ASSUME NEW x \in Single \ {ED, AD}, NEW cond
      PROVE  Part(cond, <<x>>) \in Seq(PlainParts) /\ <<x>> \in Seq(PlainParts)
  <2>1. <<x>> \in Seq(PlainParts) /\ <<>> \in Seq(PlainParts)
    BY PartSlots
  <2>. QED BY <2>1 DEF Part
<1>2. \A s \in Seq(PlainParts) : Itself(s) \in Seq(Plain)
  BY ItselfHas, PartSlots
<1>. QED BY <1>1, <1>2
LEMMA FitOfPlain ==
  ASSUME NEW s \in Seq(Plain), NEW head
  PROVE  Fit(s, head)
<1>1. Fit(<<>>, head)
  BY DEF Fit, OneOrEach, SlotsOf
<1>2. <<>> \o s = s
  OBVIOUS
<1>. QED BY <1>1, <1>2, FitPlain

\* ServoDyn asks for structural controllers, the controller's file and a table.
LEMMA FromServoDynFit ==
  ASSUME NEW at, NEW c, {c.NStC, c.BStC, c.TStC, c.SStC} \subseteq Nat, NEW head
  PROVE  Fit(FromServoDyn(at, c), head)
<1>1. PICK a, b : a = Several("BStC", c.BStC) /\ b = Several("NStC", c.NStC)
  OBVIOUS
<1>2. PICK e, f : e = Several("TStC", c.TStC) /\ f = Several("SStC", c.SStC)
  OBVIOUS
<1>3. PICK g, h : /\ g = Part(ROSCO /\ c.DLL_InFile = 1 /\ Found(at, DISCON), <<DISCON>>)
                  /\ h = Part(c.VSContrl = 3, <<SpdTrq>>)
  OBVIOUS
<1>4. a \in Seq(PlainParts) /\ b \in Seq(PlainParts) /\ e \in Seq(PlainParts) /\ f \in Seq(PlainParts)
  <2>1. {"BStC", "NStC", "TStC", "SStC"} \subseteq ManyKinds
    BY DEF ManyKinds, StCKinds
  <2>. QED BY <1>1, <1>2, <2>1, ManyHave
<1>5. g \in Seq(PlainParts) /\ h \in Seq(PlainParts)
  <2>1. DISCON \in Single \ {ED, AD} /\ SpdTrq \in Single \ {ED, AD}
    BY DEF Single, DISCON, SpdTrq, ED, AD
  <2>. QED BY <1>3, <2>1, PlainLists
<1>6. PICK s : s = a \o b \o e \o f \o g \o h
  OBVIOUS
<1>7. s \in Seq(PlainParts)
  BY <1>4, <1>5, <1>6
<1>8. FromServoDyn(at, c) = Itself(s)
  BY <1>1, <1>2, <1>3, <1>6 DEF FromServoDyn
<1>. QED BY <1>7, <1>8, PlainLists, FitOfPlain

\* ExtPtfm asks for its superelement and what is applied to it.
LEMMA FromExtPtfmFit ==
  ASSUME NEW c, NEW head
  PROVE  Fit(FromExtPtfm(c), head)
<1>1. PICK a, b : a = Part(c.HasConnections = 1, <<Conn>>) /\ b = Part(c.HasUserForcing = 1, <<UserF>>)
  OBVIOUS
<1>2. PICK e : e = Part(c.HasConnForcing = 1, <<ConnF>>)
  OBVIOUS
<1>3. /\ SE \in Single \ {ED, AD} /\ Conn \in Single \ {ED, AD}
      /\ UserF \in Single \ {ED, AD} /\ ConnF \in Single \ {ED, AD}
  BY DEF Single, SE, Conn, UserF, ConnF, ED, AD
<1>4. <<SE>> \in Seq(PlainParts) /\ a \in Seq(PlainParts) /\ b \in Seq(PlainParts) /\ e \in Seq(PlainParts)
  BY <1>1, <1>2, <1>3, PlainLists
<1>5. PICK s : s = <<SE>> \o a \o b \o e
  OBVIOUS
<1>6. s \in Seq(PlainParts)
  BY <1>4, <1>5
<1>7. FromExtPtfm(c) = Itself(s)
  BY <1>1, <1>2, <1>5 DEF FromExtPtfm
<1>. QED BY <1>6, <1>7, PlainLists, FitOfPlain

\* AeroDyn asks for blades, polars, coordinates and the wake file.
LEMMA FromAeroDynFit ==
  ASSUME NEW at, NEW d, Typed(AD, d[AD])
  PROVE  Fit(FromAeroDyn(at, d), <<AD, AD>>)
<1>1. PICK c : c = d[AD]
  OBVIOUS
<1>2. /\ c.files \in [1..3 -> Nat] /\ c.NumAFfiles \in Nat /\ c.coords \in Seq(Nat \ {0})
  BY <1>1 DEF Typed
<1>3. PICK a, b : a = Several("Polar", c.NumAFfiles) /\ b = Coordinates(c)
  OBVIOUS
<1>4. PICK e : e = Part(Found(at, OLAF), <<OLAF>>)
  OBVIOUS
<1>5. a \in Seq(PlainParts) /\ b \in Seq(PlainParts)
  <2>1. "Polar" \in ManyKinds
    BY DEF ManyKinds
  <2>. QED BY <1>2, <1>3, <2>1, ManyHave
<1>6. e \in Seq(PlainParts)
  <2>1. OLAF \in Single \ {ED, AD}
    BY DEF Single, OLAF, ED, AD
  <2>. QED BY <1>4, <2>1, PlainLists
<1>7. PICK s : s = a \o b \o e
  OBVIOUS
<1>8. Itself(s) \in Seq(Plain)
  BY <1>5, <1>6, <1>7, PlainLists
<1>9. Fit(ADBlades(d), <<AD, AD>>)
  BY <1>1, <1>2, ADBladesFit
<1>10. FromAeroDyn(at, d) = ADBlades(d) \o Itself(s)
  BY <1>1, <1>3, <1>4, <1>7 DEF FromAeroDyn
<1>. QED BY <1>8, <1>9, <1>10, FitPlain

\* Whatever item was read, what is read next fits it.
LEMMA NestedFit ==
  ASSUME NEW at, NEW item \in Items, item # <<Fst, Fst>>, NEW d,
         \A part \in DOMAIN d : Typed(part, d[part]),
         item = <<Fst, none>> => Fst \in DOMAIN d, item[2] # none => item[2] \in DOMAIN d
  PROVE  Fit(Nested(at, item, d), item)
<1>1. {Tower, ADskProp, WK} \subseteq Single \ {ED, AD}
  BY DEF Single, Tower, ADskProp, WK, ED, AD
<1>2. CASE item = <<Fst, none>>
  <2>1. d[Fst].files \in [1..3 -> Nat]
    BY <1>2 DEF Typed
  <2>2. Nested(at, item, d) = BDBlades(at, d)
    BY <1>2 DEF Nested, ED, AD, ADsk, SrvD, ExtP, MD, Fst, none
  <2>. QED BY <1>2, <2>1, <2>2, BDBladesFit
<1>3. ASSUME item # <<Fst, none>>, item[1] \in {ED, AD, ADsk, SrvD, ExtP, MD} PROVE item = <<item[1], item[1]>> /\ item[1] \in DOMAIN d
  <2>1. item \notin BladeItems
    <3>1. SUFFICES ASSUME item \in BladeItems PROVE FALSE
      OBVIOUS
    <3>2. item[1][1] \in BladedKinds
      BY <3>1 DEF BladeItems
    <3>. QED BY <1>3, <3>2 DEF BladedKinds, ED, AD, ADsk, SrvD, ExtP, MD
  <2>2. PICK x \in Slots \ {none} : item = <<x, x>>
    BY <1>3, <2>1 DEF Items, OwnItems
  <2>. QED BY <2>2
<1>4. CASE item # <<Fst, none>> /\ item[1] = ED
  <2>1. item = <<ED, ED>> /\ d[ED].files \in [1..3 -> Nat]
    BY <1>3, <1>4 DEF Typed
  <2>2. Nested(at, item, d) = EDBlades(at, d) \o Itself(<<Tower>>)
    BY <2>1, <1>4 DEF Nested, ED, AD, ADsk, SrvD, ExtP, MD, Fst, none
  <2>3. Itself(<<Tower>>) \in Seq(Plain)
    BY <1>1, PlainLists
  <2>. QED BY <2>1, <2>2, <2>3, EDBladesFit, FitPlain
<1>5. CASE item # <<Fst, none>> /\ item[1] = AD
  <2>1. item = <<AD, AD>> /\ Typed(AD, d[AD])
    BY <1>3, <1>5
  <2>2. Nested(at, item, d) = FromAeroDyn(at, d)
    BY <2>1, <1>5 DEF Nested, ED, AD, ADsk, SrvD, ExtP, MD, Fst, none
  <2>. QED BY <2>1, <2>2, FromAeroDynFit
<1>6. CASE item # <<Fst, none>> /\ item[1] = ADsk
  <2>1. Nested(at, item, d) = Itself(<<ADskProp>>)
    BY <1>3, <1>6 DEF Nested, ED, AD, ADsk, SrvD, ExtP, MD, Fst, none
  <2>2. Itself(<<ADskProp>>) \in Seq(Plain)
    BY <1>1, PlainLists
  <2>. QED BY <2>1, <2>2, FitOfPlain
<1>7. CASE item # <<Fst, none>> /\ item[1] = SrvD
  <2>1. Nested(at, item, d) = FromServoDyn(at, d[SrvD])
    BY <1>3, <1>7 DEF Nested, ED, AD, ADsk, SrvD, ExtP, MD, Fst, none
  <2>2. {d[SrvD].NStC, d[SrvD].BStC, d[SrvD].TStC, d[SrvD].SStC} \subseteq Nat
    BY <1>3, <1>7 DEF Typed
  <2>. QED BY <2>1, <2>2, FromServoDynFit
<1>8. CASE item # <<Fst, none>> /\ item[1] = ExtP
  <2>1. Nested(at, item, d) = FromExtPtfm(d[ExtP])
    BY <1>3, <1>8 DEF Nested, ED, AD, ADsk, SrvD, ExtP, MD, Fst, none
  <2>. QED BY <2>1, FromExtPtfmFit
<1>9. CASE item # <<Fst, none>> /\ item[1] = MD
  <2>1. Nested(at, item, d) = Itself(Part(d[MD].WaterKin = 1, <<WK>>))
    BY <1>3, <1>9 DEF Nested, ED, AD, ADsk, SrvD, ExtP, MD, Fst, none
  <2>2. Itself(Part(d[MD].WaterKin = 1, <<WK>>)) \in Seq(Plain)
    BY <1>1, PlainLists
  <2>. QED BY <2>1, <2>2, FitOfPlain
<1>10. CASE item # <<Fst, none>> /\ item[1] \notin {ED, AD, ADsk, SrvD, ExtP, MD}
  <2>1. Nested(at, item, d) = <<>>
    BY <1>10 DEF Nested, ED, AD, ADsk, SrvD, ExtP, MD, Fst, none
  <2>2. <<>> \in Seq(Plain)
    OBVIOUS
  <2>. QED BY <2>1, <2>2, FitOfPlain
<1>. QED BY <1>2, <1>4, <1>5, <1>6, <1>7, <1>8, <1>9, <1>10

-----------------------------------------------------------------------------

\* What the writer leaves out of a file is none of what types it.
LEMMA NewFilesTyped ==
  ASSUME NEW d, NEW kind, NEW files \in [1..3 -> Nat]
  PROVE  NewFiles(d, kind, files) \in [1..3 -> Nat]
<1>1. <<0, 0, 0>> \in [1..3 -> Nat]
  OBVIOUS
<1>2. [i \in 1..3 |-> IF <<kind, i>> \in DOMAIN d THEN i ELSE files[i]] \in [1..3 -> Nat]
  OBVIOUS
<1>. QED BY <1>1, <1>2 DEF NewFiles
LEMMA StoredHas ==
  ASSUME NEW w, AsRead(w), NEW part \in DOMAIN w
  PROVE  /\ "ver" \in DOMAIN Stored(w, part)
         /\ part \in {Fst, ED, AD} =>
              "files" \in DOMAIN Stored(w, part) /\ Stored(w, part).files \in [1..3 -> Nat]
         /\ part = AD => /\ {"NumAFfiles", "coords"} \subseteq DOMAIN Stored(w, part)
                         /\ Stored(w, part).NumAFfiles \in Nat /\ Stored(w, part).coords \in Seq(Nat \ {0})
         /\ part = SrvD => /\ StCKinds \subseteq DOMAIN Stored(w, part)
                           /\ {Stored(w, SrvD).NStC, Stored(w, SrvD).BStC, Stored(w, SrvD).TStC, Stored(w, SrvD).SStC} \subseteq Nat
<1>1. PICK c : c = w[part]
  OBVIOUS
<1>2. "ver" \in DOMAIN c /\ (part \in {Fst, ED, AD} => "files" \in DOMAIN c /\ c.files \in [1..3 -> Nat])
  BY <1>1 DEF AsRead
<1>3. CASE part = Fst
  <2>1. Stored(w, part) = [c EXCEPT !.files = NewFiles(w, "BD", @)]
    BY <1>1, <1>3 DEF Stored, Fst, ED, AD, MAP, Kind
  <2>2. NewFiles(w, "BD", c.files) \in [1..3 -> Nat]
    BY <1>2, <1>3, NewFilesTyped
  <2>3. PICK n : n = NewFiles(w, "BD", c.files)
    OBVIOUS
  <2>4. Stored(w, part) = [c EXCEPT !.files = n]
    BY <2>1, <2>3
  <2>. QED BY <1>2, <1>3, <2>2, <2>3, <2>4 DEF Fst, AD, SrvD
<1>4. CASE part = ED
  <2>1. Stored(w, part) = [c EXCEPT !.files = IF w[Fst].CompElast = 1 THEN NewFiles(w, "EDBlade", @) ELSE @]
    BY <1>1, <1>4 DEF Stored, Fst, ED, AD, MAP, Kind
  <2>2. PICK n : n = IF w[Fst].CompElast = 1 THEN NewFiles(w, "EDBlade", c.files) ELSE c.files
    OBVIOUS
  <2>3. n \in [1..3 -> Nat]
    BY <1>2, <1>4, <2>2, NewFilesTyped
  <2>4. Stored(w, part) = [c EXCEPT !.files = n]
    BY <2>1, <2>2
  <2>. QED BY <1>2, <1>4, <2>3, <2>4 DEF ED, AD, SrvD
<1>5. CASE part = AD
  <2>1. Stored(w, part) = [c EXCEPT !.files = NewFiles(w, "ADBlade", @),
                                    !.UARad = IF {"UAStartRad", "UAEndRad"} \subseteq @ THEN @ ELSE {}]
    BY <1>1, <1>5 DEF Stored, Fst, ED, AD, MAP, Kind
  <2>2. PICK n, u : /\ n = NewFiles(w, "ADBlade", c.files)
                    /\ u = IF {"UAStartRad", "UAEndRad"} \subseteq c.UARad THEN c.UARad ELSE {}
    OBVIOUS
  <2>3. n \in [1..3 -> Nat]
    BY <1>2, <1>5, <2>2, NewFilesTyped
  <2>4. PICK e : e = [c EXCEPT !.files = n]
    OBVIOUS
  <2>5. Stored(w, part) = [e EXCEPT !.UARad = u]
    BY <2>1, <2>2, <2>4
  <2>6. DOMAIN e = DOMAIN c /\ e.files = n /\ \A x \in DOMAIN c : x # "files" => e[x] = c[x]
    BY <1>2, <1>5, <2>4
  <2>7. PICK g : g = Stored(w, part)
    OBVIOUS
  <2>8. DOMAIN g = DOMAIN c /\ \A x \in DOMAIN c : x # "UARad" => g[x] = e[x]
    BY <2>5, <2>6, <2>7
  <2>9. /\ {"NumAFfiles", "coords"} \subseteq DOMAIN c
        /\ c.NumAFfiles \in Nat /\ c.coords \in Seq(Nat \ {0})
    <3>1. w[Fst].CompAero = 2
      <4>1. AskedFor(w, AD)
        BY <1>5 DEF AsRead, Elsewhere, KeepsName, Kind, StCKinds, AD
      <4>. QED BY <4>1 DEF AskedFor, Fst, ED, SED, Tower, IfW, ADsk, ADskProp, AD, SrvD, HD, SeaSt, SubD, ExtP, SE,
                           Conn, UserF, ConnF, MAP, MD, WK
    <3>. QED BY <1>1, <1>5, <3>1 DEF AsRead
  <2>10. {"ver", "files", "NumAFfiles", "coords"} \subseteq DOMAIN g /\ g.files = n /\ g.NumAFfiles = c.NumAFfiles /\ g.coords = c.coords
    BY <1>2, <1>5, <2>6, <2>8, <2>9
  <2>11. AD # SrvD
    BY DEF AD, SrvD
  <2>. QED BY <1>5, <2>3, <2>7, <2>9, <2>10, <2>11
<1>6. CASE part = SrvD
  <2>1. Stored(w, part) = c
    BY <1>1, <1>6 DEF Stored, Fst, ED, AD, SrvD, MAP, Kind
  <2>2. w[Fst].CompServo = 1
    <3>1. AskedFor(w, SrvD)
      BY <1>6 DEF AsRead, Elsewhere, KeepsName, Kind, StCKinds, SrvD
    <3>. QED BY <3>1 DEF AskedFor, Fst, ED, SED, Tower, IfW, ADsk, ADskProp, AD, SrvD, HD, SeaSt, SubD, ExtP, SE,
                         Conn, UserF, ConnF, MAP, MD, WK
  <2>3. StCKinds \subseteq DOMAIN c /\ {c.NStC, c.BStC, c.TStC, c.SStC} \subseteq Nat
    BY <1>1, <1>6, <2>2 DEF AsRead
  <2>4. SrvD \notin {Fst, ED, AD}
    BY DEF SrvD, Fst, ED, AD
  <2>. QED BY <1>2, <1>6, <2>1, <2>3, <2>4
<1>7. CASE part \notin {Fst, ED, AD, SrvD}
  <2>1. DOMAIN Stored(w, part) = DOMAIN c
    BY <1>1, <1>7 DEF Stored, Fst, ED, AD, MAP, Kind
  <2>. QED BY <1>2, <1>7, <2>1
<1>. QED BY <1>3, <1>4, <1>5, <1>6, <1>7

\* What a reader takes of a file has these types, whether it takes all of it or some.
LEMMA TakenTyped ==
  ASSUME LoadedAsRead, LoadedWritable, TypeInv, NEW q \in Programs, pc[q] # "loading", Origin(q),
         NEW part \in FilesOf(wrote[q]), NEW reading
  PROVE  Typed(part, Taken(part, Stored(wrote[q], part), reading))
<1>1. PICK w, c : w = wrote[q] /\ c = Stored(w, part)
  OBVIOUS
<1>2. AsRead(w) /\ c.ver = q
  BY <1>1, WroteFits
<1>3. PICK k : k = Kept(part, c)
  OBVIOUS
<1>4. k = (IF part = ED THEN [c EXCEPT !.nodalChannels = 0] ELSE c)
  BY <1>3 DEF Kept
<1>5. PICK t : t = Taken(part, c, reading)
  OBVIOUS
<1>6. t = k \/ t = [k EXCEPT !.ver = Incomplete]
  BY <1>3, <1>5 DEF Taken
<1>7. CASE part \in DOMAIN w
  <2>1. /\ "ver" \in DOMAIN c
        /\ part \in {Fst, ED, AD} => "files" \in DOMAIN c /\ c.files \in [1..3 -> Nat]
        /\ part = AD => {"NumAFfiles", "coords"} \subseteq DOMAIN c /\ c.NumAFfiles \in Nat /\ c.coords \in Seq(Nat \ {0})
        /\ part = SrvD => StCKinds \subseteq DOMAIN c /\ {c.NStC, c.BStC, c.TStC, c.SStC} \subseteq Nat
    BY <1>1, <1>2, <1>7, StoredHas
  <2>2. DOMAIN k = DOMAIN c /\ \A x \in DOMAIN c : x # "nodalChannels" => k[x] = c[x]
    BY <1>4
  <2>3. DOMAIN t = DOMAIN c /\ t.ver \in {k.ver, Incomplete} /\ \A x \in DOMAIN c : x # "ver" => t[x] = k[x]
    BY <1>6, <2>1, <2>2
  <2>4. t.ver \in Programs \cup {Incomplete}
    BY <1>2, <2>1, <2>2, <2>3
  <2>5. part \in {Fst, ED, AD} => t.files = c.files
    BY <2>1, <2>2, <2>3
  <2>6. part = AD => t.NumAFfiles = c.NumAFfiles /\ t.coords = c.coords
    BY <2>1, <2>2, <2>3
  <2>7. part = SrvD => t.NStC = c.NStC /\ t.BStC = c.BStC /\ t.TStC = c.TStC /\ t.SStC = c.SStC
    BY <2>1, <2>2, <2>3 DEF StCKinds
  <2>. QED BY <1>1, <1>5, <2>1, <2>4, <2>5, <2>6, <2>7 DEF Typed
<1>8. CASE part \notin DOMAIN w
  <2>1. part = OLAF /\ c = [ver |-> w[Fst].ver]
    BY <1>1, <1>8 DEF FilesOf, Stored
  <2>2. part \notin {Fst, ED, AD, SrvD}
    BY <2>1 DEF OLAF, Fst, ED, AD, SrvD
  <2>3. t.ver \in Programs \cup {Incomplete}
    BY <1>2, <1>4, <1>6, <2>1, <2>2
  <2>. QED BY <1>1, <1>5, <2>2, <2>3 DEF Typed
<1>. QED BY <1>7, <1>8

\* What a reader has after it has read the item.
Took(at, d, item, reading, e) ==
  /\ item # <<Fst, none>> /\ reading \in Readings(at, item[1]) \ {"raised", "hung"}
  /\ item[2] = none => e = d
  /\ item[2] # none => e = With(d, item[2], Taken(item[1], FileAt(at, item[1]).c, reading))
\* The marked place of BeamDyn is not a file; other items are taken, or fail.
ReadsTo(at, d, items, item, r) ==
  \/ r[1] = d /\ r[3] \in {"raised", "hung"}
  \/ /\ item = <<Fst, none>> /\ ~NumBlMissing(at, Fst, d)
     /\ r[1] = d /\ r[2] = Nested(at, item, d) \o Tail(items) /\ r[3] = "whole"
  \/ \E reading, e :
       /\ Took(at, d, item, reading, e) /\ r[1] = e
       /\ \/ r[3] = "raised" /\ item[1] = AD /\ NumBlMissing(at, AD, e)
          \/ /\ ~(item[1] = AD /\ NumBlMissing(at, AD, e))
             /\ r[2] = Nested(at, item, e) \o Tail(items) /\ r[3] = reading
LEMMA ReadNextIs ==
  ASSUME NEW at, NEW d, NEW items, NEW r \in ReadNext(at, d, items)
  PROVE  ReadsTo(at, d, items, Head(items), r)
<1>. PICK item : item = Head(items)
  OBVIOUS
<1>. SUFFICES ReadsTo(at, d, items, item, r)
  OBVIOUS
<1>1. CASE item = <<Fst, none>>
  <2>1. r = IF NumBlMissing(at, Fst, d) THEN <<d, <<>>, "raised">>
            ELSE <<d, Nested(at, item, d) \o Tail(items), "whole">>
    BY <1>1 DEF ReadNext
  <2>2. CASE NumBlMissing(at, Fst, d)
    BY <2>1, <2>2 DEF ReadsTo
  <2>3. CASE ~NumBlMissing(at, Fst, d)
    BY <1>1, <2>1, <2>3 DEF ReadsTo
  <2>. QED BY <2>2, <2>3
<1>2. CASE item # <<Fst, none>>
  <2>1. PICK reading \in Readings(at, item[1]) :
          r = IF reading \in {"raised", "hung"} THEN <<d, items, reading>>
              ELSE LET read == IF item[2] = none THEN d
                               ELSE With(d, item[2], Taken(item[1], FileAt(at, item[1]).c, reading))
                   IN  IF item[1] = AD /\ NumBlMissing(at, AD, read) THEN <<read, items, "raised">>
                       ELSE <<read, Nested(at, item, read) \o Tail(items), reading>>
    BY <1>2 DEF ReadNext
  <2>2. PICK e : e = IF item[2] = none THEN d
                     ELSE With(d, item[2], Taken(item[1], FileAt(at, item[1]).c, reading))
    OBVIOUS
  <2>3. CASE reading \in {"raised", "hung"}
    BY <2>1, <2>3 DEF ReadsTo
  <2>4. CASE reading \notin {"raised", "hung"}
    <3>1. Took(at, d, item, reading, e)
      BY <1>2, <2>2, <2>4 DEF Took
    <3>2. r = IF item[1] = AD /\ NumBlMissing(at, AD, e) THEN <<e, items, "raised">>
              ELSE <<e, Nested(at, item, e) \o Tail(items), reading>>
      BY <2>1, <2>2, <2>4
    <3>. QED BY <3>1, <3>2 DEF ReadsTo
  <2>. QED BY <2>3, <2>4
<1>. QED BY <1>1, <1>2

\* Fewer keys are still one for all blades of a kind, or one for each.
LEMMA FewerKeys ==
  ASSUME NEW slots, OneOrEach(slots), NEW fewer, fewer \subseteq slots
  PROVE  OneOrEach(fewer)
BY DEF OneOrEach

\* What is taken of a file is typed, under whichever key.
LEMMA TookTyped ==
  ASSUME LoadedAsRead, LoadedWritable, TypeInv, BaseInv,
         NEW n, NEW d, \A part \in DOMAIN d : part \in Slots /\ Typed(part, d[part]),
         NEW item \in Items, NEW reading, NEW e, Took(Under(n), d, item, reading, e)
  PROVE  /\ DOMAIN d \subseteq DOMAIN e /\ DOMAIN e \subseteq DOMAIN d \cup {item[2]}
         /\ item[2] # none => item[2] \in DOMAIN e
         /\ \A part \in DOMAIN e : part \in Slots /\ Typed(part, e[part])
<1>1. CASE item[2] = none
  BY <1>1 DEF Took
<1>2. CASE item[2] # none
  <2>1. PICK part, slot : part = item[1] /\ slot = item[2]
    OBVIOUS
  <2>2. PICK c, t : c = FileAt(Under(n), part).c /\ t = Taken(part, c, reading)
    OBVIOUS
  <2>3. e = With(d, slot, t) /\ reading \in Readings(Under(n), part) \ {"raised", "hung"}
    BY <1>2, <2>1, <2>2 DEF Took
  <2>4. DOMAIN e = DOMAIN d \cup {slot} /\ e[slot] = t /\ \A y \in DOMAIN d : y # slot => e[y] = d[y]
    BY <2>3 DEF With
  <2>5. Found(Under(n), part)
    BY <2>3 DEF Readings, Readable
  <2>6. PICK q \in Programs : FileFrom(FileOf(n, part), q, part)
    BY <2>5, UnderFrom DEF BaseInv
  <2>7. FileAt(Under(n), part) = disk[FileOf(n, part)]
    BY <2>5, UnderFrom DEF BaseInv
  <2>8. c = Stored(wrote[q], part) /\ pc[q] # "loading" /\ part \in FilesOf(wrote[q])
    BY <2>2, <2>6, <2>7 DEF FileFrom
  <2>9. Typed(part, t)
    BY <2>2, <2>8, TakenTyped DEF BaseInv
  <2>10. slot \in Slots
    BY <2>1, ItemKinds
  <2>11. slot = part \/ Kind(slot) \in BladedKinds
    <3>1. CASE item \in BladeItems
      <4>1. Kind(slot) = Kind(part) /\ part \in BladedKinds \X Nat
        BY <1>2, <2>1, <3>1 DEF BladeItems
      <4>. QED BY <4>1 DEF Kind
    <3>2. CASE item \notin BladeItems
      BY <1>2, <2>1, <3>2 DEF Items, OwnItems
    <3>. QED BY <3>1, <3>2
  <2>12. Typed(slot, t)
    <3>1. Kind(slot) \in BladedKinds => slot \notin {Fst, ED, AD, SrvD}
      BY DEF Kind, BladedKinds, Fst, ED, AD, SrvD
    <3>. QED BY <2>9, <2>11, <3>1 DEF Typed
  <2>. QED BY <2>1, <2>4, <2>10, <2>12
<1>. QED BY <1>1, <1>2

\* After the main file there is to read what it asks for.
LEMMA MainReads ==
  ASSUME NEW at, NEW e, DOMAIN e = {Fst}, Typed(Fst, e[Fst])
  PROVE  /\ Nested(at, <<Fst, Fst>>, e) # <<>> /\ Nested(at, <<Fst, Fst>>, e) \in Seq(Items)
         /\ Reads(e, Nested(at, <<Fst, Fst>>, e))
<1>1. PICK f : f = FromMain(at, e[Fst])
  OBVIOUS
<1>2. Nested(at, <<Fst, Fst>>, e) = f
  BY <1>1 DEF Nested, ED, AD, ADsk, SrvD, ExtP, MD, Fst, none
<1>3. /\ f \in Seq(Items) /\ f # <<>>
      /\ \A z : Has(f, z) <=> z = <<Fst, none>> \/ \E y : z = <<y, y>> /\ InMain(at, e[Fst], y)
      /\ \A z \in Roots : Once(f, z)
  BY <1>1, FromMainHas
<1>4. ASSUME NEW y, InMain(at, e[Fst], y) PROVE y \in Single
  BY <1>4 DEF InMain, Single
<1>5. ASSUME NEW x \in {Fst} \cup SlotsOf(f) PROVE Kind(x) \notin BladedKinds
  <2>1. CASE x = Fst
    BY <2>1 DEF Kind, Fst, BladedKinds
  <2>2. CASE x \in SlotsOf(f)
    <3>1. PICK z : Has(f, z) /\ x = z[2]
      BY <1>3, <2>2, SeqHas
    <3>2. CASE z = <<Fst, none>>
      BY <3>1, <3>2, ItemKinds
    <3>3. ASSUME NEW y, z = <<y, y>>, InMain(at, e[Fst], y) PROVE Kind(x) \notin BladedKinds
      BY <1>4, <3>1, <3>3, PartSlots
    <3>. QED BY <1>3, <3>1, <3>2, <3>3
  <2>. QED BY <2>1, <2>2
<1>6. OneOrEach({Fst} \cup SlotsOf(f))
  BY <1>5 DEF OneOrEach
<1>7. \A kind \in BladedKinds : OwnerOf(kind) \in Roots /\ NoneOf({Fst} \cup SlotsOf(f), kind)
  BY <1>5, ItemKinds DEF NoneOf
<1>8. ~Has(f, <<Fst, Fst>>)
  <2>1. ASSUME NEW y, InMain(at, e[Fst], y) PROVE y # Fst
    BY <1>4, <2>1, PartSlots
  <2>2. Fst # none
    BY DEF Fst, none
  <2>. QED BY <1>3, <2>1, <2>2
<1>9. Fst \in Slots
  BY ItemKinds
<1>10. Reads(e, f)
  BY <1>3, <1>6, <1>7, <1>8, <1>9 DEF Reads
<1>. QED BY <1>2, <1>3, <1>10

\* What a program reads, and what it has read.
Reader(q) ==
  /\ pc[q] = "reading" => Reads(vt[q], todo[q]) /\ todo[q] # <<>>
  /\ pc[q] \in {"read", "failed"} => HasRead(vt[q])

\* Read: one more file is taken, and what it asks for is to be read.
LEMMA ReadReader ==
  ASSUME LoadedAsRead, LoadedWritable, DeckInv, BaseInv, NEW p \in Programs, Reader(p), Read(p)
  PROVE  Reader(p)'
<1>1. PICK n, at, d, s, h : n = target[p] /\ at = Under(n) /\ d = vt[p] /\ s = todo[p] /\ h = Head(s)
  OBVIOUS
<1>2. PICK r \in ReadNext(at, d, s) :
        /\ r[3] # "hung" /\ vt' = [vt EXCEPT ![p] = r[1]] /\ todo' = [todo EXCEPT ![p] = r[2]]
        /\ pc' = [pc EXCEPT ![p] = IF r[3] = "raised" THEN "failed"
                                   ELSE IF r[2] = <<>> THEN "read" ELSE "reading"]
  BY <1>1 DEF Read
<1>3. pc[p] = "reading" /\ Reads(d, s) /\ s # <<>> /\ TypeInv
  BY <1>1 DEF Read, Reader, DeckInv
<1>4. /\ vt'[p] = r[1] /\ todo'[p] = r[2]
      /\ pc'[p] = IF r[3] = "raised" THEN "failed" ELSE IF r[2] = <<>> THEN "read" ELSE "reading"
  BY <1>2, <1>3 DEF TypeInv
<1>5. s \in Seq(Items) /\ \A part \in DOMAIN d : part \in Slots /\ Typed(part, d[part])
  BY <1>3 DEF Reads
<1>6. h \in Items /\ Has(s, h) /\ h[2] \in SlotsOf(s) /\ (Len(s) = 1 => Tail(s) = <<>>)
  BY <1>1, <1>3, <1>5, TailOnce
<1>7. ASSUME HasRead(r[1]), r[3] = "raised" PROVE Reader(p)'
  BY <1>4, <1>7 DEF Reader
<1>8. ASSUME Reads(r[1], r[2]) PROVE Reader(p)'
  <2>1. HasRead(r[1])
    <3>1. PICK slots : slots = DOMAIN r[1] \cup SlotsOf(r[2])
      OBVIOUS
    <3>2. OneOrEach(slots) /\ DOMAIN r[1] \subseteq slots
      BY <1>8, <3>1 DEF Reads
    <3>. QED BY <1>8, <3>2, FewerKeys DEF Reads, HasRead
  <2>. QED BY <1>4, <1>8, <2>1 DEF Reader
<1>9. CASE r[1] = d /\ r[3] \in {"raised", "hung"}
  <2>1. HasRead(d)
    <3>1. PICK slots : slots = DOMAIN d \cup SlotsOf(s)
      OBVIOUS
    <3>2. OneOrEach(slots) /\ DOMAIN d \subseteq slots
      BY <1>3, <3>1 DEF Reads
    <3>. QED BY <1>5, <3>2, FewerKeys DEF HasRead
  <2>. QED BY <1>2, <1>7, <1>9, <2>1
<1>10. CASE h = <<Fst, none>> /\ r[1] = d /\ r[2] = Nested(at, h, d) \o Tail(s)
  <2>1. Fst \in DOMAIN d /\ h # <<Fst, Fst>> /\ h[2] = none
    BY <1>3, <1>6, <1>10 DEF Reads, Fst, none
  <2>2. PICK next : next = Nested(at, h, d)
    OBVIOUS
  <2>3. Fit(next, h)
    BY <1>5, <1>6, <2>1, <2>2, NestedFit
  <2>4. Reads(d, next \o Tail(s))
    BY <1>1, <1>3, <1>5, <2>1, <2>3, ReadsOn
  <2>. QED BY <1>8, <1>10, <2>2, <2>4
<1>11. ASSUME NEW reading, NEW e, Took(at, d, h, reading, e), r[1] = e,
              \/ r[3] = "raised"
              \/ r[2] = Nested(at, h, e) \o Tail(s)
       PROVE  Reader(p)'
  <2>1. /\ DOMAIN d \subseteq DOMAIN e /\ DOMAIN e \subseteq DOMAIN d \cup {h[2]}
        /\ h[2] # none => h[2] \in DOMAIN e
        /\ \A part \in DOMAIN e : part \in Slots /\ Typed(part, e[part])
    BY <1>1, <1>3, <1>5, <1>6, <1>11, TookTyped
  <2>2. CASE r[3] = "raised"
    <3>1. PICK slots : slots = DOMAIN d \cup SlotsOf(s)
      OBVIOUS
    <3>2. OneOrEach(slots) /\ DOMAIN e \subseteq slots
      BY <1>3, <1>6, <2>1, <3>1 DEF Reads
    <3>3. HasRead(e)
      BY <2>1, <3>2, FewerKeys DEF HasRead
    <3>. QED BY <1>7, <1>11, <2>2, <3>3
  <2>3. PICK next : next = Nested(at, h, e)
    OBVIOUS
  <2>4. CASE r[2] = next \o Tail(s) /\ h = <<Fst, Fst>>
    <3>1. Len(s) = 1 /\ DOMAIN d = {} /\ Tail(s) = <<>> /\ Fst # none
      BY <1>3, <1>6, <2>4 DEF Reads, Fst, none
    <3>2. DOMAIN e = {Fst} /\ Typed(Fst, e[Fst])
      BY <2>1, <2>4, <3>1
    <3>3. next \in Seq(Items) /\ Reads(e, next)
      BY <2>3, <2>4, <3>2, MainReads
    <3>4. r[2] = next
      <4>1. next \o <<>> = next
        BY <3>3
      <4>. QED BY <2>4, <3>1, <4>1
    <3>. QED BY <1>8, <1>11, <3>3, <3>4
  <2>5. CASE r[2] = next \o Tail(s) /\ h # <<Fst, Fst>>
    <3>1. h # <<Fst, none>>
      BY <1>11 DEF Took
    <3>2. Fit(next, h)
      BY <1>6, <2>1, <2>3, <2>5, <3>1, NestedFit
    <3>3. Reads(e, next \o Tail(s))
      BY <1>1, <1>3, <2>1, <2>5, <3>2, ReadsOn
    <3>. QED BY <1>8, <1>11, <2>5, <3>3
  <2>. QED BY <1>11, <2>2, <2>3, <2>4, <2>5
<1>12. \/ r[1] = d /\ r[3] \in {"raised", "hung"}
       \/ h = <<Fst, none>> /\ r[1] = d /\ r[2] = Nested(at, h, d) \o Tail(s)
       \/ \E reading, e : /\ Took(at, d, h, reading, e) /\ r[1] = e
                          /\ r[3] = "raised" \/ r[2] = Nested(at, h, e) \o Tail(s)
  <2>1. r \in ReadNext(at, d, s) /\ h = Head(s)
    BY <1>1, <1>2
  <2>2. ReadsTo(at, d, s, h, r)
    BY <2>1, ReadNextIs
  <2>. QED BY <2>2 DEF ReadsTo
<1>. QED BY <1>9, <1>10, <1>11, <1>12

\* StartRead: there is the main file to read.
LEMMA StartReadReader ==
  ASSUME TypeInv, NEW p \in Programs, StartRead(p)
  PROVE  Reader(p)'
<1>1. PICK s : s = <<<<Fst, Fst>>>>
  OBVIOUS
<1>2. pc'[p] = "reading" /\ todo'[p] = s /\ vt'[p] = <<>>
  BY <1>1 DEF StartRead, TypeInv
<1>3. /\ s \in Seq(Items) /\ Len(s) = 1 /\ s # <<>> /\ \A x : Has(s, x) <=> x = <<Fst, Fst>>
      /\ SlotsOf(s) = {Fst}
  BY <1>1, ItemKinds DEF Has, SlotsOf
<1>4. Fst # none /\ <<Fst, Fst>> \notin Roots /\ Kind(Fst) \notin BladedKinds
  BY DEF Fst, none, Roots, ED, AD, Kind, BladedKinds
<1>5. OneOrEach({} \cup SlotsOf(s))
  BY <1>3, <1>4 DEF OneOrEach
<1>6. \A kind \in BladedKinds : ~Has(s, OwnerOf(kind))
  BY <1>3, <1>4, ItemKinds
<1>7. PICK d : d = <<>> /\ DOMAIN d = {}
  OBVIOUS
<1>8. Reads(d, s)
  BY <1>3, <1>4, <1>5, <1>6, <1>7 DEF Reads
<1>. QED BY <1>2, <1>3, <1>7, <1>8 DEF Reader

\* Everything a program has stays typed.
ReadingInv == DeckInv /\ BaseInv /\ \A q \in Programs : Reader(q)
LEMMA ReadingStep ==
  ASSUME LoadedAsRead, LoadedWritable
  PROVE  ReadingInv /\ [Next]_vars => ReadingInv'
<1>. SUFFICES ASSUME ReadingInv, [Next]_vars PROVE ReadingInv'
  OBVIOUS
<1>1. DeckInv /\ BaseInv /\ TypeInv
  BY DEF ReadingInv, DeckInv
<1>2. DeckInv'
  BY <1>1, StepInv
<1>3. ASSUME NEW p \in Programs, Move(p), Reader(p)' PROVE \A q \in Programs : Reader(q)'
  <2>1. ASSUME NEW q \in Programs \ {p} PROVE Reader(q)'
    BY <1>1, <1>3, OthersRest DEF ReadingInv, SameFor, Reader
  <2>. QED BY <1>3, <2>1
<1>4. ASSUME NEW p \in Programs, StartWrite(p) PROVE ReadingInv'
  <2>1. pc'[p] = "writing" /\ Move(p)
    BY <1>1, <1>4 DEF StartWrite, TypeInv, Move
  <2>2. Reader(p)'
    BY <2>1 DEF Reader
  <2>. QED BY <1>1, <1>2, <1>3, <1>4, <2>1, <2>2, StartWriteBase DEF ReadingInv
<1>5. ASSUME NEW p \in Programs, Open(p) \/ Close(p) PROVE ReadingInv'
  <2>1. pc'[p] \in {"writing", "wrote"} /\ Move(p)
    BY <1>1, <1>5 DEF Open, Close, TypeInv, Move, Act
  <2>2. Reader(p)'
    BY <2>1 DEF Reader
  <2>. QED BY <1>1, <1>2, <1>3, <1>5, <2>1, <2>2, WriteBase DEF ReadingInv
<1>6. ASSUME NEW p \in Programs, Raise(p) \/ Kill(p) PROVE ReadingInv'
  <2>1. pc'[p] = "cut" /\ Move(p)
    BY <1>1, <1>6 DEF Raise, Kill, EndEarly, TypeInv, Move, Act
  <2>2. Reader(p)'
    BY <2>1 DEF Reader
  <2>. QED BY <1>1, <1>2, <1>3, <1>6, <2>1, <2>2, EndEarlyBase DEF ReadingInv
<1>7. ASSUME NEW p \in Programs, StartRead(p) PROVE ReadingInv'
  <2>1. Move(p) /\ Reader(p)'
    BY <1>1, <1>7, StartReadReader DEF Move
  <2>. QED BY <1>1, <1>2, <1>3, <1>7, <2>1, ReadBase DEF ReadingInv
<1>8. ASSUME NEW p \in Programs, Read(p) PROVE ReadingInv'
  <2>1. Move(p) /\ Reader(p)'
    BY <1>1, <1>8, ReadReader DEF Move, Act, ReadingInv
  <2>. QED BY <1>1, <1>2, <1>3, <1>8, <2>1, ReadBase DEF ReadingInv
<1>9. CASE UNCHANGED vars
  <2>1. UNCHANGED <<source, target, pc, todo, vt, wrote, disk, writer, kills>>
    BY <1>9 DEF vars
  <2>2. BaseInv'
    <3>1. \A q \in Programs : Origin(q)' /\ Working(q)'
      BY <1>1, <2>1 DEF BaseInv, Origin, Working, Copy
    <3>2. OnRecord' /\ Apart' /\ Assigned' /\ kills' \in 0..MaxKills
      BY <1>1, <2>1 DEF BaseInv, OnRecord, FileFrom, Apart, Busy, Assigned
    <3>. QED BY <3>1, <3>2 DEF BaseInv
  <2>3. \A q \in Programs : Reader(q)'
    BY <2>1 DEF ReadingInv, Reader
  <2>. QED BY <1>2, <2>2, <2>3 DEF ReadingInv
<1>. QED BY <1>4, <1>5, <1>6, <1>7, <1>8, <1>9 DEF Next, Act

LEMMA InitReading == Init => ReadingInv
<1>. SUFFICES ASSUME Init PROVE ReadingInv
  OBVIOUS
<1>1. \A q \in Programs : pc[q] = "loading"
  BY DEF Init
<1>. QED BY <1>1, InitInv, InitBase DEF ReadingInv, Reader

\* The invariant implies the types.
LEMMA ReadingTypes ==
  ASSUME LoadedAsRead, LoadedWritable, ReadingInv
  PROVE  TypeOK
<1>1. TypeInv /\ BaseInv
  BY DEF ReadingInv, DeckInv
<1>2. source \in [Programs -> DOMAIN SourceFiles] /\ target \in [Programs -> Names] /\ kills \in 0..MaxKills
  BY <1>1 DEF TypeInv, BaseInv
<1>3. ASSUME NEW f \in DOMAIN disk PROVE disk[f].done \in 0..disk[f].all
  BY <1>1 DEF BaseInv, OnRecord, FileFrom
<1>4. ASSUME NEW p \in Programs
      PROVE  /\ pc[p] \in {"loading", "writing", "wrote", "cut", "reading", "read", "failed"}
             /\ todo[p] = <<>> \/ pc[p] \in {"writing", "reading", "failed"}
             /\ \A part \in DOMAIN vt[p] :
                  /\ vt[p][part].ver \in Programs \cup {Incomplete}
                  /\ <<Kind(part), 0>> \notin DOMAIN vt[p] \/ part[2] = 0
  <2>1. Origin(p) /\ Reader(p)
    BY <1>1 DEF BaseInv, ReadingInv
  <2>2. CASE pc[p] = "loading"
    BY <2>1, <2>2 DEF Origin
  <2>3. CASE pc[p] \in {"writing", "wrote", "cut"}
    <3>1. /\ vt[p] = wrote[p] /\ BladesFit(wrote[p])
          /\ \A part \in DOMAIN wrote[p] : wrote[p][part].ver = p
      BY <1>1, <2>1, <2>3, WroteFits DEF Origin
    <3>. QED BY <2>1, <2>3, <3>1 DEF Origin, BladesFit, ForAll
  <2>4. ASSUME \A part \in DOMAIN vt[p] : part \in Slots /\ Typed(part, vt[p][part]), OneOrEach(DOMAIN vt[p]),
               NEW part \in DOMAIN vt[p]
        PROVE  /\ vt[p][part].ver \in Programs \cup {Incomplete}
               /\ <<Kind(part), 0>> \notin DOMAIN vt[p] \/ part[2] = 0
    <3>1. CASE Kind(part) \in BladedKinds
      BY <2>4, <3>1 DEF OneOrEach, Typed
    <3>2. CASE Kind(part) \notin BladedKinds /\ part[2] # 0
      <4>1. Kind(part) \in ManyKinds
        BY <2>4, <3>2 DEF Slots, Kind
      <4>2. <<Kind(part), 0>> \notin Slots
        BY <4>1 DEF Slots, OneKinds, ManyKinds, BladedKinds, StCKinds
      <4>. QED BY <2>4, <4>2 DEF Typed
    <3>. QED BY <2>4, <3>1, <3>2 DEF Typed
  <2>5. CASE pc[p] = "reading"
    <3>1. PICK slots : slots = DOMAIN vt[p] \cup SlotsOf(todo[p])
      OBVIOUS
    <3>2. OneOrEach(slots) /\ DOMAIN vt[p] \subseteq slots
      BY <2>1, <2>5, <3>1 DEF Reader, Reads
    <3>3. OneOrEach(DOMAIN vt[p]) /\ \A part \in DOMAIN vt[p] : part \in Slots /\ Typed(part, vt[p][part])
      BY <2>1, <2>5, <3>2, FewerKeys DEF Reader, Reads
    <3>. QED BY <2>4, <2>5, <3>3
  <2>6. CASE pc[p] \in {"read", "failed"}
    BY <2>1, <2>4, <2>6 DEF Reader, HasRead, Origin
  <2>. QED BY <2>1, <2>2, <2>3, <2>5, <2>6 DEF Origin
<1>. QED BY <1>2, <1>3, <1>4 DEF TypeOK

\* TypeOK: for all decks whose dictionaries are as the reader makes them and have what the
\* writer writes of them, whatever the names and the number of programs and whoever is
\* killed: what a program has, also while it reads files of several decks, is of one
\* program or incomplete, for each kind of blades there is one dictionary or one for each,
\* and of a file there is never more than was to be written (read_* and write_*, execute).
THEOREM DecksTyped ==
  ASSUME LoadedAsRead, LoadedWritable
  PROVE  Spec => []TypeOK
<1>1. ReadingInv => TypeOK
  BY ReadingTypes
<1>. QED BY <1>1, InitReading, ReadingStep, PTL DEF Spec

-----------------------------------------------------------------------------

\* The file of the part is as q wrote it.
Held(q, part) ==
  /\ part \in FilesOf(wrote[q]) /\ FileOf(target[q], part) \in DOMAIN disk
  /\ disk[FileOf(target[q], part)] = Whole(part, Stored(wrote[q], part))
\* The files that q writes under the name of its deck.
Ours(q, part) == ~KeepsName(part) /\ Closes(WritePlan(wrote[q]), part)
\* While q writes they are as it wrote them, or it has still to close them; after a whole
\* write they are all as the last writer wrote them.
Pending(q) == pc[q] = "writing" => \A part : Ours(q, part) => Closes(todo[q], part) \/ Held(q, part)
WholeDeck(n) ==
  writer[n].state = "whole" =>
    /\ writer[n].by \in Programs /\ target[writer[n].by] = n
    /\ pc[writer[n].by] \notin {"loading", "writing"}
    /\ \A part : Ours(writer[n].by, part) => Held(writer[n].by, part)
WholeInv == (\A q \in Programs : Pending(q)) /\ (\A n \in Names : WholeDeck(n))

\* The files under a name stay as they are.
Calm(n) ==
  \A part : ~KeepsName(part) /\ FileOf(n, part) \in DOMAIN disk =>
    FileOf(n, part) \in DOMAIN disk' /\ disk'[FileOf(n, part)] = disk[FileOf(n, part)]
LEMMA OthersHeld ==
  ASSUME NEW q, target'[q] = target[q], wrote'[q] = wrote[q], Calm(target[q]),
         NEW part, ~KeepsName(part), Held(q, part)
  PROVE  Held(q, part)'
BY DEF Held, Calm
LEMMA OthersPending ==
  ASSUME TypeInv, NEW p \in Programs, Move(p), NEW q \in Programs \ {p}, Pending(q), pc[q] = "writing" => Calm(target[q])
  PROVE  Pending(q)'
<1>1. target' = target /\ SameFor(q)
  BY OthersRest
<1>. QED BY <1>1, OthersHeld DEF SameFor, Pending, Ours
LEMMA OthersWhole ==
  ASSUME TypeInv, NEW p \in Programs, Move(p), NEW n \in Names, WholeDeck(n), writer'[n] = writer[n],
         Calm(n), writer[n].by = p => pc'[p] \notin {"loading", "writing"} /\ wrote'[p] = wrote[p]
  PROVE  WholeDeck(n)'
<1>. SUFFICES ASSUME writer[n].state = "whole" PROVE WholeDeck(n)'
  BY DEF WholeDeck
<1>1. PICK b : b = writer[n].by
  OBVIOUS
<1>2. /\ b \in Programs /\ target[b] = n /\ pc[b] \notin {"loading", "writing"}
      /\ \A part : Ours(b, part) => Held(b, part)
  BY <1>1 DEF WholeDeck
<1>3. target' = target /\ (b # p => SameFor(b))
  BY <1>2, OthersRest
<1>4. pc'[b] \notin {"loading", "writing"} /\ wrote'[b] = wrote[b]
  BY <1>1, <1>2, <1>3 DEF SameFor
<1>5. ASSUME NEW part, Ours(b, part)' PROVE Held(b, part)'
  <2>1. Ours(b, part) /\ ~KeepsName(part)
    BY <1>4, <1>5 DEF Ours
  <2>. QED BY <1>2, <1>3, <1>4, <2>1, OthersHeld
<1>6. writer'[n].by = b
  BY <1>1
<1>. QED BY <1>2, <1>3, <1>4, <1>5, <1>6 DEF WholeDeck

\* StartWrite: all of the files are to be closed.
LEMMA StartWriteWhole ==
  ASSUME DeckInv, WholeInv, NEW p \in Programs, StartWrite(p)
  PROVE  WholeInv'
<1>1. PICK d, n : d = Copy(p) /\ n = target[p]
  OBVIOUS
<1>2. /\ pc[p] = "loading" /\ disk' = disk /\ TypeInv /\ Move(p) /\ target' = target /\ n \in Names
      /\ wrote' = [wrote EXCEPT ![p] = d] /\ todo' = [todo EXCEPT ![p] = WritePlan(d)]
      /\ writer' = [writer EXCEPT ![n] = [by |-> p, state |-> "writing"]]
  BY <1>1 DEF StartWrite, Copy, DeckInv, Move, TypeInv
<1>3. \A m : Calm(m)
  BY <1>2 DEF Calm
<1>4. Pending(p)'
  BY <1>2 DEF TypeInv, Pending, Ours
<1>5. \A q \in Programs : Pending(q)'
  BY <1>2, <1>3, <1>4, OthersPending DEF WholeInv
<1>6. ASSUME NEW m \in Names PROVE WholeDeck(m)'
  <2>1. CASE m = n
    BY <1>2, <2>1 DEF TypeInv, WholeDeck
  <2>2. CASE m # n
    <3>1. writer'[m] = writer[m]
      BY <1>2, <2>2 DEF TypeInv
    <3>2. CASE writer[m].state = "whole"
      <4>1. writer[m].by # p
        BY <1>2, <3>2 DEF WholeInv, WholeDeck
      <4>. QED BY <1>2, <1>3, <3>1, <4>1, OthersWhole DEF WholeInv
    <3>3. CASE writer[m].state # "whole"
      BY <3>1, <3>3 DEF WholeDeck
    <3>. QED BY <3>2, <3>3
  <2>. QED BY <2>1, <2>2
<1>. QED BY <1>5, <1>6 DEF WholeInv

\* Where p writes, a step of it changes no file under another name.
LEMMA WriterAlone ==
  ASSUME TypeInv, BaseInv, Owned, WholeInv, NEW p \in Programs, Move(p), pc[p] = "writing",
         \A m \in Names : m # target[p] => Calm(m) /\ writer'[m] = writer[m]
  PROVE  /\ \A q \in Programs \ {p} : Pending(q)'
         /\ \A m \in Names : m # target[p] => WholeDeck(m)'
<1>1. ASSUME NEW q \in Programs \ {p} PROVE Pending(q)'
  <2>1. pc[q] = "writing" => target[q] # target[p]
    BY DEF BaseInv, Apart, Busy
  <2>2. target[q] \in Names
    BY DEF TypeInv
  <2>. QED BY <2>1, <2>2, OthersPending DEF WholeInv
<1>2. ASSUME NEW m \in Names, m # target[p] PROVE WholeDeck(m)'
  <2>1. writer[m].by # p
    BY <1>2 DEF Owned
  <2>. QED BY <1>2, <2>1, OthersWhole DEF WholeInv
<1>. QED BY <1>1, <1>2

\* Open and Close: what is closed is whole, what is opened is still to be closed.
LEMMA WriteWhole ==
  ASSUME DeckInv, BaseInv, WholeInv, NEW p \in Programs, Open(p) \/ Close(p)
  PROVE  WholeInv'
<1>1. PICK w, k, n : w = todo[p] /\ k = Head(todo[p])[2] /\ n = target[p]
  OBVIOUS
<1>2. /\ TypeInv /\ Owned /\ Move(p) /\ pc[p] = "writing" /\ Standing(p) /\ Working(p) /\ n \in Names
      /\ vt[p] = wrote[p] /\ Due(w) /\ Matched(w) /\ writer[n].by = p
  BY <1>1 DEF DeckInv, Move, Act, Open, Close, BaseInv, Standing, TypeInv, Owned
<1>3. /\ todo' = [todo EXCEPT ![p] = Tail(w)]
      /\ UNCHANGED <<source, target, vt, wrote, kills>>
  BY <1>1, <1>2 DEF Open, Close, Done, Step, TypeInv
<1>4. k \in FilesOf(wrote[p])
  <2>1. Len(w) \in Nat /\ Len(w) > 0 /\ Head(w) = w[1]
    BY <1>2, TailDue DEF Due
  <2>2. 1 \in 1..Len(w) /\ w[1][1] # "raise"
    BY <1>1, <2>1 DEF Open, Close, Step
  <2>. QED BY <1>1, <1>2, <2>1, <2>2 DEF Working
<1>5. PICK whole : whole = Whole(k, Stored(wrote[p], k))
  OBVIOUS
<1>6. PICK file : disk' = With(disk, FileOf(n, k), file) /\ (Close(p) => file = whole)
  <2>1. CASE Open(p)
    <3>1. ~Close(p)
      BY <2>1 DEF Open, Close
    <3>. QED BY <1>1, <2>1, <3>1 DEF Open, Step
  <2>2. CASE Close(p)
    BY <1>1, <1>2, <1>5, <2>2 DEF Close, Step
  <2>. QED BY <2>1, <2>2
<1>7. /\ DOMAIN disk' = DOMAIN disk \cup {FileOf(n, k)} /\ disk'[FileOf(n, k)] = file
      /\ \A f \in DOMAIN disk : f # FileOf(n, k) => disk'[f] = disk[f]
  BY <1>6 DEF With
<1>8. ASSUME NEW m, m # n PROVE Calm(m)
  BY <1>7, <1>8, FilesApart DEF Calm
<1>9. /\ \A m \in Names : m # n => writer'[m] = writer[m]
      /\ writer'[n].by = p
      /\ pc'[p] = "writing" \/ (pc'[p] = "wrote" /\ Close(p) /\ Tail(w) = <<>>)
      /\ writer'[n].state = "whole" => Close(p) /\ Tail(w) = <<>> /\ pc'[p] = "wrote"
  <2>1. writer[n].state # "whole"
    BY <1>2 DEF WholeInv, WholeDeck
  <2>2. CASE Open(p)
    BY <1>2, <2>1, <2>2 DEF Open
  <2>3. CASE Close(p) /\ Tail(w) = <<>>
    <3>1. pc' = [pc EXCEPT ![p] = "wrote"] /\ writer' = [writer EXCEPT ![n].state = "whole"]
      BY <1>1, <2>3 DEF Close
    <3>. QED BY <1>2, <2>3, <3>1 DEF TypeInv
  <2>4. CASE Close(p) /\ Tail(w) # <<>>
    <3>1. pc' = pc /\ writer' = writer
      BY <1>1, <2>4 DEF Close
    <3>. QED BY <1>2, <2>1, <3>1
  <2>. QED BY <2>2, <2>3, <2>4
<1>10. ASSUME NEW part, Ours(p, part) PROVE Closes(Tail(w), part) \/ Held(p, part)'
  <2>1. ~KeepsName(part) /\ (Closes(w, part) \/ Held(p, part))
    BY <1>1, <1>2, <1>10 DEF WholeInv, Pending, Ours
  <2>2. CASE part = k /\ Open(p)
    <3>1. Head(w)[1] = "open"
      BY <1>1, <2>2 DEF Open, Step
    <3>. QED BY <1>1, <1>2, <2>2, <3>1, TailDue
  <2>3. CASE part = k /\ Close(p)
    <3>1. Held(p, k)'
      BY <1>1, <1>3, <1>4, <1>5, <1>6, <1>7, <2>3 DEF Held
    <3>. QED BY <2>3, <3>1
  <2>4. CASE part # k
    <3>1. Head(w) # <<"close", part>> /\ Head(w)[1] # "raise"
      BY <1>1, <2>4 DEF Open, Close, Step
    <3>2. CASE Closes(w, part)
      BY <1>2, <3>1, <3>2, TailDue
    <3>3. CASE Held(p, part)
      <4>1. FileOf(n, part) # FileOf(n, k)
        BY <2>1, <2>4, FilesApart
      <4>. QED BY <1>1, <1>3, <1>7, <3>3, <4>1 DEF Held
    <3>. QED BY <2>1, <3>2, <3>3
  <2>. QED BY <2>2, <2>3, <2>4
<1>11. \A part : Ours(p, part)' <=> Ours(p, part)
  BY <1>3 DEF Ours
<1>12. Pending(p)'
  <2>1. todo'[p] = Tail(w)
    BY <1>2, <1>3 DEF TypeInv
  <2>. QED BY <1>10, <1>11, <2>1 DEF Pending
<1>13. WholeDeck(n)'
  <2>1. SUFFICES ASSUME Close(p), Tail(w) = <<>>, pc'[p] = "wrote" PROVE WholeDeck(n)'
    BY <1>9 DEF WholeDeck
  <2>2. \A part : ~Closes(<<>>, part)
    BY DEF Closes
  <2>3. \A part : Ours(p, part)' => Held(p, part)'
    BY <1>10, <1>11, <2>1, <2>2
  <2>. QED BY <1>1, <1>3, <1>9, <2>1, <2>3 DEF WholeDeck
<1>14. \A m \in Names : m # target[p] => Calm(m) /\ writer'[m] = writer[m]
  BY <1>1, <1>8, <1>9
<1>15. /\ \A q \in Programs \ {p} : Pending(q)'
       /\ \A m \in Names : m # target[p] => WholeDeck(m)'
  BY <1>2, <1>14, WriterAlone
<1>. QED BY <1>1, <1>12, <1>13, <1>15 DEF WholeInv

\* Raise and Kill: only files of that name are cut.
LEMMA EndEarlyWhole ==
  ASSUME DeckInv, BaseInv, WholeInv, NEW p \in Programs, Raise(p) \/ Kill(p)
  PROVE  WholeInv'
<1>1. PICK n : n = target[p]
  OBVIOUS
<1>2. /\ TypeInv /\ Owned /\ Move(p) /\ EndEarly(p) /\ pc[p] = "writing" /\ n \in Names
  BY <1>1 DEF DeckInv, Move, Act, Raise, Kill, TypeInv
<1>3. PICK left \in [OpenFiles(p) -> 0..MostSections] :
        disk' = [f \in DOMAIN disk |-> IF f \in DOMAIN left THEN [disk[f] EXCEPT !.done = left[f]] ELSE disk[f]]
  BY <1>2 DEF EndEarly
<1>4. pc' = [pc EXCEPT ![p] = "cut"] /\ writer' = [writer EXCEPT ![n].state = "cut"]
  BY <1>1, <1>2 DEF EndEarly
<1>5. ASSUME NEW m, m # n PROVE Calm(m)
  <2>1. ASSUME NEW part, ~KeepsName(part), FileOf(m, part) \in DOMAIN left PROVE FALSE
    <3>1. PICK k : FileOf(m, part) = FileOf(n, k)
      BY <1>1, <2>1 DEF OpenFiles
    <3>. QED BY <1>5, <2>1, <3>1, FilesApart
  <2>. QED BY <1>3, <2>1 DEF Calm
<1>6. /\ \A q \in Programs \ {p} : Pending(q)'
      /\ \A m \in Names : m # target[p] => WholeDeck(m)'
  <2>1. \A m \in Names : m # target[p] => Calm(m) /\ writer'[m] = writer[m]
    BY <1>1, <1>2, <1>4, <1>5 DEF TypeInv
  <2>. QED BY <1>2, <2>1, WriterAlone
<1>7. Pending(p)' /\ WholeDeck(n)'
  BY <1>2, <1>4 DEF TypeInv, Pending, WholeDeck
<1>. QED BY <1>1, <1>6, <1>7 DEF WholeInv

\* StartRead and Read change no file.
LEMMA ReadWhole ==
  ASSUME DeckInv, WholeInv, NEW p \in Programs, StartRead(p) \/ Read(p)
  PROVE  WholeInv'
<1>1. /\ TypeInv /\ Move(p) /\ UNCHANGED <<target, wrote, disk, writer>>
      /\ pc'[p] \in {"reading", "read", "failed"}
  <2>1. CASE StartRead(p)
    BY <2>1 DEF StartRead, TypeInv, DeckInv, Move
  <2>2. CASE Read(p)
    <3>1. PICK r : pc' = [pc EXCEPT ![p] = IF r[3] = "raised" THEN "failed"
                                           ELSE IF r[2] = <<>> THEN "read" ELSE "reading"]
      BY <2>2 DEF Read
    <3>. QED BY <2>2, <3>1 DEF Read, TypeInv, DeckInv, Move, Act
  <2>. QED BY <2>1, <2>2
<1>2. \A n : Calm(n)
  BY <1>1 DEF Calm
<1>3. Pending(p)'
  BY <1>1 DEF Pending
<1>4. \A q \in Programs : Pending(q)'
  BY <1>1, <1>2, <1>3, OthersPending DEF WholeInv
<1>5. \A n \in Names : WholeDeck(n)'
  BY <1>1, <1>2, OthersWhole DEF WholeInv
<1>. QED BY <1>4, <1>5 DEF WholeInv

-----------------------------------------------------------------------------

\* What a reader may take where the deck w was written whole: files of w, those that keep
\* their names, and a wake file; and what there is to read of such.
Apt(w, part) == KeepsName(part) \/ part = OLAF \/ Sought(w, part)
Good(w) == {part \in Slots : Apt(w, part)}
GoodItems(w) == {<<part, part>> : part \in Good(w)} \cup {<<Fst, none>>}
\* What it has read of w is as w was stored.
Genuine(w, d) ==
  \A part \in DOMAIN d :
    KeepsName(part) \/ part = OLAF \/ (Sought(w, part) /\ d[part] = Kept(part, Stored(w, part)))
\* The files at a place are those of w, as far as w asks for them.
Presents(at, w) ==
  /\ AsRead(w) /\ BladesFit(w) /\ Writable(w) /\ ~InSource(at)
  /\ \A part : Sought(w, part) /\ ~KeepsName(part) =>
       part \in FilesOf(w) /\ FileAt(at, part) = Whole(part, Stored(w, part))
  /\ Found(at, DISCON) /\ w[Fst].CompServo = 1 /\ w[SrvD].DLL_InFile = 1 => DISCON \in DOMAIN w
  /\ Found(at, <<"BD", w[Fst].files[1]>>) => BladesOf(w, "BD") # <<>>

\* What a file says of the deck that asks for it.
LEMMA SoughtOnly ==
  ASSUME NEW w
  PROVE  /\ Sought(w, ED) => w[Fst].CompElast # 3
         /\ Sought(w, AD) => w[Fst].CompAero = 2
         /\ Sought(w, ADsk) => w[Fst].CompAero = 1
         /\ Sought(w, SrvD) => w[Fst].CompServo = 1
         /\ Sought(w, ExtP) => w[Fst].CompSub = 2
         /\ Sought(w, MD) => w[Fst].CompMooring = 3
BY DEF Sought, AskedBack, AskedFor, StCKinds, Fst, ED, SED, Tower, IfW, OLAF, ADsk, ADskProp, AD, SrvD, HD, SeaSt,
       SubD, ExtP, SE, Conn, UserF, ConnF, MAP, MD, WK, DISCON, SpdTrq

\* What the main file of w asks for.
LEMMA SoughtByMain ==
  ASSUME NEW w, NEW at, NEW part, InMain(at, w[Fst], part)
  PROVE  Sought(w, part) /\ part \in Single
<1>1. AskedFor(w, part)
  BY DEF InMain, AskedFor
<1>2. Kind(part) \notin {"ADBlade", "WK", "DISCON"} /\ part \in Single
  BY DEF InMain, Single, Kind, Fst, ED, SED, IfW, ADsk, AD, SrvD, HD, SeaSt, SubD, ExtP, MAP, MD
<1>. QED BY <1>1, <1>2 DEF Sought, AskedBack

\* And the files of modules of it.
LEMMA SoughtByModules ==
  ASSUME NEW w
  PROVE  /\ Sought(w, Fst)
         /\ w[Fst].CompElast # 3 => Sought(w, Tower)
         /\ w[Fst].CompElast = 1 => Sought(w, <<"EDBlade", 0>>)
         /\ w[Fst].CompAero = 1 => Sought(w, ADskProp)
         /\ w[Fst].CompAero = 2 =>
              /\ \A i \in 1..w[AD].NumAFfiles : Sought(w, <<"Polar", i>>)
              /\ \A i \in 1..Len(w[AD].coords) : Sought(w, <<"Coord", w[AD].coords[i]>>)
              /\ ForAll(w, "ADBlade") => Sought(w, <<"ADBlade", 0>>)
              /\ ForEach(w, "ADBlade") => \A i \in 1..3 : Sought(w, <<"ADBlade", i>>)
         /\ w[Fst].CompSub = 2 =>
              /\ Sought(w, SE)
              /\ w[ExtP].HasConnections = 1 => Sought(w, Conn)
              /\ w[ExtP].HasUserForcing = 1 => Sought(w, UserF)
              /\ w[ExtP].HasConnForcing = 1 => Sought(w, ConnF)
         /\ w[Fst].CompMooring = 3 /\ WK \in DOMAIN w => Sought(w, WK)
         /\ ForAll(w, "BD") => Sought(w, <<"BD", 0>>) /\ Sought(w, <<"BDBlade", 0>>)
         /\ ForEach(w, "BD") => \A i \in 1..3 : Sought(w, <<"BD", i>>) /\ Sought(w, <<"BDBlade", i>>)
<1>1. /\ AskedFor(w, Fst)
      /\ w[Fst].CompElast # 3 => AskedFor(w, Tower)
      /\ w[Fst].CompAero = 1 => AskedFor(w, ADskProp)
      /\ w[Fst].CompMooring = 3 => AskedFor(w, WK)
  BY DEF AskedFor
<1>2. ASSUME w[Fst].CompAero = 2
      PROVE  /\ \A i \in 1..w[AD].NumAFfiles : AskedFor(w, <<"Polar", i>>)
             /\ \A i \in 1..Len(w[AD].coords) : AskedFor(w, <<"Coord", w[AD].coords[i]>>)
             /\ ForAll(w, "ADBlade") => AskedFor(w, <<"ADBlade", 0>>)
             /\ ForEach(w, "ADBlade") => \A i \in 1..3 : AskedFor(w, <<"ADBlade", i>>)
  <2>1. \A i \in 1..w[AD].NumAFfiles : AskedFor(w, <<"Polar", i>>)
    BY <1>2 DEF AskedFor
  <2>2. \A i \in 1..Len(w[AD].coords) : AskedFor(w, <<"Coord", w[AD].coords[i]>>)
    BY <1>2 DEF AskedFor
  <2>3. ForAll(w, "ADBlade") => AskedFor(w, <<"ADBlade", 0>>)
    BY <1>2 DEF AskedFor, ForAll
  <2>4. ASSUME ForEach(w, "ADBlade"), NEW i \in 1..3 PROVE AskedFor(w, <<"ADBlade", i>>)
    BY <1>2, <2>4 DEF AskedFor, ForEach, ForAll
  <2>. QED BY <2>1, <2>2, <2>3, <2>4
<1>3. ASSUME w[Fst].CompSub = 2
      PROVE  /\ AskedFor(w, SE)
             /\ w[ExtP].HasConnections = 1 => AskedFor(w, Conn)
             /\ w[ExtP].HasUserForcing = 1 => AskedFor(w, UserF)
             /\ w[ExtP].HasConnForcing = 1 => AskedFor(w, ConnF)
  BY <1>3 DEF AskedFor
<1>4. ForAll(w, "BD") => AskedFor(w, <<"BD", 0>>) /\ AskedFor(w, <<"BDBlade", 0>>)
  BY DEF AskedFor, ForAll
<1>5. ASSUME ForEach(w, "BD"), NEW i \in 1..3 PROVE AskedFor(w, <<"BD", i>>) /\ AskedFor(w, <<"BDBlade", i>>)
  BY <1>5 DEF AskedFor, ForEach, ForAll
<1>6. \A part : AskedFor(w, part) /\ Kind(part) \notin {"ADBlade", "WK", "DISCON"} => Sought(w, part)
  BY DEF Sought, AskedBack
<1>7. \A part : AskedFor(w, part) /\ part \in DOMAIN w => Sought(w, part)
  BY DEF Sought, AskedBack
<1>8. \A i : /\ Kind(<<"Polar", i>>) = "Polar" /\ Kind(<<"Coord", i>>) = "Coord"
             /\ Kind(<<"BD", i>>) = "BD" /\ Kind(<<"BDBlade", i>>) = "BDBlade"
             /\ Kind(<<"EDBlade", i>>) = "EDBlade"
  BY DEF Kind
<1>9. \A part \in {Fst, Tower, ADskProp, SE, Conn, UserF, ConnF} : Kind(part) \notin {"ADBlade", "WK", "DISCON"}
  BY DEF Kind, Fst, Tower, ADskProp, SE, Conn, UserF, ConnF
<1>10. w[Fst].CompElast = 1 => Sought(w, <<"EDBlade", 0>>)
  BY <1>8 DEF Sought, AskedBack
<1>11. \A i \in 1..3 : ForEach(w, "ADBlade") => <<"ADBlade", i>> \in DOMAIN w
  BY DEF ForEach
<1>12. ForAll(w, "ADBlade") => <<"ADBlade", 0>> \in DOMAIN w
  BY DEF ForAll
<1>13. ASSUME w[Fst].CompAero = 2
       PROVE  /\ \A i \in 1..w[AD].NumAFfiles : Sought(w, <<"Polar", i>>)
              /\ \A i \in 1..Len(w[AD].coords) : Sought(w, <<"Coord", w[AD].coords[i]>>)
              /\ ForAll(w, "ADBlade") => Sought(w, <<"ADBlade", 0>>)
              /\ ForEach(w, "ADBlade") => \A i \in 1..3 : Sought(w, <<"ADBlade", i>>)
  BY <1>2, <1>6, <1>7, <1>8, <1>11, <1>12, <1>13
<1>14. ASSUME w[Fst].CompSub = 2
       PROVE  /\ Sought(w, SE)
              /\ w[ExtP].HasConnections = 1 => Sought(w, Conn)
              /\ w[ExtP].HasUserForcing = 1 => Sought(w, UserF)
              /\ w[ExtP].HasConnForcing = 1 => Sought(w, ConnF)
  BY <1>3, <1>6, <1>9, <1>14
<1>15. ForAll(w, "BD") => Sought(w, <<"BD", 0>>) /\ Sought(w, <<"BDBlade", 0>>)
  BY <1>4, <1>6, <1>8
<1>16. ASSUME ForEach(w, "BD"), NEW i \in 1..3 PROVE Sought(w, <<"BD", i>>) /\ Sought(w, <<"BDBlade", i>>)
  BY <1>5, <1>6, <1>8, <1>16
<1>17. /\ Sought(w, Fst) /\ (w[Fst].CompElast # 3 => Sought(w, Tower))
       /\ w[Fst].CompAero = 1 => Sought(w, ADskProp)
       /\ w[Fst].CompMooring = 3 /\ WK \in DOMAIN w => Sought(w, WK)
  BY <1>1, <1>6, <1>7, <1>9
<1>. QED BY <1>10, <1>13, <1>14, <1>15, <1>16, <1>17

\* What the files of w that decide what is read next say, once they have been read.
LEMMA GenuineSays ==
  ASSUME NEW at, NEW w, Presents(at, w), NEW d, Genuine(w, d)
  PROVE  /\ Fst \in DOMAIN d =>
              /\ \A key \in Options : d[Fst][key] = w[Fst][key]
              /\ d[Fst].files = NewFiles(w, "BD", w[Fst].files)
         /\ ED \in DOMAIN d =>
              /\ w[Fst].CompElast # 3 /\ d[ED].NumBl = w[ED].NumBl
              /\ w[Fst].CompElast = 1 => d[ED].files = NewFiles(w, "EDBlade", w[ED].files)
         /\ AD \in DOMAIN d =>
              /\ w[Fst].CompAero = 2 /\ d[AD].NumAFfiles = w[AD].NumAFfiles /\ d[AD].coords = w[AD].coords
              /\ d[AD].files = NewFiles(w, "ADBlade", w[AD].files)
         /\ SrvD \in DOMAIN d => w[Fst].CompServo = 1 /\ d[SrvD] = w[SrvD]
         /\ ExtP \in DOMAIN d => w[Fst].CompSub = 2 /\ d[ExtP] = w[ExtP]
         /\ MD \in DOMAIN d => w[Fst].CompMooring = 3 /\ MD \in DOMAIN w /\ d[MD] = w[MD]
<1>1. ASSUME NEW part \in {Fst, ED, AD, SrvD, ExtP, MD}, part \in DOMAIN d
      PROVE  part \in DOMAIN w /\ Sought(w, part) /\ d[part] = Kept(part, Stored(w, part))
  <2>1. ~KeepsName(part) /\ part # OLAF
    BY DEF KeepsName, Kind, StCKinds, Fst, ED, AD, SrvD, ExtP, MD, OLAF
  <2>. QED BY <1>1, <2>1 DEF Genuine, Presents, FilesOf
<1>2. /\ Fst \in DOMAIN w /\ Options \subseteq DOMAIN w[Fst] /\ (ED \in DOMAIN w => "NumBl" \in DOMAIN w[ED])
      /\ \A part \in DOMAIN w \cap {Fst, ED, AD} : "files" \in DOMAIN w[part]
      /\ w[Fst].CompAero = 2 => {"NumAFfiles", "coords"} \subseteq DOMAIN w[AD]
  BY DEF Presents, AsRead
<1>3. ASSUME Fst \in DOMAIN d
      PROVE  /\ \A key \in Options : d[Fst][key] = w[Fst][key]
             /\ d[Fst].files = NewFiles(w, "BD", w[Fst].files)
  <2>1. d[Fst] = [w[Fst] EXCEPT !.files = NewFiles(w, "BD", w[Fst].files)]
    BY <1>1, <1>2, <1>3 DEF Stored, Kept, Fst, ED, AD, MAP, Kind
  <2>2. PICK c, n : c = w[Fst] /\ n = NewFiles(w, "BD", w[Fst].files)
    OBVIOUS
  <2>3. d[Fst] = [c EXCEPT !.files = n] /\ "files" \in DOMAIN c /\ Options \subseteq DOMAIN c
    BY <1>2, <2>1, <2>2
  <2>. QED BY <2>2, <2>3 DEF Options
<1>4. ASSUME ED \in DOMAIN d
      PROVE  /\ d[ED].NumBl = w[ED].NumBl
             /\ w[Fst].CompElast = 1 => d[ED].files = NewFiles(w, "EDBlade", w[ED].files)
  <2>1. PICK c, n : c = w[ED] /\ n = IF w[Fst].CompElast = 1 THEN NewFiles(w, "EDBlade", c.files) ELSE c.files
    OBVIOUS
  <2>2. Stored(w, ED) = [c EXCEPT !.files = n]
    BY <1>1, <1>4, <2>1 DEF Stored, Fst, ED, AD, MAP, Kind
  <2>3. "files" \in DOMAIN c /\ "NumBl" \in DOMAIN c
    BY <1>1, <1>2, <1>4, <2>1
  <2>4. PICK e : e = Stored(w, ED)
    OBVIOUS
  <2>5. DOMAIN e = DOMAIN c /\ e.files = n /\ e.NumBl = c.NumBl
    BY <2>2, <2>3, <2>4
  <2>6. d[ED] = [e EXCEPT !.nodalChannels = 0]
    BY <1>1, <1>4, <2>4 DEF Kept
  <2>7. d[ED].files = n /\ d[ED].NumBl = c.NumBl
    BY <2>3, <2>5, <2>6
  <2>. QED BY <2>1, <2>7
<1>5. ASSUME AD \in DOMAIN d
      PROVE  /\ w[Fst].CompAero = 2 /\ d[AD].NumAFfiles = w[AD].NumAFfiles /\ d[AD].coords = w[AD].coords
             /\ d[AD].files = NewFiles(w, "ADBlade", w[AD].files)
  <2>1. PICK c, n, u : /\ c = w[AD] /\ n = NewFiles(w, "ADBlade", c.files)
                       /\ u = IF {"UAStartRad", "UAEndRad"} \subseteq c.UARad THEN c.UARad ELSE {}
    OBVIOUS
  <2>2. Stored(w, AD) = [c EXCEPT !.files = NewFiles(w, "ADBlade", @),
                                  !.UARad = IF {"UAStartRad", "UAEndRad"} \subseteq @ THEN @ ELSE {}]
    BY <1>1, <1>5, <2>1 DEF Stored, Fst, ED, AD, MAP, Kind
  <2>3. w[Fst].CompAero = 2
    BY <1>1, <1>5, SoughtOnly
  <2>4. {"NumAFfiles", "coords", "files"} \subseteq DOMAIN c
    BY <1>1, <1>2, <1>5, <2>1, <2>3
  <2>5. PICK e : e = [c EXCEPT !.files = n]
    OBVIOUS
  <2>6. DOMAIN e = DOMAIN c /\ e.files = n /\ \A x \in DOMAIN c : x # "files" => e[x] = c[x]
    BY <2>4, <2>5
  <2>7. PICK g : g = Stored(w, AD)
    OBVIOUS
  <2>8. g = [e EXCEPT !.UARad = u]
    <3>1. e.UARad = c.UARad \/ "UARad" \notin DOMAIN e
      BY <2>6
    <3>. QED BY <2>1, <2>2, <2>5, <2>7, <3>1
  <2>9. \A x \in DOMAIN c : x # "UARad" => g[x] = e[x]
    BY <2>6, <2>8
  <2>10. g.files = n /\ g.NumAFfiles = c.NumAFfiles /\ g.coords = c.coords
    BY <2>4, <2>6, <2>9
  <2>11. d[AD] = g
    BY <1>1, <1>5, <2>7 DEF Kept, ED, AD
  <2>. QED BY <2>1, <2>3, <2>10, <2>11
<1>6. ASSUME NEW part \in {SrvD, ExtP, MD}, part \in DOMAIN d PROVE d[part] = w[part]
  <2>1. Stored(w, part) = w[part]
    BY <1>1, <1>6 DEF Stored, Fst, ED, AD, MAP, Kind, SrvD, ExtP, MD
  <2>. QED BY <1>1, <1>6, <2>1 DEF Kept, ED, SrvD, ExtP, MD
<1>. QED BY <1>1, <1>3, <1>4, <1>5, <1>6, SoughtOnly

\* Lists of good files.
LEMMA GoodLists ==
  ASSUME NEW w
  PROVE  /\ \A s \in Seq(Good(w)) : Itself(s) \in Seq(GoodItems(w))
         /\ \A part \in Good(w) : \A i : /\ <<part>> \in Seq(Good(w))
                                         /\ <<<<part, part>>>> \in Seq(GoodItems(w))
         /\ \A a, b \in Seq(GoodItems(w)) : a \o b \in Seq(GoodItems(w))
         /\ \A a, b \in Seq(Good(w)) : a \o b \in Seq(Good(w))
         /\ <<>> \in Seq(Good(w)) /\ <<>> \in Seq(GoodItems(w))
<1>1. PICK S, T : S = Good(w) /\ T = GoodItems(w)
  OBVIOUS
<1>2. {<<x, x>> : x \in S} \subseteq T
  BY <1>1 DEF GoodItems
<1>3. ASSUME NEW s \in Seq(S) PROVE Itself(s) \in Seq(T)
  <2>1. Itself(s) \in Seq({<<x, x>> : x \in S})
    BY ItselfHas
  <2>. QED BY <1>2, <2>1
<1>4. ASSUME NEW part \in S PROVE <<part>> \in Seq(S) /\ <<<<part, part>>>> \in Seq(T)
  <2>1. <<part, part>> \in T
    BY <1>2
  <2>. QED BY <2>1
<1>. QED BY <1>1, <1>3, <1>4

\* The main file asks for good files.
LEMMA MainGood ==
  ASSUME NEW at, NEW w, Presents(at, w), NEW d, Genuine(w, d), Fst \in DOMAIN d
  PROVE  FromMain(at, d[Fst]) \in Seq(GoodItems(w))
<1>1. PICK f, c : f = FromMain(at, c) /\ c = d[Fst]
  OBVIOUS
<1>2. \A part : InMain(at, c, part) <=> InMain(at, w[Fst], part)
  <2>1. \A key \in Options : c[key] = w[Fst][key]
    BY <1>1, GenuineSays
  <2>2. /\ c.CompElast = w[Fst].CompElast /\ c.CompInflow = w[Fst].CompInflow /\ c.CompAero = w[Fst].CompAero
        /\ c.CompServo = w[Fst].CompServo /\ c.CompHydro = w[Fst].CompHydro /\ c.CompSeaSt = w[Fst].CompSeaSt
        /\ c.CompSub = w[Fst].CompSub /\ c.CompMooring = w[Fst].CompMooring
    BY <2>1 DEF Options
  <2>. QED BY <2>2 DEF InMain
<1>3. \A part : InMain(at, c, part) => part \in Good(w)
  BY <1>2, SoughtByMain, PartSlots DEF Good, Apt
<1>4. f \in Seq(Items) /\ \A z : Has(f, z) => z = <<Fst, none>> \/ \E y : z = <<y, y>> /\ InMain(at, c, y)
  BY <1>1, FromMainHas
<1>5. \A z : Has(f, z) => z \in GoodItems(w)
  BY <1>3, <1>4 DEF GoodItems
<1>. QED BY <1>1, <1>4, <1>5, SeqHas

\* ServoDyn: what keeps its name, and the controller's file only if w has one.
LEMMA ServoDynGood ==
  ASSUME NEW at, NEW w, Presents(at, w), w[Fst].CompServo = 1
  PROVE  FromServoDyn(at, w[SrvD]) \in Seq(GoodItems(w))
<1>0. PICK c, S : c = w[SrvD] /\ S = Good(w)
  OBVIOUS
<1>1. PICK a, b : a = Several("BStC", c.BStC) /\ b = Several("NStC", c.NStC)
  OBVIOUS
<1>2. PICK e, f : e = Several("TStC", c.TStC) /\ f = Several("SStC", c.SStC)
  OBVIOUS
<1>3. PICK g, h : /\ g = Part(ROSCO /\ c.DLL_InFile = 1 /\ Found(at, DISCON), <<DISCON>>)
                  /\ h = Part(c.VSContrl = 3, <<SpdTrq>>)
  OBVIOUS
<1>4. ASSUME NEW kind \in StCKinds, NEW n \in Nat PROVE Several(kind, n) \in Seq(S)
  <2>1. ASSUME NEW i \in 1..n PROVE <<kind, i>> \in S
    <3>1. <<kind, i>> \in Slots
      BY DEF Slots, ManyKinds
    <3>2. KeepsName(<<kind, i>>)
      BY DEF KeepsName, Kind
    <3>. QED BY <1>0, <3>1, <3>2 DEF Good, Apt
  <2>. QED BY <2>1 DEF Several
<1>5. a \in Seq(S) /\ b \in Seq(S) /\ e \in Seq(S) /\ f \in Seq(S)
  <2>1. {c.NStC, c.BStC, c.TStC, c.SStC} \subseteq Nat
    BY <1>0 DEF Presents, AsRead
  <2>. QED BY <1>1, <1>2, <1>4, <2>1 DEF StCKinds
<1>6. h \in Seq(S)
  <2>1. SpdTrq \in S
    <3>1. SpdTrq \in Slots /\ KeepsName(SpdTrq)
      BY PartSlots DEF Single, KeepsName, Kind, SpdTrq
    <3>. QED BY <1>0, <3>1 DEF Good, Apt
  <2>2. <<>> \in Seq(S) /\ <<SpdTrq>> \in Seq(S)
    BY <2>1
  <2>. QED BY <1>3, <2>2 DEF Part
<1>7. g \in Seq(S)
  <2>1. CASE ROSCO /\ c.DLL_InFile = 1 /\ Found(at, DISCON)
    <3>1. Sought(w, DISCON)
      BY <1>0, <2>1 DEF Presents, Sought, AskedBack
    <3>2. DISCON \in S
      BY <1>0, <3>1, PartSlots DEF Good, Apt, Single
    <3>3. g = <<DISCON>>
      BY <1>3, <2>1 DEF Part
    <3>. QED BY <3>2, <3>3
  <2>2. CASE ~(ROSCO /\ c.DLL_InFile = 1 /\ Found(at, DISCON))
    BY <1>3, <2>2 DEF Part
  <2>. QED BY <2>1, <2>2
<1>8. PICK s : s = a \o b \o e \o f \o g \o h
  OBVIOUS
<1>9. s \in Seq(S)
  BY <1>5, <1>6, <1>7, <1>8
<1>10. FromServoDyn(at, c) = Itself(s)
  BY <1>1, <1>2, <1>3, <1>8 DEF FromServoDyn
<1>. QED BY <1>0, <1>9, <1>10, GoodLists

\* ExtPtfm: what w has on its platform.
LEMMA ExtPtfmGood ==
  ASSUME NEW w, w[Fst].CompSub = 2
  PROVE  FromExtPtfm(w[ExtP]) \in Seq(GoodItems(w))
<1>0. PICK c, S : c = w[ExtP] /\ S = Good(w)
  OBVIOUS
<1>1. PICK a, b : a = Part(c.HasConnections = 1, <<Conn>>) /\ b = Part(c.HasUserForcing = 1, <<UserF>>)
  OBVIOUS
<1>2. PICK e : e = Part(c.HasConnForcing = 1, <<ConnF>>)
  OBVIOUS
<1>3. {SE, Conn, UserF, ConnF} \subseteq Slots
  BY PartSlots DEF Single
<1>4. /\ SE \in S /\ (c.HasConnections = 1 => Conn \in S)
      /\ (c.HasUserForcing = 1 => UserF \in S) /\ (c.HasConnForcing = 1 => ConnF \in S)
  BY <1>0, <1>3, SoughtByModules DEF Good, Apt
<1>5. <<SE>> \in Seq(S) /\ a \in Seq(S) /\ b \in Seq(S) /\ e \in Seq(S)
  <2>1. \A x \in S : <<x>> \in Seq(S)
    OBVIOUS
  <2>2. <<>> \in Seq(S)
    OBVIOUS
  <2>. QED BY <1>1, <1>2, <1>4, <2>1, <2>2 DEF Part
<1>6. PICK s : s = <<SE>> \o a \o b \o e
  OBVIOUS
<1>7. s \in Seq(S)
  BY <1>5, <1>6
<1>8. FromExtPtfm(c) = Itself(s)
  BY <1>1, <1>2, <1>6 DEF FromExtPtfm
<1>. QED BY <1>0, <1>7, <1>8, GoodLists

\* The names that the writer gives to the files of blades.
LEMMA NewNames ==
  ASSUME NEW w, NEW kind, NEW files
  PROVE  /\ ForAll(w, kind) => NewFiles(w, kind, files) = <<0, 0, 0>>
         /\ ForEach(w, kind) => NewFiles(w, kind, files) = [i \in 1..3 |-> i]
         /\ ~ForAll(w, kind) /\ BladesOf(w, kind) = <<>> => NewFiles(w, kind, files) = files
         /\ ForAll(w, kind) => BladesOf(w, kind) # <<>>
<1>1. ForAll(w, kind) => NewFiles(w, kind, files) = <<0, 0, 0>> /\ BladesOf(w, kind) # <<>>
  BY DEF ForAll, NewFiles, BladesOf
<1>2. ASSUME ForEach(w, kind) PROVE NewFiles(w, kind, files) = [i \in 1..3 |-> i]
  <2>1. <<kind, 0>> \notin DOMAIN w /\ \A i \in 1..3 : <<kind, i>> \in DOMAIN w
    BY <1>2 DEF ForEach, ForAll
  <2>2. BladesOf(w, kind) = <<<<kind, 1>>>> \o <<<<kind, 2>>>> \o <<<<kind, 3>>>>
    BY <2>1 DEF BladesOf, Blade, Part
  <2>3. BladesOf(w, kind) # <<>>
    BY <2>2
  <2>. QED BY <2>1, <2>3 DEF NewFiles
<1>3. ~ForAll(w, kind) /\ BladesOf(w, kind) = <<>> => NewFiles(w, kind, files) = files
  BY DEF ForAll, NewFiles
<1>. QED BY <1>1, <1>2, <1>3

\* One file for all blades, or one for each of three, is of the deck if w has such blades.
LEMMA BladesGood ==
  ASSUME NEW w, NEW kind \in BladedKinds, NEW files, files = <<0, 0, 0>>
  PROVE  /\ Same(files) /\ files[1] = 0
         /\ Sought(w, <<kind, 0>>) => One(kind, files, 0) \in Seq(GoodItems(w))
         /\ \A i \in 0..3 : Sought(w, <<kind, i>>) => <<<<kind, i>>, <<kind, i>>>> \in GoodItems(w)
<1>1. ASSUME NEW i \in 0..3, Sought(w, <<kind, i>>) PROVE <<<<kind, i>>, <<kind, i>>>> \in GoodItems(w)
  <2>1. <<kind, i>> \in Good(w)
    BY <1>1 DEF Good, Apt, Slots
  <2>. QED BY <2>1 DEF GoodItems
<1>2. files[1] = 0 /\ files[2] = 0 /\ files[3] = 0
  OBVIOUS
<1>3. One(kind, files, 0) = <<<<<<kind, 0>>, <<kind, 0>>>>>>
  BY <1>2 DEF One
<1>4. ASSUME Sought(w, <<kind, 0>>) PROVE One(kind, files, 0) \in Seq(GoodItems(w))
  <2>1. PICK x : x = <<<<kind, 0>>, <<kind, 0>>>>
    OBVIOUS
  <2>2. x \in GoodItems(w)
    BY <1>1, <1>4, <2>1
  <2>3. <<x>> \in Seq(GoodItems(w))
    BY <2>2
  <2>. QED BY <1>3, <2>1, <2>3
<1>. QED BY <1>1, <1>2, <1>4 DEF Same

\* ElastoDyn: its one file of blades if it models them, and its tower.
LEMMA EDBladesGood ==
  ASSUME NEW at, NEW w, Presents(at, w), NEW d, Genuine(w, d), Fst \in DOMAIN d, ED \in DOMAIN d
  PROVE  EDBlades(at, d) \in Seq(GoodItems(w)) /\ Itself(<<Tower>>) \in Seq(GoodItems(w))
<1>1. /\ d[Fst].CompElast = w[Fst].CompElast /\ w[Fst].CompElast # 3 /\ ~InSource(at)
      /\ w[Fst].CompElast = 1 => d[ED].files = NewFiles(w, "EDBlade", w[ED].files)
  BY GenuineSays DEF Options, Presents
<1>0. PICK files : files = d[ED].files
  OBVIOUS
<1>. DEFINE wanted(i) == \/ d[Fst].CompElast = 1
                         \/ InSource(at) /\ Found(at, <<"EDBlade", files[i]>>)
            one == One("EDBlade", files, 0)
            blade(i) == Part(wanted(i), <<Three("EDBlade", files)[i]>>)
<1>2. ASSUME w[Fst].CompElast = 1 PROVE EDBlades(at, d) \in Seq(GoodItems(w))
  <2>1. Sought(w, <<"EDBlade", 0>>)
    BY <1>2, SoughtByModules
  <2>2. ForAll(w, "EDBlade")
    <3>1. ~KeepsName(<<"EDBlade", 0>>) /\ <<"EDBlade", 0>> # OLAF
      BY DEF KeepsName, Kind, StCKinds, OLAF
    <3>. QED BY <2>1, <3>1 DEF Presents, FilesOf, ForAll
  <2>3. d[ED].files = <<0, 0, 0>>
    BY <1>1, <1>2, <2>2, NewNames
  <2>4. Same(d[ED].files) /\ One("EDBlade", d[ED].files, 0) \in Seq(GoodItems(w))
    BY <2>1, <2>3, BladesGood DEF BladedKinds
  <2>5. EDBlades(at, d) = Part(wanted(1), One("EDBlade", files, 0))
    BY <1>0, <2>4 DEF EDBlades
  <2>6. \A s, cond : Part(cond, s) \in {s, <<>>}
    BY DEF Part
  <2>7. EDBlades(at, d) \in {One("EDBlade", files, 0), <<>>}
    BY <2>5, <2>6
  <2>. QED BY <1>0, <2>4, <2>7, GoodLists
<1>3. ASSUME w[Fst].CompElast # 1 PROVE EDBlades(at, d) \in Seq(GoodItems(w))
  <2>0. \/ EDBlades(at, d) = Part(wanted(1), one)
        \/ EDBlades(at, d) = Part(d[Fst].CompElast = 1, one)
        \/ EDBlades(at, d) = blade(1) \o blade(2) \o blade(3)
    BY <1>0 DEF EDBlades
  <2>1. d[Fst].CompElast # 1 /\ \A i : ~wanted(i)
    BY <1>1, <1>3
  <2>2. EDBlades(at, d) = <<>> \/ EDBlades(at, d) = <<>> \o <<>> \o <<>>
    BY <2>0, <2>1 DEF Part
  <2>3. <<>> \o <<>> \o <<>> = <<>>
    OBVIOUS
  <2>. QED BY <2>2, <2>3, GoodLists
<1>4. Tower \in Good(w)
  BY <1>1, SoughtByModules, PartSlots DEF Good, Apt, Single
<1>5. <<Tower>> \in Seq(Good(w))
  BY <1>4
<1>. QED BY <1>2, <1>3, <1>5, GoodLists

\* AeroDyn: its blades, once their number is known.
LEMMA ADBladesGood ==
  ASSUME NEW at, NEW w, Presents(at, w), NEW d, Genuine(w, d), AD \in DOMAIN d, ~NumBlMissing(at, AD, d)
  PROVE  ADBlades(d) \in Seq(GoodItems(w))
<1>1. w[Fst].CompAero = 2 /\ d[AD].files = NewFiles(w, "ADBlade", w[AD].files)
  BY GenuineSays
<1>2. CASE ForAll(w, "ADBlade")
  <2>1. Sought(w, <<"ADBlade", 0>>)
    BY <1>1, <1>2, SoughtByModules
  <2>2. d[AD].files = <<0, 0, 0>>
    BY <1>1, <1>2, NewNames
  <2>3. Same(d[AD].files) /\ One("ADBlade", d[AD].files, 0) \in Seq(GoodItems(w))
    BY <2>1, <2>2, BladesGood DEF BladedKinds
  <2>. QED BY <2>3 DEF ADBlades
<1>3. CASE ForEach(w, "ADBlade")
  <2>1. \A i \in 1..3 : Sought(w, <<"ADBlade", i>>)
    BY <1>1, <1>3, SoughtByModules
  <2>2. d[AD].files = [i \in 1..3 |-> i]
    BY <1>1, <1>3, NewNames
  <2>3. ~Same(d[AD].files) /\ d[AD].files[1] # d[AD].files[2]
    BY <2>2 DEF Same
  <2>4. ED \in DOMAIN d
    BY <2>3 DEF NumBlMissing
  <2>5. d[ED].NumBl > 2
    BY <1>3, <2>4, GenuineSays DEF ForEach
  <2>6. ADBlades(d) = Three("ADBlade", [i \in 1..3 |-> i])
    BY <2>2, <2>3, <2>5 DEF ADBlades
  <2>7. Three("ADBlade", [i \in 1..3 |-> i]) = [i \in 1..3 |-> <<<<"ADBlade", i>>, <<"ADBlade", i>>>>]
    BY DEF Three
  <2>8. ASSUME NEW i \in 1..3 PROVE <<<<"ADBlade", i>>, <<"ADBlade", i>>>> \in GoodItems(w)
    <3>1. "ADBlade" \in BladedKinds /\ i \in 0..3 /\ Sought(w, <<"ADBlade", i>>)
      BY <2>1 DEF BladedKinds
    <3>. QED BY <3>1, BladesGood
  <2>9. PICK S, f : S = GoodItems(w) /\ f = [i \in 1..3 |-> <<<<"ADBlade", i>>, <<"ADBlade", i>>>>]
    OBVIOUS
  <2>10. \A i \in 1..3 : f[i] \in S
    BY <2>8, <2>9
  <2>11. f \in Seq(S)
    BY <2>9, <2>10
  <2>. QED BY <2>6, <2>7, <2>9, <2>11
<1>. QED BY <1>1, <1>2, <1>3 DEF Presents, BladesFit

\* And its airfoils, their coordinates, and any wake file.
LEMMA AeroDynGood ==
  ASSUME NEW at, NEW w, Presents(at, w), NEW d, Genuine(w, d), AD \in DOMAIN d, ~NumBlMissing(at, AD, d)
  PROVE  FromAeroDyn(at, d) \in Seq(GoodItems(w))
<1>1. PICK c, S : c = d[AD] /\ S = Good(w)
  OBVIOUS
<1>2. /\ w[Fst].CompAero = 2 /\ c.NumAFfiles = w[AD].NumAFfiles /\ c.coords = w[AD].coords
      /\ c.NumAFfiles \in Nat /\ c.coords \in Seq(Nat \ {0})
  <2>1. w[Fst].CompAero = 2 /\ c.NumAFfiles = w[AD].NumAFfiles /\ c.coords = w[AD].coords
    BY <1>1, GenuineSays
  <2>2. AsRead(w)
    BY DEF Presents
  <2>3. w[AD].NumAFfiles \in Nat /\ w[AD].coords \in Seq(Nat \ {0})
    BY <2>1, <2>2 DEF AsRead
  <2>. QED BY <2>1, <2>3
<1>3. PICK a, b, e : a = Several("Polar", c.NumAFfiles) /\ b = Coordinates(c) /\ e = Part(Found(at, OLAF), <<OLAF>>)
  OBVIOUS
<1>4. a \in Seq(S)
  <2>1. ASSUME NEW i \in 1..c.NumAFfiles PROVE <<"Polar", i>> \in S
    <3>1. PICK x : x = <<"Polar", i>>
      OBVIOUS
    <3>2. x \in Slots
      BY <1>2, <3>1 DEF Slots, ManyKinds
    <3>3. i \in 1..w[AD].NumAFfiles
      BY <1>2
    <3>4. Sought(w, x)
      BY <1>2, <3>1, <3>3, SoughtByModules
    <3>. QED BY <1>1, <3>1, <3>2, <3>4 DEF Good, Apt
  <2>2. PICK n : n = c.NumAFfiles /\ n \in Nat
    BY <1>2
  <2>3. \A i \in 1..n : <<"Polar", i>> \in S
    BY <2>1, <2>2
  <2>4. Several("Polar", n) \in Seq(S)
    BY <2>2, <2>3 DEF Several
  <2>. QED BY <1>3, <2>2, <2>4
<1>5. b \in Seq(S)
  <2>1. Len(c.coords) \in Nat /\ \A i \in 1..Len(c.coords) : c.coords[i] \in Nat \ {0}
    BY <1>2, LenProperties, ElementOfSeq
  <2>2. ASSUME NEW i \in 1..Len(c.coords) PROVE <<"Coord", c.coords[i]>> \in S
    <3>1. PICK x : x = <<"Coord", c.coords[i]>>
      OBVIOUS
    <3>2. x \in Slots
      BY <2>1, <3>1 DEF Slots, ManyKinds
    <3>3. i \in 1..Len(w[AD].coords) /\ x = <<"Coord", w[AD].coords[i]>>
      BY <1>2, <3>1
    <3>4. Sought(w, x)
      BY <1>2, <3>3, SoughtByModules
    <3>. QED BY <1>1, <3>1, <3>2, <3>4 DEF Good, Apt
  <2>3. PICK n : n = Len(c.coords) /\ n \in Nat
    BY <2>1
  <2>4. b = [i \in 1..n |-> <<"Coord", c.coords[i]>>]
    BY <1>3, <2>3 DEF Coordinates
  <2>5. PICK h : h = c.coords
    OBVIOUS
  <2>6. b = [i \in 1..n |-> <<"Coord", h[i]>>] /\ \A i \in 1..n : <<"Coord", h[i]>> \in S
    BY <2>2, <2>3, <2>4, <2>5
  <2>7. [i \in 1..n |-> <<"Coord", h[i]>>] \in Seq(S)
    BY <2>3, <2>6
  <2>. QED BY <2>6, <2>7
<1>6. e \in Seq(S)
  <2>1. OLAF \in S
    BY <1>1, PartSlots DEF Good, Apt, Single
  <2>2. <<>> \in Seq(S) /\ <<OLAF>> \in Seq(S)
    BY <2>1
  <2>. QED BY <1>3, <2>2 DEF Part
<1>7. PICK s : s = a \o b \o e
  OBVIOUS
<1>8. s \in Seq(S)
  BY <1>4, <1>5, <1>6, <1>7
<1>9. FromAeroDyn(at, d) = ADBlades(d) \o Itself(s)
  BY <1>1, <1>3, <1>7 DEF FromAeroDyn
<1>10. Itself(s) \in Seq(GoodItems(w)) /\ ADBlades(d) \in Seq(GoodItems(w))
  BY <1>1, <1>8, GoodLists, ADBladesGood
<1>. QED BY <1>9, <1>10, GoodLists

\* BeamDyn: its blades, if it is there, once their number is known.
LEMMA BDBladesGood ==
  ASSUME NEW at, NEW w, Presents(at, w), NEW d, Genuine(w, d), Fst \in DOMAIN d, ~NumBlMissing(at, Fst, d)
  PROVE  BDBlades(at, d) \in Seq(GoodItems(w))
<1>1. PICK files : files = d[Fst].files /\ files = NewFiles(w, "BD", w[Fst].files)
  BY GenuineSays
<1>2. <<>> \in Seq(GoodItems(w))
  OBVIOUS
<1>3. CASE BladesOf(w, "BD") = <<>>
  <2>1. files = w[Fst].files
    BY <1>1, <1>3, NewNames
  <2>2. ~Found(at, <<"BD", files[1]>>)
    BY <1>3, <2>1 DEF Presents
  <2>3. BDBlades(at, d) = <<>>
    BY <1>1, <2>2 DEF BDBlades
  <2>. QED BY <1>2, <2>3
<1>4. CASE ForAll(w, "BD")
  <2>1. Sought(w, <<"BD", 0>>) /\ Sought(w, <<"BDBlade", 0>>)
    BY <1>4, SoughtByModules
  <2>2. files = <<0, 0, 0>>
    BY <1>1, <1>4, NewNames
  <2>3. PICK a, b : a = One("BD", files, 0) /\ b = One("BDBlade", files, 0)
    OBVIOUS
  <2>4. a \in Seq(GoodItems(w)) /\ b \in Seq(GoodItems(w)) /\ Same(files)
    <3>1. "BD" \in BladedKinds /\ "BDBlade" \in BladedKinds
      BY DEF BladedKinds
    <3>. QED BY <2>1, <2>2, <2>3, <3>1, BladesGood
  <2>5. BDBlades(at, d) = <<>> \/ BDBlades(at, d) = a \o b
    BY <1>1, <2>3, <2>4 DEF BDBlades
  <2>. QED BY <1>2, <2>4, <2>5, GoodLists
<1>5. CASE ForEach(w, "BD")
  <2>1. \A i \in 1..3 : Sought(w, <<"BD", i>>) /\ Sought(w, <<"BDBlade", i>>)
    BY <1>5, SoughtByModules
  <2>2. files = [i \in 1..3 |-> i]
    BY <1>1, <1>5, NewNames
  <2>3. ~Same(files) /\ files[1] # files[2]
    BY <2>2 DEF Same
  <2>4. ASSUME Found(at, <<"BD", files[1]>>) PROVE d[ED].NumBl > 2
    <3>1. ED \in DOMAIN d
      BY <1>1, <2>3, <2>4 DEF NumBlMissing
    <3>. QED BY <1>5, <3>1, GenuineSays DEF ForEach
  <2>. DEFINE two(i) == <<<<<<"BD", i>>, <<"BD", i>>>>, <<<<"BDBlade", i>>, <<"BDBlade", i>>>>>>
  <2>5. \A i \in 1..3 : two(i) \in Seq(GoodItems(w))
    <3>1. ASSUME NEW i \in 1..3
          PROVE  <<<<"BD", i>>, <<"BD", i>>>> \in GoodItems(w) /\ <<<<"BDBlade", i>>, <<"BDBlade", i>>>> \in GoodItems(w)
      <4>1. "BD" \in BladedKinds /\ "BDBlade" \in BladedKinds /\ i \in 0..3
        BY DEF BladedKinds
      <4>. QED BY <2>1, <4>1, BladesGood
    <3>2. ASSUME NEW i \in 1..3 PROVE two(i) \in Seq(GoodItems(w))
      <4>1. PICK x, y : x = <<<<"BD", i>>, <<"BD", i>>>> /\ y = <<<<"BDBlade", i>>, <<"BDBlade", i>>>>
        OBVIOUS
      <4>2. x \in GoodItems(w) /\ y \in GoodItems(w)
        BY <3>1, <4>1
      <4>3. <<x, y>> \in Seq(GoodItems(w))
        BY <4>2
      <4>. QED BY <4>1, <4>3
    <3>. QED BY <3>2
  <2>6. BDBlades(at, d) = <<>> \/ BDBlades(at, d) = two(1) \o two(2) \o two(3)
    <3>1. CASE ~Found(at, <<"BD", files[1]>>)
      BY <1>1, <3>1 DEF BDBlades
    <3>2. CASE Found(at, <<"BD", files[1]>>)
      <4>1. files[1] = 1 /\ files[2] = 2 /\ files[3] = 3
        BY <2>2
      <4>. QED BY <1>1, <2>3, <2>4, <3>2, <4>1 DEF BDBlades
    <3>. QED BY <3>1, <3>2
  <2>. HIDE DEF two
  <2>7. PICK x, y, z : x = two(1) /\ y = two(2) /\ z = two(3)
    OBVIOUS
  <2>8. two(1) \in Seq(GoodItems(w)) /\ two(2) \in Seq(GoodItems(w)) /\ two(3) \in Seq(GoodItems(w))
    BY <2>5
  <2>9. x \in Seq(GoodItems(w)) /\ y \in Seq(GoodItems(w)) /\ z \in Seq(GoodItems(w))
    BY <2>7, <2>8
  <2>10. x \o y \o z \in Seq(GoodItems(w))
    BY <2>9, GoodLists
  <2>. QED BY <1>2, <2>6, <2>7, <2>10
<1>. QED BY <1>3, <1>4, <1>5 DEF Presents, BladesFit

\* Whatever good item has been read, what is read next is good.
LEMMA NestedGood ==
  ASSUME NEW at, NEW w, Presents(at, w), NEW d, Genuine(w, d), NEW item \in GoodItems(w),
         item = <<Fst, none>> => Fst \in DOMAIN d /\ ~NumBlMissing(at, Fst, d),
         item # <<Fst, none>> => item[1] \in DOMAIN d,
         item[1] = ED => Fst \in DOMAIN d, item[1] = AD => ~NumBlMissing(at, AD, d)
  PROVE  Nested(at, item, d) \in Seq(GoodItems(w))
<1>1. CASE item = <<Fst, none>>
  <2>1. Nested(at, item, d) = BDBlades(at, d)
    BY <1>1 DEF Nested, ED, AD, ADsk, SrvD, ExtP, MD, Fst, none
  <2>. QED BY <1>1, <2>1, BDBladesGood
<1>2. CASE item # <<Fst, none>>
  <2>0. PICK x \in Good(w) : item = <<x, x>>
    BY <1>2 DEF GoodItems
  <2>1. x \in DOMAIN d /\ item[1] = x
    BY <1>2, <2>0
  <2>2. CASE x = Fst
    <3>1. Nested(at, item, d) = FromMain(at, d[Fst])
      BY <1>2, <2>0, <2>2 DEF Nested, ED, AD, ADsk, SrvD, ExtP, MD, Fst, none
    <3>. QED BY <2>1, <2>2, <3>1, MainGood
  <2>3. CASE x = ED
    <3>1. Nested(at, item, d) = EDBlades(at, d) \o Itself(<<Tower>>)
      BY <1>2, <2>0, <2>3 DEF Nested, ED, AD, ADsk, SrvD, ExtP, MD, Fst, none
    <3>2. EDBlades(at, d) \in Seq(GoodItems(w)) /\ Itself(<<Tower>>) \in Seq(GoodItems(w))
      BY <2>1, <2>3, EDBladesGood
    <3>. QED BY <3>1, <3>2, GoodLists
  <2>4. CASE x = AD
    <3>1. Nested(at, item, d) = FromAeroDyn(at, d)
      BY <1>2, <2>0, <2>4 DEF Nested, ED, AD, ADsk, SrvD, ExtP, MD, Fst, none
    <3>. QED BY <2>1, <2>4, <3>1, AeroDynGood
  <2>5. CASE x = ADsk
    <3>1. Nested(at, item, d) = Itself(<<ADskProp>>)
      BY <1>2, <2>0, <2>5 DEF Nested, ED, AD, ADsk, SrvD, ExtP, MD, Fst, none
    <3>2. w[Fst].CompAero = 1
      <4>1. Sought(w, ADsk)
        BY <2>5 DEF Good, Apt, KeepsName, Kind, StCKinds, ADsk, OLAF
      <4>. QED BY <4>1, SoughtOnly
    <3>3. ADskProp \in Good(w)
      BY <3>2, SoughtByModules, PartSlots DEF Good, Apt, Single
    <3>4. <<ADskProp>> \in Seq(Good(w))
      BY <3>3
    <3>. QED BY <3>1, <3>4, GoodLists
  <2>6. CASE x = SrvD
    <3>1. Nested(at, item, d) = FromServoDyn(at, d[SrvD])
      BY <1>2, <2>0, <2>6 DEF Nested, ED, AD, ADsk, SrvD, ExtP, MD, Fst, none
    <3>2. w[Fst].CompServo = 1 /\ d[SrvD] = w[SrvD]
      BY <2>1, <2>6, GenuineSays
    <3>. QED BY <3>1, <3>2, ServoDynGood
  <2>7. CASE x = ExtP
    <3>1. Nested(at, item, d) = FromExtPtfm(d[ExtP])
      BY <1>2, <2>0, <2>7 DEF Nested, ED, AD, ADsk, SrvD, ExtP, MD, Fst, none
    <3>2. w[Fst].CompSub = 2 /\ d[ExtP] = w[ExtP]
      BY <2>1, <2>7, GenuineSays
    <3>. QED BY <3>1, <3>2, ExtPtfmGood
  <2>8. CASE x = MD
    <3>1. Nested(at, item, d) = Itself(Part(d[MD].WaterKin = 1, <<WK>>))
      BY <1>2, <2>0, <2>8 DEF Nested, ED, AD, ADsk, SrvD, ExtP, MD, Fst, none
    <3>2. w[Fst].CompMooring = 3 /\ MD \in DOMAIN w /\ d[MD] = w[MD]
      BY <2>1, <2>8, GenuineSays
    <3>3. PICK s : s = Part(d[MD].WaterKin = 1, <<WK>>)
      OBVIOUS
    <3>4. s \in Seq(Good(w))
      <4>1. CASE d[MD].WaterKin = 1
        <5>1. WK \in DOMAIN w
          BY <3>2, <4>1 DEF Presents, Writable
        <5>2. WK \in Good(w)
          BY <3>2, <5>1, SoughtByModules, PartSlots DEF Good, Apt, Single
        <5>3. s = <<WK>>
          BY <3>3, <4>1 DEF Part
        <5>. QED BY <5>2, <5>3
      <4>2. CASE d[MD].WaterKin # 1
        BY <3>3, <4>2 DEF Part
      <4>. QED BY <4>1, <4>2
    <3>. QED BY <3>1, <3>3, <3>4, GoodLists
  <2>9. CASE x \notin {Fst, ED, AD, ADsk, SrvD, ExtP, MD}
    <3>1. Nested(at, item, d) = <<>>
      <4>1. item # <<Fst, Fst>> /\ item[1] \notin {ED, AD, ADsk, SrvD, ExtP, MD}
        BY <2>0, <2>9
      <4>. QED BY <1>2, <4>1 DEF Nested, ED, AD, ADsk, SrvD, ExtP, MD, Fst, none
    <3>. QED BY <3>1
  <2>. QED BY <2>2, <2>3, <2>4, <2>5, <2>6, <2>7, <2>8, <2>9
<1>. QED BY <1>1, <1>2

\* There is no file without a part.
LEMMA NoneApart == \A w : none \notin Good(w)
<1>. SUFFICES ASSUME NEW w PROVE ~Apt(w, none)
  BY DEF Good
<1>1. ~KeepsName(none) /\ none # OLAF
  BY DEF KeepsName, Kind, StCKinds, none, OLAF
<1>2. ~AskedFor(w, none)
  BY DEF AskedFor, none, Fst, ED, SED, Tower, IfW, ADsk, ADskProp, AD, SrvD, HD, SeaSt, SubD, ExtP, SE, Conn, UserF,
         ConnF, MAP, MD, WK
<1>3. ~AskedBack(w, none)
  BY <1>2 DEF AskedBack, none, OLAF, DISCON, SpdTrq, StCKinds
<1>. QED BY <1>1, <1>3 DEF Apt, Sought

\* What is taken of a file of w is as w was stored.
LEMMA TookGenuine ==
  ASSUME NEW at, NEW w, Presents(at, w), NEW d, Genuine(w, d), NEW item, item[1] = item[2], item[1] \in Good(w),
         NEW reading, NEW e, Took(at, d, item, reading, e)
  PROVE  Genuine(w, e)
<1>0. PICK y : y = item[1]
  OBVIOUS
<1>1. y \in Good(w) /\ y # none
  BY <1>0, NoneApart
<1>2. PICK c, t : c = FileAt(at, y).c /\ t = Taken(y, c, reading)
  OBVIOUS
<1>3. reading \in Readings(at, y) \ {"raised", "hung"} /\ e = With(d, y, t)
  BY <1>0, <1>1, <1>2 DEF Took
<1>4. DOMAIN e = DOMAIN d \cup {y} /\ e[y] = t /\ \A part \in DOMAIN d : part # y => e[part] = d[part]
  BY <1>3 DEF With
<1>5. ASSUME ~KeepsName(y), y # OLAF PROVE Sought(w, y) /\ t = Kept(y, Stored(w, y))
  <2>1. Sought(w, y)
    BY <1>1, <1>5 DEF Good, Apt
  <2>2. PICK s, all : s = Stored(w, y) /\ all = Len(Written(y, s))
    OBVIOUS
  <2>3. y \in FilesOf(w) /\ FileAt(at, y) = [c |-> s, all |-> all, done |-> all]
    BY <1>5, <2>1, <2>2 DEF Presents, Whole
  <2>4. c = s /\ "short" \notin ReadUpTo(y, s, all)
    BY <1>2, <2>2, <2>3 DEF Presents, Writable
  <2>5. reading \in ReadUpTo(y, s, all)
    <3>1. FileAt(at, y).c = s /\ FileAt(at, y).done = all
      BY <2>3
    <3>. QED BY <1>3, <3>1 DEF Readings, Presents
  <2>6. t = Kept(y, s)
    BY <1>2, <2>4, <2>5 DEF Taken
  <2>. QED BY <2>1, <2>2, <2>6
<1>. QED BY <1>0, <1>4, <1>5 DEF Genuine

\* A reader under a name that presents w: what it has read is of w, and it goes on to read
\* files of w.
OfOne(w, d, s) ==
  /\ Genuine(w, d) /\ s \in Seq(GoodItems(w))
  /\ Fst \in DOMAIN d \/ s = <<<<Fst, Fst>>>>
LEMMA ReadOn ==
  ASSUME NEW at, NEW w, Presents(at, w), NEW d, NEW s, OfOne(w, d, s), s # <<>>, NEW r \in ReadNext(at, d, s)
  PROVE  /\ Genuine(w, r[1])
         /\ r[3] \notin {"raised", "hung"} => OfOne(w, r[1], r[2])
<1>1. PICK h, tail : h = Head(s) /\ tail = Tail(s)
  OBVIOUS
<1>2. h \in GoodItems(w) /\ tail \in Seq(GoodItems(w)) /\ Genuine(w, d) /\ (s = <<<<Fst, Fst>>>> => h = <<Fst, Fst>>)
  BY <1>1 DEF OfOne
<1>3. ReadsTo(at, d, s, h, r)
  BY <1>1, ReadNextIs
<1>4. CASE r[1] = d /\ r[3] \in {"raised", "hung"}
  BY <1>2, <1>4
<1>5. CASE h = <<Fst, none>> /\ ~NumBlMissing(at, Fst, d) /\ r[1] = d /\ r[2] = Nested(at, h, d) \o Tail(s)
  <2>1. Fst \in DOMAIN d
    BY <1>2, <1>5 DEF OfOne, Fst, none
  <2>2. PICK next : next = Nested(at, h, d)
    OBVIOUS
  <2>3. h[1] = Fst /\ Fst # ED /\ Fst # AD
    BY <1>5 DEF Fst, ED, AD
  <2>4. next \in Seq(GoodItems(w))
    BY <1>2, <1>5, <2>1, <2>2, <2>3, NestedGood
  <2>5. next \o tail \in Seq(GoodItems(w))
    BY <1>2, <2>4, GoodLists
  <2>. QED BY <1>1, <1>2, <1>5, <2>1, <2>2, <2>5 DEF OfOne
<1>6. ASSUME NEW reading, NEW e, Took(at, d, h, reading, e), r[1] = e,
             r[3] # "raised" => ~(h[1] = AD /\ NumBlMissing(at, AD, e)) /\ r[2] = Nested(at, h, e) \o Tail(s)
      PROVE  Genuine(w, r[1]) /\ (r[3] \notin {"raised", "hung"} => OfOne(w, r[1], r[2]))
  <2>1. h # <<Fst, none>>
    BY <1>6 DEF Took
  <2>2. PICK y \in Good(w) : h = <<y, y>>
    BY <1>2, <2>1 DEF GoodItems
  <2>3. Genuine(w, e) /\ DOMAIN e = DOMAIN d \cup {y} /\ h[1] = y
    <3>1. h[1] = y /\ h[1] = h[2] /\ h[1] \in Good(w)
      BY <2>2
    <3>2. Genuine(w, d)
      BY <1>2
    <3>3. Took(at, d, h, reading, e)
      BY <1>6
    <3>4. h[1] = h[2]
      BY <3>1
    <3>5. h[1] \in Good(w)
      BY <3>1
    <3>6. Genuine(w, e)
      BY <3>2, <3>3, <3>4, <3>5, TookGenuine
    <3>7. DOMAIN e = DOMAIN d \cup {h[1]}
      <4>1. h[2] # none
        BY <3>4, <3>5, NoneApart
      <4>2. PICK k, t : k = h[2] /\ e = With(d, k, t)
        BY <3>3, <4>1 DEF Took
      <4>3. DOMAIN e = DOMAIN d \cup {k}
        BY <4>2 DEF With
      <4>. QED BY <3>4, <4>2, <4>3
    <3>. QED BY <3>1, <3>6, <3>7
  <2>4. Fst \in DOMAIN e
    <3>1. CASE Fst \in DOMAIN d
      BY <2>3, <3>1
    <3>2. CASE s = <<<<Fst, Fst>>>>
      BY <1>2, <2>2, <2>3, <3>2
    <3>. QED BY <3>1, <3>2 DEF OfOne
  <2>5. ASSUME r[3] # "raised" PROVE OfOne(w, e, r[2])
    <3>1. PICK next : next = Nested(at, h, e)
      OBVIOUS
    <3>2. h[1] \in DOMAIN e /\ (h[1] = AD => ~NumBlMissing(at, AD, e))
      BY <1>6, <2>3, <2>5
    <3>3. next \in Seq(GoodItems(w))
      BY <1>2, <2>1, <2>3, <2>4, <3>1, <3>2, NestedGood
    <3>4. next \o tail \in Seq(GoodItems(w))
      BY <1>2, <3>3, GoodLists
    <3>. QED BY <1>1, <1>6, <2>3, <2>4, <2>5, <3>1, <3>4 DEF OfOne
  <2>. QED BY <1>6, <2>3, <2>5
<1>. QED BY <1>3, <1>4, <1>5, <1>6 DEF ReadsTo

\* A name that was written whole presents what its last writer wrote.
LEMMA WholePresents ==
  ASSUME LoadedAsRead, LoadedWritable, NoLeftovers, DeckInv, BaseInv, WholeInv,
         NEW n \in Names, writer[n].state = "whole"
  PROVE  Presents(Under(n), wrote[writer[n].by])
<1>1. PICK b, w : b = writer[n].by /\ w = wrote[b]
  OBVIOUS
<1>2. /\ b \in Programs /\ target[b] = n /\ pc[b] \notin {"loading", "writing"}
      /\ \A part : Ours(b, part) => Held(b, part)
  BY <1>1 DEF WholeInv, WholeDeck
<1>3. TypeInv /\ Origin(b) /\ OnRecord /\ Assigned
  BY <1>2 DEF DeckInv, BaseInv
<1>4. AsRead(w) /\ BladesFit(w) /\ Writable(w)
  BY <1>1, <1>2, <1>3, WroteFits
<1>5. ~InSource(Under(n))
  BY DEF InSource, Under
<1>6. ASSUME NEW part, Sought(w, part), ~KeepsName(part)
      PROVE  part \in FilesOf(w) /\ FileAt(Under(n), part) = Whole(part, Stored(w, part))
  <2>1. Held(b, part)
    BY <1>1, <1>2, <1>4, <1>6, WritePlanDue DEF Ours
  <2>2. Found(Under(n), part)
    BY <1>2, <1>3, <2>1, UnderFrom DEF Held
  <2>. QED BY <1>1, <1>2, <1>3, <2>1, <2>2, UnderFrom DEF Held
<1>7. PICK a \in Assignments : source = a[1] /\ target = a[2]
  BY <1>3 DEF Assigned
<1>8. ASSUME NEW part, Found(Under(n), part), ~KeepsName(part), part # OLAF
      PROVE  \E q \in Programs : target[q] = n /\ part \in DOMAIN Copy(q) /\ Loaded[source[q]][3] # "raised"
  <2>1. PICK q \in Programs : FileFrom(FileOf(n, part), q, part)
    BY <1>3, <1>8, UnderFrom
  <2>2. target[q] = n
    BY <1>8, <2>1, FilesApart DEF FileFrom
  <2>3. pc[q] # "loading" /\ Origin(q) /\ part \in DOMAIN wrote[q]
    BY <1>8, <2>1 DEF FileFrom, FilesOf, BaseInv
  <2>. QED BY <2>2, <2>3 DEF Origin
<1>9. w = Copy(b) /\ Loaded[source[b]][3] # "raised"
  BY <1>1, <1>2, <1>3 DEF Origin
<1>10. ASSUME NEW q \in Programs, target[q] = n, Loaded[source[q]][3] # "raised"
       PROVE  /\ DISCON \in DOMAIN Copy(q) /\ w[Fst].CompServo = 1 /\ w[SrvD].DLL_InFile = 1 => DISCON \in DOMAIN w
              /\ <<"BD", w[Fst].files[1]>> \in DOMAIN Copy(q) => BladesOf(w, "BD") # <<>>
  BY <1>2, <1>7, <1>9, <1>10 DEF NoLeftovers, Copy
<1>11. /\ ~KeepsName(DISCON) /\ DISCON # OLAF
       /\ \A i : ~KeepsName(<<"BD", i>>) /\ <<"BD", i>> # OLAF
  BY DEF KeepsName, Kind, StCKinds, DISCON, OLAF
<1>12. Found(Under(n), DISCON) /\ w[Fst].CompServo = 1 /\ w[SrvD].DLL_InFile = 1 => DISCON \in DOMAIN w
  BY <1>8, <1>10, <1>11
<1>13. Found(Under(n), <<"BD", w[Fst].files[1]>>) => BladesOf(w, "BD") # <<>>
  BY <1>8, <1>10, <1>11
<1>. QED BY <1>1, <1>4, <1>5, <1>6, <1>12, <1>13 DEF Presents

\* WholeInv holds initially.
LEMMA InitWhole == Init => WholeInv
BY DEF Init, WholeInv, Pending, WholeDeck, Nobody

\* What is of the deck that b wrote is of b.
LEMMA GenuineIsOf ==
  ASSUME LoadedAsRead, LoadedWritable, TypeInv, NEW b \in Programs, pc[b] # "loading", Origin(b),
         NEW at, Presents(at, wrote[b]), NEW d, Genuine(wrote[b], d), NEW part \in DOMAIN d
  PROVE  KeepsName(part) \/ part = OLAF \/ d[part].ver = b
<1>1. PICK w, c : w = wrote[b] /\ c = Stored(w, part)
  OBVIOUS
<1>2. AsRead(w) /\ c.ver = b
  BY <1>1, WroteFits
<1>. SUFFICES ASSUME ~KeepsName(part), part # OLAF PROVE d[part].ver = b
  OBVIOUS
<1>3. Sought(w, part) /\ d[part] = Kept(part, c)
  BY <1>1 DEF Genuine
<1>4. part \in DOMAIN w
  BY <1>1, <1>3 DEF Presents, FilesOf
<1>5. "ver" \in DOMAIN c
  BY <1>1, <1>2, <1>4, StoredHas
<1>6. d[part] = (IF part = ED THEN [c EXCEPT !.nodalChannels = 0] ELSE c)
  BY <1>3 DEF Kept
<1>. QED BY <1>2, <1>5, <1>6

\* A program that reads a name that was written whole.
ReaderOne(p) ==
  pc[p] = "reading" /\ writer[target[p]].state = "whole" => OfOne(wrote[LastWriter(p)], vt[p], todo[p])
OneInv == ReadingInv /\ WholeInv /\ \A p \in Programs : ReaderOne(p)

\* Nobody else begins to write there.
LEMMA OthersOne ==
  ASSUME TypeInv, BaseInv, WholeInv, NEW p \in Programs, Move(p), NEW q \in Programs \ {p}, ReaderOne(q)
  PROVE  ReaderOne(q)'
<1>1. target' = target /\ SameFor(q) /\ q # p
  BY OthersRest
<1>. SUFFICES ASSUME pc[q] = "reading", writer'[target[q]].state = "whole"
              PROVE  OfOne(wrote[LastWriter(q)], vt[q], todo[q])'
  BY <1>1 DEF ReaderOne, SameFor
<1>2. PICK n : n = target[q] /\ n \in Names
  BY DEF TypeInv
<1>3. Busy(q) /\ (target[p] = n => ~Busy(p) /\ ~Alone(p))
  BY <1>1, <1>2 DEF Busy, BaseInv, Apart, Alone
<1>4. writer'[n] = writer[n] /\ (pc[p] = "loading" \/ wrote' = wrote)
  <2>1. CASE StartWrite(p)
    <3>1. target[p] # n /\ pc[p] = "loading"
      BY <1>3, <2>1 DEF StartWrite
    <3>. QED BY <1>2, <2>1, <3>1 DEF StartWrite, TypeInv
  <2>2. CASE Open(p) \/ StartRead(p) \/ Read(p)
    BY <2>2 DEF Open, StartRead, Read
  <2>3. CASE Close(p)
    <3>1. target[p] # n
      BY <1>3, <2>3 DEF Close, Busy
    <3>2. wrote' = wrote /\ (writer' = writer \/ writer' = [writer EXCEPT ![target[p]].state = "whole"])
      BY <2>3 DEF Close
    <3>. QED BY <1>2, <3>1, <3>2 DEF TypeInv
  <2>4. CASE Raise(p) \/ Kill(p)
    <3>1. target[p] # n
      BY <1>3, <2>4 DEF Raise, Kill, Busy
    <3>2. wrote' = wrote /\ writer' = [writer EXCEPT ![target[p]].state = "cut"]
      BY <2>4 DEF Raise, Kill, EndEarly
    <3>. QED BY <1>2, <3>1, <3>2 DEF TypeInv
  <2>. QED BY <2>1, <2>2, <2>3, <2>4 DEF Move, Act
<1>5. PICK b : b = writer[n].by
  OBVIOUS
<1>6. b \in Programs /\ pc[b] # "loading" /\ writer[n].state = "whole"
  BY <1>2, <1>4, <1>5 DEF WholeInv, WholeDeck
<1>7. wrote'[b] = wrote[b]
  BY <1>4, <1>6, OthersRest DEF SameFor
<1>8. OfOne(wrote[b], vt[q], todo[q])
  BY <1>2, <1>5, <1>6 DEF ReaderOne, LastWriter
<1>9. wrote'[b] = wrote[b] /\ vt'[q] = vt[q] /\ todo'[q] = todo[q] /\ LastWriter(q)' = b
  BY <1>1, <1>2, <1>4, <1>5, <1>7 DEF SameFor, LastWriter
<1>. QED BY <1>8, <1>9 DEF OfOne, Genuine

\* StartRead: there is the main file to read.
LEMMA StartReadOne ==
  ASSUME TypeInv, NEW p \in Programs, StartRead(p)
  PROVE  ReaderOne(p)'
<1>1. PICK x, s, w : x = <<Fst, Fst>> /\ s = <<x>> /\ w = wrote[LastWriter(p)]'
  OBVIOUS
<1>2. todo'[p] = s /\ vt'[p] = <<>>
  BY <1>1 DEF StartRead, TypeInv
<1>3. x \in GoodItems(w)
  BY <1>1, SoughtByModules, ItemKinds DEF GoodItems, Good, Apt
<1>4. s \in Seq(GoodItems(w))
  BY <1>1, <1>3
<1>5. PICK d : d = <<>> /\ DOMAIN d = {}
  OBVIOUS
<1>6. Genuine(w, d)
  BY <1>5 DEF Genuine
<1>7. OfOne(w, d, s)
  BY <1>1, <1>4, <1>6 DEF OfOne
<1>. QED BY <1>1, <1>2, <1>5, <1>7 DEF ReaderOne

\* Read: what is taken of a deck that was written whole is of its last writer.
LEMMA ReadOne ==
  ASSUME LoadedAsRead, LoadedWritable, NoLeftovers, OneInv, NEW p \in Programs, Read(p)
  PROVE  /\ ReaderOne(p)'
         /\ writer[target[p]].state = "whole" =>
              /\ Genuine(wrote[LastWriter(p)], vt'[p])
              /\ Presents(Under(target[p]), wrote[LastWriter(p)])
<1>1. PICK n, at, d, s : n = target[p] /\ at = Under(n) /\ d = vt[p] /\ s = todo[p]
  OBVIOUS
<1>2. PICK r \in ReadNext(at, d, s) :
        /\ r[3] # "hung" /\ vt' = [vt EXCEPT ![p] = r[1]] /\ todo' = [todo EXCEPT ![p] = r[2]]
        /\ pc' = [pc EXCEPT ![p] = IF r[3] = "raised" THEN "failed"
                                   ELSE IF r[2] = <<>> THEN "read" ELSE "reading"]
  BY <1>1 DEF Read
<1>3. /\ TypeInv /\ DeckInv /\ BaseInv /\ WholeInv /\ pc[p] = "reading" /\ s # <<>> /\ n \in Names
      /\ UNCHANGED <<target, wrote, writer>>
  BY <1>1 DEF OneInv, ReadingInv, DeckInv, Read, Reader, TypeInv
<1>4. vt'[p] = r[1] /\ todo'[p] = r[2] /\ (pc'[p] = "reading" => r[3] # "raised")
  BY <1>2, <1>3 DEF TypeInv
<1>5. CASE writer[n].state = "whole"
  <2>1. PICK w : w = wrote[LastWriter(p)]
    OBVIOUS
  <2>2. Presents(at, w) /\ OfOne(w, d, s)
    BY <1>1, <1>3, <1>5, <2>1, WholePresents DEF LastWriter, OneInv, ReaderOne
  <2>3. Genuine(w, r[1]) /\ (r[3] \notin {"raised", "hung"} => OfOne(w, r[1], r[2]))
    BY <1>2, <1>3, <2>2, ReadOn
  <2>4. wrote[LastWriter(p)]' = w
    BY <1>3, <2>1 DEF LastWriter
  <2>5. pc'[p] = "reading" => OfOne(wrote[LastWriter(p)]', vt'[p], todo'[p])
    BY <1>2, <1>4, <2>3, <2>4
  <2>6. ReaderOne(p)'
    BY <2>5 DEF ReaderOne
  <2>. QED BY <1>1, <1>4, <2>1, <2>2, <2>3, <2>6
<1>6. CASE writer[n].state # "whole"
  <2>1. ReaderOne(p)'
    BY <1>1, <1>3, <1>6 DEF ReaderOne
  <2>. QED BY <1>1, <1>6, <2>1
<1>. QED BY <1>5, <1>6

\* This is inductive.
LEMMA OneStep ==
  ASSUME LoadedAsRead, LoadedWritable, NoLeftovers
  PROVE  OneInv /\ [Next]_vars => OneInv'
<1>. SUFFICES ASSUME OneInv, [Next]_vars PROVE OneInv'
  OBVIOUS
<1>1. TypeInv /\ DeckInv /\ BaseInv /\ WholeInv
  BY DEF OneInv, ReadingInv, DeckInv
<1>2. ReadingInv'
  BY ReadingStep DEF OneInv
<1>3. ASSUME NEW p \in Programs, Move(p), ReaderOne(p)' PROVE \A q \in Programs : ReaderOne(q)'
  BY <1>1, <1>3, OthersOne DEF OneInv
<1>4. ASSUME NEW p \in Programs, StartWrite(p) PROVE OneInv'
  <2>1. pc'[p] = "writing" /\ Move(p)
    BY <1>1, <1>4 DEF StartWrite, TypeInv, Move
  <2>2. ReaderOne(p)'
    BY <2>1 DEF ReaderOne
  <2>. QED BY <1>1, <1>2, <1>3, <1>4, <2>1, <2>2, StartWriteWhole DEF OneInv
<1>5. ASSUME NEW p \in Programs, Open(p) \/ Close(p) PROVE OneInv'
  <2>1. pc'[p] \in {"writing", "wrote"} /\ Move(p)
    BY <1>1, <1>5 DEF Open, Close, TypeInv, Move, Act
  <2>2. ReaderOne(p)'
    BY <2>1 DEF ReaderOne
  <2>. QED BY <1>1, <1>2, <1>3, <1>5, <2>1, <2>2, WriteWhole DEF OneInv
<1>6. ASSUME NEW p \in Programs, Raise(p) \/ Kill(p) PROVE OneInv'
  <2>1. pc'[p] = "cut" /\ Move(p)
    BY <1>1, <1>6 DEF Raise, Kill, EndEarly, TypeInv, Move, Act
  <2>2. ReaderOne(p)'
    BY <2>1 DEF ReaderOne
  <2>. QED BY <1>1, <1>2, <1>3, <1>6, <2>1, <2>2, EndEarlyWhole DEF OneInv
<1>7. ASSUME NEW p \in Programs, StartRead(p) PROVE OneInv'
  <2>1. Move(p) /\ ReaderOne(p)'
    BY <1>1, <1>7, StartReadOne DEF Move
  <2>. QED BY <1>1, <1>2, <1>3, <1>7, <2>1, ReadWhole DEF OneInv
<1>8. ASSUME NEW p \in Programs, Read(p) PROVE OneInv'
  <2>1. Move(p) /\ ReaderOne(p)'
    BY <1>8, ReadOne DEF Move, Act
  <2>. QED BY <1>1, <1>2, <1>3, <1>8, <2>1, ReadWhole DEF OneInv
<1>9. CASE UNCHANGED vars
  <2>1. UNCHANGED <<source, target, pc, todo, vt, wrote, disk, writer, kills>>
    BY <1>9 DEF vars
  <2>2. WholeInv'
    BY <1>1, <2>1 DEF WholeInv, Pending, WholeDeck, Ours, Held
  <2>3. \A q \in Programs : ReaderOne(q)'
    BY <2>1 DEF OneInv, ReaderOne, LastWriter
  <2>. QED BY <1>2, <2>2, <2>3 DEF OneInv
<1>. QED BY <1>4, <1>5, <1>6, <1>7, <1>8, <1>9 DEF Next, Act

\* ReadIsOneVersion: what a program ends up with after reading a name that was written whole
\* is of its last writer alone, whatever was written there before, by whom, and whoever was
\* killed over it, and whoever writes other names meanwhile (read_* against write_*, execute).
THEOREM DecksReadAsOne ==
  ASSUME LoadedAsRead, LoadedWritable, NoLeftovers
  PROVE  Spec => ReadIsOneVersion
<1>1. Init => OneInv
  <2>1. Init => \A p \in Programs : ReaderOne(p)
    BY DEF Init, ReaderOne
  <2>. QED BY <2>1, InitReading, InitWhole DEF OneInv
<1>. DEFINE Reads1 == \A p \in Programs :
       EndsRead(p) /\ pc'[p] = "read" /\ writer[target[p]].state = "whole"
         => \A part \in DOMAIN vt'[p] :
              KeepsName(part) \/ part = OLAF \/ vt'[p][part].ver = LastWriter(p)
<1>2. OneInv /\ [Next]_vars => [Reads1]_vars
  <2>. SUFFICES ASSUME OneInv, Next, NEW p \in Programs, EndsRead(p), pc'[p] = "read",
                       writer[target[p]].state = "whole", NEW part \in DOMAIN vt'[p]
                PROVE  KeepsName(part) \/ part = OLAF \/ vt'[p][part].ver = LastWriter(p)
    OBVIOUS
  <2>1. TypeInv /\ BaseInv /\ WholeInv /\ target[p] \in Names
    BY DEF OneInv, ReadingInv, DeckInv, TypeInv
  <2>2. Read(p)
    <3>1. PICK q \in Programs : Move(q)
      BY DEF Next, Move
    <3>2. q = p
      BY <2>1, <3>1, OthersRest DEF SameFor, EndsRead
    <3>. QED BY <3>1, <3>2 DEF EndsRead, Move, Act, StartWrite, Open, Close, Raise, Kill, StartRead
  <2>3. /\ Genuine(wrote[LastWriter(p)], vt'[p])
        /\ Presents(Under(target[p]), wrote[LastWriter(p)])
    BY <2>2, ReadOne
  <2>4. PICK b, d, at : b = LastWriter(p) /\ d = vt'[p] /\ at = Under(target[p])
    OBVIOUS
  <2>5. b \in Programs /\ pc[b] # "loading"
    BY <2>1, <2>4 DEF WholeInv, WholeDeck, LastWriter
  <2>6. Origin(b)
    BY <2>1, <2>5 DEF BaseInv
  <2>. QED BY <2>1, <2>3, <2>4, <2>5, <2>6, GenuineIsOf
<1>. QED BY <1>1, <1>2, OneStep, PTL DEF Spec, ReadIsOneVersion
=============================================================================
