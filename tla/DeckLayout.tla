----------------------------- MODULE DeckLayout -----------------------------
(***************************************************************************)
(* How the layout of an input file is described.  A file is a sequence of  *)
(* sections <<name, lines>>: the lines of a section are consumed by count, *)
(* except those of a list of output channels, which goes on to a line that *)
(* starts with END.  Blanks, wording and the format of a value are left    *)
(* out; what matters is which line a value is on.                          *)
(***************************************************************************)
EXTENDS Integers, Sequences, SequencesExt

UntilEnd == -1

\* A list of output channels: its heading, then names until END.
Channels(name) == <<<<name, 1>>, <<"list", UntilEnd>>>>

\* The optional list of channels at blade nodes, where there is one.
NodalChannels(c, header) ==
  IF c.nodal = 1 THEN <<<<"nodal outputs", header - 1>>>> \o Channels("nodal OutList") ELSE <<>>

\* A heading, the number of rows, two lines of column titles, and the rows.
Table(c, name) == <<name, 4 + c[name]>>
Tables(c, names) == [i \in 1..Len(names) |-> Table(c, names[i])]

\* Sections without lines are not there.
Nonempty(layout) == SelectSeq(layout, LAMBDA s : s[2] # 0)
=============================================================================
