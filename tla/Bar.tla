--------------------------------- MODULE Bar ---------------------------------
(***************************************************************************)
(* What a text barlib promises whoever looks at the bar: the line is that  *)
(* of the widgets' contents, the hidden widgets left out, and it changes   *)
(* from one whole line to another as one widget changes its content.       *)
(***************************************************************************)
EXTENDS Naturals, Sequences, SequencesExt

CONSTANTS NWidgets,  \* the widgets are 1..NWidgets
          Texts,     \* what a widget can show
          Separator  \* the text between two widgets

VARIABLES content,   \* [1..NWidgets -> the text a widget shows]
          line       \* the line on the bar

Empty == <<>>

\* The text y after the text x, with the separator between the two if both are there.
Joined(x, y) == IF x = Empty \/ y = Empty THEN x \o y ELSE x \o Separator \o y

\* upto[w] is the line of the first w widgets.
Line(c) ==
  LET upto[w \in 0..NWidgets] == IF w = 0 THEN Empty ELSE Joined(upto[w - 1], c[w])
  IN upto[NWidgets]

DInit == content = [w \in 1..NWidgets |-> Empty] /\ line = Line(content)

Show(w, text) ==
  /\ content' = [content EXCEPT ![w] = text]
  /\ line' = Line(content')

DNext == \E w \in 1..NWidgets, text \in Texts : Show(w, text)
DSpec == DInit /\ [][DNext]_<<content, line>>
=============================================================================
