----------------------------- MODULE MCLoading ------------------------------
(***************************************************************************)
(* Loading for TLC: all bodies up to a length over a short alphabet and a  *)
(* few longer ones are read on small blank grids, and the hint's glider    *)
(* over a preset in its first few generations.                             *)
(***************************************************************************)
EXTENDS Loading, SequencesExt

CONSTANTS
  MaxLength,   \* bound: characters of an arbitrary body
  TextEdges,   \* bound: edges of the blank grids that all bodies are read on
  MaxReload    \* bound: age of a pattern that another is loaded over

MCHeader(w, h, r) == [x |-> w, y |-> h, rule |-> r]

\* Boxes of several shapes, one wider than the smallest grid; and a header
\* for each way to be refused.
MCHeaders ==
  {MCHeader(w, h, "B3/S23") : w, h \in {1, 3}}
  \cup {MCHeader(2, 2, "none"), MCHeader(3, 3, "other"),
        MCHeader(0, 3, "none"), MCHeader(3, -1, "B3/S23")}

MCAlphabet == {"0", "1", "9", "b", "o", "$", " ", "!", "#"}

\* The hint's glider, and bodies whose column and line pass the word.
MCHint == <<"b", "o", "b", "$", "2", "b", "o", "$", "3", "o", "!">>

MCLongBodies ==
  {MCHint,
   <<"9", "b", "9", "b", "o">>,
   <<"9", "$", "9", "$", "o">>}

MCReadable(text) ==
  Len(text) <= MaxLength \/ \E long \in MCLongBodies : IsPrefix(text, long)

MCReadOn(n, origin, time, text) ==
  \/ n \in TextEdges /\ origin = "nothing"
  \/ origin \in Presets /\ time <= MaxReload /\ IsPrefix(text, MCHint)
=============================================================================
