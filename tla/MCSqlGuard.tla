------------------------------ MODULE MCSqlGuard ------------------------------
(***************************************************************************)
(* Texts put together from chunks that belong together: escape strings and *)
(* their continuations; dollar quotes, names and comments; parentheses.    *)
(***************************************************************************)
EXTENDS SqlGuard

Quote == <<"quote">>
Escape == <<"E", "quote">>
Line  == <<"newline">>
Back  == <<"backslash">>
Semi  == <<"semicolon">>

MCFamilies == {
  [seeds |-> {<<>>, Escape \o Quote}, max |-> 6,
   chunks |-> {Quote, Back, Line, LineStart, BlockStart \o BlockStop, <<"K">>}],
  [seeds |-> {Escape \o Quote \o BlockStart \o BlockStop}, max |-> 6,
   chunks |-> {Quote, Back \o Quote, Line, LineStart, <<"K">>}],
  [seeds |-> {<<>>}, max |-> 5,
   chunks |-> {<<"dollar">>, <<"x">>, Quote, Escape, <<"double">>, LineStart, Semi, <<"K">>, Line}],
  [seeds |-> {<<>>}, max |-> 5,
   chunks |-> {<<"slash">>, <<"star">>, Quote, <<"double">>, LineStart, Line, Semi, <<"K">>, <<"x">>}],
  [seeds |-> {<<>>}, max |-> 5,
   chunks |-> {<<"(">>, <<")">>, Quote, BlockStart, BlockStop, LineStart, Line, Semi, <<"dollar">>}] }
================================================================================
