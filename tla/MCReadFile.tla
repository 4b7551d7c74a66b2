-------------------------------- MODULE MCReadFile --------------------------------
(***************************************************************************)
(* Files below, at and above the cap, some of which are no text as a whole *)
(* or up to a point.                                                       *)
(***************************************************************************)
EXTENDS ReadFile

MCContents == {<<>>, <<"a">>, <<"h">>, <<"a", "a">>, <<"h", "t">>, <<"t", "a">>, <<"a", "h", "t">>,
               <<"a", "a", "a", "a">>}
MCAppended == {<<"a">>, <<"t">>, <<"h", "t">>, <<"a", "a", "h">>}
===================================================================================
