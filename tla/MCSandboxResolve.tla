---------------------------- MODULE MCSandboxResolve ----------------------------
(* "r" is the root and "l" a link to it; "rx" is a directory outside whose *)
(* name begins with the root's.  Every tree over them, and every input of  *)
(* a few components.                                                       *)
EXTENDS SandboxResolve

CONSTANTS
  Starts,       \* where an input may start
  MaxSuffix,    \* how many components may follow
  ShortStarts   \* where an input of at most MaxShort components may also start

Places == {<<>>, <<"r">>, <<"l">>, <<"rx">>, <<"rx", "b">>,
           <<"r", "a">>, <<"r", "b">>, <<"r", "a", "b">>}

LinksTo(S) == {Link(p) : p \in S}

SmallTrees ==
  { [p \in Places |-> CASE p = <<"r", "a">> -> a
                       [] p = <<"r", "b">> -> b
                       [] p = <<"r", "a", "b">> -> IF a = Dir THEN ab ELSE None
                       [] p = <<"rx", "b">> -> xb
                       [] p = <<"l">> -> Link(<<"r">>)
                       [] OTHER -> Dir] :
      a  \in {None, File, Dir} \cup LinksTo({<<"r">>, <<"rx">>, <<"rx", "b">>, <<"r", "b">>}),
      b  \in {None, File} \cup LinksTo({<<"rx">>, <<"rx", "a">>, <<"r", "a">>, <<"r", "a", "..">>}),
      ab \in {None, File} \cup LinksTo({<<"rx", "b">>, <<"r">>}),
      xb \in {File} \cup LinksTo({<<"r">>}) }

ShortInputs ==
  LET suffixes(n) == SeqOf({"a", "b", ".", ".."}, n)
  IN [ path : { <<p>> \o s : p \in Starts, s \in suffixes(MaxSuffix) }
                \cup { <<p>> \o s : p \in ShortStarts, s \in suffixes(MaxShort - 1) },
       slash : BOOLEAN, valid : {TRUE} ]
  \cup {[path |-> <<>>, slash |-> FALSE, valid |-> FALSE]}

Entries == {None, File, Dir, Link(<<"rx">>)}
=================================================================================
