------------------------------ MODULE MCRepoStats -------------------------------
(***************************************************************************)
(* A root with a file and a directory, which holds a file and a directory  *)
(* with one more file; the trees are this one with an entry replaced or a  *)
(* directory's mode changed, or out of reach.                              *)
(***************************************************************************)
EXTENDS RepoStats

ParentOf == [f |-> "root", d |-> "root", g |-> "d", e |-> "d", h |-> "e"]
ExtOf    == [f |-> ".ts", d |-> ".ts", g |-> ".md", e |-> ".md", h |-> "<none>"]
SizeOf   == [f |-> 1, d |-> 2, g |-> 4, e |-> 8, h |-> 16]

Kind0 == [root |-> "dir", f |-> "file", d |-> "dir", g |-> "file", e |-> "dir", h |-> "file"]
Mode0 == [p \in DOMAIN Kind0 |-> "rx"]

Tree0 == [kind |-> Kind0, mode |-> Mode0, reach |-> TRUE]

SomeTrees ==
  {Tree0, [Tree0 EXCEPT !.reach = FALSE]}
    \cup {[Tree0 EXCEPT !.kind["root"] = k] : k \in {"file", "absent", "link"}}
    \cup {[Tree0 EXCEPT !.kind[p] = "link"] : p \in {"f", "d", "e"}}
    \cup {[Tree0 EXCEPT !.mode[p] = m] : p \in {"root", "d", "e"}, m \in Modes}

Depth(v) == Json("object", [path |-> Json("string", "root"), max_depth |-> v])

SomeRequests ==
  {Json("absent", <<>>), Json("string", "root"),
   Json("object", [path |-> Json("integer", 5)]),
   Json("object", [path |-> Json("string", "empty")]),
   Json("object", [path |-> Json("string", "root"), depth |-> Json("integer", 1)]),
   Json("object", [path |-> Json("string", "root")]),
   Depth(Json("null", 0)), Depth(Json("fraction", 1)), Depth(Json("string", "2"))}
    \cup {Depth(Json("integer", n)) : n \in 0..4}
================================================================================
