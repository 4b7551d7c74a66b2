------------------------------- MODULE RepoStats --------------------------------
(***************************************************************************)
(* The tool repo_stats: the handler of the internal-tools-bridge server,   *)
(* the call of runBridged it makes (module Bridge), and the program in the *)
(* child process, bin/repo-stats.mjs, which walks a tree that others       *)
(* change.  The child of Bridge is either any program or this one.         *)
(***************************************************************************)
EXTENDS Bridge, Sequences, FiniteSetsExt, ToolArgs

CONSTANTS
  Root,        \* the path the client asks for
  Paths,       \* the paths below it
  Parent,      \* Parent[p]: the directory of path p
  Ext,         \* Ext[p]: the extension of its name
  Size,        \* Size[p]: its size as a regular file
  OtherSize,   \* the size of what is not a regular file
  AbsoluteMaxDepth,  \* ABSOLUTE_MAX_DEPTH and its bound in the handler
  DefaultMaxDepth,   \* DEFAULT_MAX_DEPTH
  Trees,       \* the trees a call may find: records [kind, mode, reach]
  Requests,    \* the arguments of the calls
  MaxMoves     \* bound on the changes others make while the child runs

All  == Paths \cup {Root}
Exts == {Ext[p] : p \in Paths}

Kinds == {"file", "dir", "link", "absent"}
Modes == {"rx", "r", "none"}   \* of a directory: listed and searched, listed, neither

\* From any path, Parent leads up to the root: no set of paths holds the parent
\* of each of its members.
ASSUME StatsAssumption ==
  /\ Root \notin Paths /\ IsFiniteSet(Paths) /\ "null" \notin Paths
  /\ Parent \in [Paths -> All]
  /\ \A P \in SUBSET Paths : P # {} => \E p \in P : Parent[p] \notin P
  /\ Size \in [Paths -> Nat] /\ OtherSize \in Nat
  /\ AbsoluteMaxDepth \in Nat /\ DefaultMaxDepth \in 1..AbsoluteMaxDepth
  /\ Trees \subseteq [kind : [All -> Kinds], mode : [All -> Modes], reach : BOOLEAN]
  /\ MaxMoves \in Nat
  /\ Cardinality(Exts) < MaxWritten
  /\ {"stdout", "stderr"} \subseteq Streams

VARIABLES
  program,  \* "any", or "repo-stats" when the handler of the tool spawns it
  request,  \* the arguments of the call
  reply,    \* what the handler answers
  argv,     \* the argument vector of the child
  tree,     \* tree.kind[p], tree.mode[p], and tree.reach: the directories above
            \* the root can be searched
  past,     \* history: the trees there have been since the call began
  moves,    \* the changes made while the child runs
  stage,    \* where repo-stats is
  opts,     \* its parsed arguments
  stack,    \* the calls of recurse that have not returned: [dir, read, left]
  statting, \* the counted file whose size is being asked for, or "null"
  found,    \* [byExt, files, bytes]
  said      \* what it printed

toolVars  == <<program, request, reply, argv>>
walkVars  == <<opts, stack, statting, found>>
cliVars   == <<stage, walkVars, said>>
treeVars  == <<tree, past, moves>>
statsVars == <<vars, toolVars, treeVars, cliVars>>

Nothing == [byExt |-> [x \in Exts |-> 0], files |-> 0, bytes |-> 0]

StatsInit ==
  /\ Init
  /\ program \in {"any", "repo-stats"}
  /\ request \in (IF program = "any" THEN {Json("absent", <<>>)} ELSE Requests)
  /\ tree \in (IF program = "any" THEN {CHOOSE t \in Trees : TRUE} ELSE Trees)
  /\ reply = [kind |-> "none"]
  /\ argv = <<>>
  /\ past = {tree} /\ moves = 0
  /\ stage = "main"
  /\ opts = [root |-> "null", maxDepth |-> DefaultMaxDepth]
  /\ stack = <<>> /\ statting = "null" /\ found = Nothing
  /\ said = [kind |-> "nothing"]

--------------------------------------------------------------------------------
(* The tree, as the system calls see it.                                   *)

Above[p \in All] == IF p = Root THEN {} ELSE {Parent[p]} \cup Above[Parent[p]]
Children(p)      == {q \in Paths : Parent[q] = p}

Open(t, p) == t.kind[p] = "dir" /\ t.mode[p] = "rx"

\* What is at a path: below a link, a regular file of the directory it leads to.
At(t, p) ==
  CASE ~t.reach -> "absent"
    [] t.reach /\ \A a \in Above[p] : Open(t, a) -> t.kind[p]
    [] t.reach /\ \E a \in Above[p] : t.kind[a] = "link" /\ \A b \in Above[a] : Open(t, b) -> "file"
    [] OTHER -> "absent"

\* A root that can be listed and searched.
Walkable(t) == t.reach /\ (Open(t, Root) \/ t.kind[Root] = "link")

\* readdir follows a link; without the permission to list, or without a
\* directory, it fails.
Lists(t, p) ==
  \/ At(t, p) = "link"
  \/ At(t, p) = "dir" /\ t.mode[p] # "none"

\* The entries and their types, as of the moment of the call.
Listing(t, p) ==
  IF At(t, p) = "link" THEN {[path |-> q, kind |-> "file"] : q \in Children(p)}
  ELSE {[path |-> q, kind |-> t.kind[q]] : q \in {c \in Children(p) : t.kind[c] # "absent"}}

\* stat: the size of what the path now leads to, nothing when it fails.
SizeAt(t, p) ==
  CASE At(t, p) = "file"          -> Size[p]
    [] At(t, p) \in {"dir", "link"} -> OtherSize
    [] OTHER                      -> 0

--------------------------------------------------------------------------------
(* The handler of the tool.                                                *)

Schema == [properties |-> [path |-> "string", max_depth |-> "integer"], required |-> {"path"}]

Field(a, key) == IF key \in DOMAIN a THEN a[key] ELSE Json("undefined", 0)

\* Mutant: the range is left to the program.
validateNoRange(a) ==
  LET path == Field(a, "path")
      max_depth == Field(a, "max_depth")
  IN  /\ path.kind = "string"
      /\ path.value \notin {"empty", "NUL"}
      /\ max_depth.kind \in {"undefined", "integer"}

validateRepoStatsInput(a) ==
  LET path == Field(a, "path")
      max_depth == Field(a, "max_depth")
  IN  /\ path.kind = "string"
      /\ path.value \notin {"empty", "NUL"}
      /\ max_depth.kind # "undefined" =>
           /\ max_depth.kind = "integer"
           /\ max_depth.value \in 1..AbsoluteMaxDepth

\* The flags of the call's argument vector, each with its word.
ArgvOf(a) ==
  LET max_depth == Field(a, "max_depth")
      flags == IF max_depth.kind = "undefined" THEN {"--root"} ELSE {"--root", "--max-depth"}
  IN  [flag \in flags |-> IF flag = "--root" THEN Field(a, "path").value ELSE max_depth.value]

\* The schema, then the handler's own checks; a refusal spawns nothing.
Handle ==
  /\ program = "repo-stats"
  /\ argv = <<>>
  /\ reply.kind = "none"
  /\ \/ /\ checkToolArgs(Schema, request) # "null"
        /\ reply' = [kind |-> "invalid"] /\ UNCHANGED argv
     \/ /\ checkToolArgs(Schema, request) = "null"
        /\ ~validateRepoStatsInput(request.value)
        /\ reply' = [kind |-> "input error"] /\ UNCHANGED argv
     \/ /\ checkToolArgs(Schema, request) = "null"
        /\ validateRepoStatsInput(request.value)
        /\ argv' = ArgvOf(request.value) /\ UNCHANGED reply
  /\ UNCHANGED <<vars, program, request, treeVars, cliVars>>

\* A line is as long as it has extensions to list.
Line(f) == 1 + Cardinality({x \in Exts : f.byExt[x] > 0})

\* JSON.parse takes the whole line or nothing.
Parsed ==
  IF said.kind = "stats" /\ chunks["stdout"] = Line(said.found)
  THEN said ELSE [kind |-> "not JSON"]

\* repoStats and the catch block: an error of the call is worded by its kind,
\* with what the program wrote to stderr.
Answer ==
  CASE outcome = "ok"      -> Parsed
    [] outcome = "nonzero" -> IF chunks["stderr"] > 0 THEN said ELSE [kind |-> "nothing"]
    [] OTHER               -> [kind |-> outcome]

Reply ==
  /\ argv # <<>>
  /\ outcome # "pending"
  /\ reply.kind = "none"
  /\ reply' = Answer
  /\ UNCHANGED <<vars, program, request, argv, treeVars, cliVars>>

--------------------------------------------------------------------------------
(* bin/repo-stats.mjs.                                                     *)

Step == program = "repo-stats" /\ child = "running" /\ UNCHANGED <<toolVars, treeVars>>

\* A depth that is not in range, or no root, is refused: the depth is 0.
parseArgs(words) ==
  LET given == DOMAIN words
  IN  IF /\ "--root" \in given
         /\ "--max-depth" \in given => words["--max-depth"] \in 1..AbsoluteMaxDepth
      THEN [root     |-> words["--root"],
            maxDepth |-> IF "--max-depth" \in given THEN words["--max-depth"] ELSE DefaultMaxDepth]
      ELSE [root |-> "null", maxDepth |-> 0]

Say(kind) == said' = [kind |-> kind] /\ stage' = "stderr"

main ==
  /\ Step /\ stage = "main"
  /\ opts' = parseArgs(argv)
  /\ IF opts'.maxDepth = 0 THEN Say("bad flag") ELSE stage' = "stat" /\ UNCHANGED said
  /\ UNCHANGED <<vars, stack, statting, found>>

\* A stat that the directories above the root deny says nothing of the root.
StatRoot ==
  /\ Step /\ stage = "stat"
  /\ \/ ~tree.reach /\ Say("is not readable")
     \/ tree.reach /\ tree.kind[Root] = "absent" /\ Say("does not exist")
     \/ tree.reach /\ tree.kind[Root] = "file" /\ Say("is not a directory")
     \/ tree.reach /\ tree.kind[Root] \in {"dir", "link"} /\ stage' = "access" /\ UNCHANGED said
  /\ UNCHANGED <<vars, walkVars>>

\* A call of recurse, before its readdir.
Frame(p) == [dir |-> p, read |-> FALSE, left |-> {}]

\* Mutant: the root is asked for nothing but to be listed.
AccessListOnly ==
  /\ Step /\ stage = "access"
  /\ stage' = "walk" /\ UNCHANGED said
  /\ stack' = <<Frame(Root)>>
  /\ UNCHANGED <<vars, opts, statting, found>>

\* The root alone is asked for the permission to list and to search.
Access ==
  /\ Step /\ stage = "access"
  /\ IF Walkable(tree) THEN stage' = "walk" /\ UNCHANGED said
     ELSE Say("is not readable")
  /\ stack' = <<Frame(Root)>>
  /\ UNCHANGED <<vars, opts, statting, found>>

Walking == Step /\ stage = "walk" /\ statting = "null" /\ stack # <<>>
Top     == stack[Len(stack)]
Pop     == SubSeq(stack, 1, Len(stack) - 1)

\* A nested directory that cannot be listed is skipped, the root is an error.
ReadDir ==
  /\ Walking
  /\ ~Top.read
  /\ IF Lists(tree, Top.dir)
     THEN /\ stack' = [stack EXCEPT ![Len(stack)] = [@ EXCEPT !.read = TRUE, !.left = Listing(tree, Top.dir)]]
          /\ UNCHANGED <<stage, said>>
     ELSE /\ stack' = Pop
          /\ IF Top.dir = Root THEN Say("is not readable") ELSE UNCHANGED <<stage, said>>
  /\ UNCHANGED <<vars, opts, statting, found>>

\* A link is passed over, a directory entered while the depth allows, a regular
\* file counted before its size is asked for.
Entry(e) ==
  /\ Walking
  /\ Top.read
  /\ e \in Top.left
  /\ LET rest == [stack EXCEPT ![Len(stack)].left = @ \ {e}]
     IN  CASE e.kind = "link" -> stack' = rest /\ UNCHANGED <<statting, found>>
           [] e.kind = "dir"  ->
                /\ stack' = IF Len(stack) < opts.maxDepth
                            THEN Append(rest, Frame(e.path)) ELSE rest
                /\ UNCHANGED <<statting, found>>
           [] e.kind = "file" ->
                /\ stack' = rest
                /\ statting' = e.path
                /\ found' = [found EXCEPT !.byExt[Ext[e.path]] = @ + 1, !.files = @ + 1]
  /\ UNCHANGED <<vars, stage, opts, said>>

Stat ==
  /\ Step /\ statting # "null"
  /\ found' = [found EXCEPT !.bytes = @ + SizeAt(tree, statting)]
  /\ statting' = "null"
  /\ UNCHANGED <<vars, stage, opts, stack, said>>

Return ==
  /\ Walking
  /\ Top.read /\ Top.left = {}
  /\ stack' = Pop
  /\ IF Len(stack) = 1
     THEN stage' = "stdout" /\ said' = [kind |-> "stats", found |-> found]
     ELSE UNCHANGED <<stage, said>>
  /\ UNCHANGED <<vars, opts, statting, found>>

Length == IF stage = "stdout" THEN Line(found) ELSE 1

PrintLine ==
  /\ Step
  /\ stage \in {"stdout", "stderr"}
  /\ written[stage] < Length
  /\ Write(stage)
  /\ UNCHANGED cliVars

ExitCli ==
  /\ Step
  /\ stage \in {"stdout", "stderr"}
  /\ written[stage] = Length
  /\ Exit(IF stage = "stdout" THEN "zero" ELSE "nonzero")
  /\ stage' = "done"
  /\ UNCHANGED <<walkVars, said>>

cli ==
  \/ main \/ StatRoot \/ Access \/ ReadDir \/ Stat \/ Return \/ PrintLine \/ ExitCli
  \/ \E p \in Paths, k \in Kinds : Entry([path |-> p, kind |-> k])

--------------------------------------------------------------------------------
\* Others replace what is at a path, or change the mode of a directory or of one
\* above the root.
Change(p) ==
  /\ program = "repo-stats" /\ child = "running"
  /\ moves < MaxMoves
  /\ moves' = moves + 1
  /\ \/ \E k \in Kinds \ {tree.kind[p]} : tree' = [tree EXCEPT !.kind[p] = k]
     \/ \E m \in Modes \ {tree.mode[p]} : tree' = [tree EXCEPT !.mode[p] = m]
     \/ p = Root /\ tree' = [tree EXCEPT !.reach = ~@]
  /\ past' = past \cup {tree'}
  /\ UNCHANGED <<vars, toolVars, cliVars>>

\* The steps of runBridged, with the child that repo-stats is not.
Call ==
  /\ program = "repo-stats" => argv # <<>>
  /\ \/ Refuse \/ Spawn \/ Timeout \/ SpawnError \/ Close \/ Die
     \/ \E s \in Streams : \E n \in 1..MaxWritten : Data(s, n)
     \/ /\ program = "any"
        /\ \/ (\E s \in Streams : Write(s)) \/ Fork \/ GrandchildExits
           \/ \E status \in {"zero", "nonzero"} : Exit(status)
  /\ UNCHANGED <<toolVars, treeVars, cliVars>>

StatsNext == Handle \/ Reply \/ cli \/ Call \/ \E p \in All : Change(p)

StatsSpec == StatsInit /\ [][StatsNext]_statsVars

\* As for Bridge: the timer and the signal, and now the handler, which runs in
\* the same event loop; the child need not take a step.
FairStats ==
  /\ StatsSpec
  /\ WF_statsVars(Timeout /\ Call) /\ WF_statsVars(Die /\ Call)
  /\ WF_statsVars(Handle) /\ WF_statsVars(Reply)
  /\ WF_statsVars((Refuse \/ Spawn) /\ Call)

--------------------------------------------------------------------------------
(* Properties.                                                             *)

\* What a tree holds down to a depth: the files whose directory is listed, and
\* of them those whose size can be read.  A root that is a link is followed.
Listed(t, depth) ==
  IF ~t.reach THEN {} ELSE IF t.kind[Root] = "link" THEN Children(Root)
  ELSE {p \in Paths :
          /\ t.kind[p] = "file"
          /\ Cardinality(Above[p]) <= depth
          /\ \A a \in Above[p] : t.kind[a] = "dir"
          /\ t.mode[Parent[p]] # "none"
          /\ \A a \in Above[p] \ {Parent[p]} : t.mode[a] = "rx"}

Sized(t, depth) ==
  {p \in Listed(t, depth) : t.kind[Root] = "link" \/ t.mode[Parent[p]] = "rx"}

\* The counts of these files, when the sizes of those are known.
Total(files) == MapThenSumSet(LAMBDA p : Size[p], files)

Tally(files, sized) ==
  [byExt |-> [x \in Exts |-> Cardinality({p \in files : Ext[p] = x})],
   files |-> Cardinality(files),
   bytes |-> Total(sized)]

Counts(t, depth) == Tally(Listed(t, depth), Sized(t, depth))

\* The depth a request asks for.
Asked(r) == LET d == Field(r.value, "max_depth")
            IN  IF d.kind = "undefined" THEN DefaultMaxDepth ELSE d.value

\* The counts a client is given are those of the tree, to the depth it asked
\* for, while nobody has changed it; a root that cannot be walked is never an empty
\* tree, and is refused for its own reason: a root that the directories above it
\* hide is neither missing nor a file, whatever it is.
CountsExact ==
  moves = 0 =>
    /\ reply.kind = "stats" =>
         /\ Walkable(tree)
         /\ reply.found = Counts(tree, Asked(request))
    /\ reply.kind = "does not exist" => tree.reach /\ tree.kind[Root] = "absent"
    /\ reply.kind = "is not a directory" => tree.reach /\ tree.kind[Root] = "file"
    /\ reply.kind = "is not readable" =>
         ~tree.reach \/ (tree.kind[Root] = "dir" /\ tree.mode[Root] # "rx")

\* The files a directory of the walk shows as files in one of the trees S; a
\* directory that became a link after its parent was listed shows what it leads to.
Shown(S, depth) ==
  {p \in Paths :
     /\ Cardinality(Above[p]) <= depth
     /\ \E t \in S : Lists(t, Parent[p]) /\ [path |-> p, kind |-> "file"] \in Listing(t, Parent[p])}

\* What is counted while others change the tree was there: a file is counted at
\* most once and only if its directory showed it at some moment of the call, and
\* a file that was there all along, by directories that were, is never missed; so
\* with the sizes.  What the root is refused for was the case at some moment, so
\* that nothing that happens below the root refuses it.
CountsLived ==
  LET depth  == Asked(request)
      always == {p \in Paths : \A t \in past : p \in Listed(t, depth)}
      sized  == {p \in Paths : \A t \in past : p \in Sized(t, depth)}
      once   == Shown(past, depth)
      most   == MapThenSumSet(LAMBDA p : Max({SizeAt(t, p) : t \in past}), once)
  IN  /\ reply.kind = "stats" =>
           /\ \E t \in past : Walkable(t)
           /\ \A x \in Exts : reply.found.byExt[x] \in
                Cardinality({p \in always : Ext[p] = x}) .. Cardinality({p \in once : Ext[p] = x})
           /\ reply.found.files = MapThenSumSet(LAMBDA x : reply.found.byExt[x], Exts)
           /\ reply.found.bytes \in Total(sized) .. most
      /\ reply.kind = "does not exist" => \E t \in past : t.reach /\ t.kind[Root] = "absent"
      /\ reply.kind = "is not a directory" => \E t \in past : t.reach /\ t.kind[Root] = "file"
      /\ reply.kind = "is not readable" => \E t \in past : ~Walkable(t)

\* What repo_stats tells of a tree is true of it, or, where others change it
\* during the walk, of what was there (the counts of walk and the refusals of main).
StatsTrue == CountsExact /\ CountsLived

\* The handler's checks leave the program nothing to refuse in its arguments,
\* and its answer is never cut short: what parses is all there is.
Whole == reply.kind \notin {"bad flag", "not JSON", "nothing"}

\* Every call of runBridged is answered, whatever program it runs and whatever
\* the child does, and so is every call of the tool.
Replied == Answered /\ (program = "repo-stats" ~> reply.kind # "none")
================================================================================
