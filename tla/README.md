# Verification of mcp-server-cookbook

The repository holds five MCP servers that share no runtime code. Each is one
process that reads JSON-RPC requests from stdin and answers on stdout; a Node
server handles calls concurrently, so two calls interleave at every `await`.
This directory models the parts of them whose behaviour depends on the order of
events, on failures, or on boundaries, checks them with TLC and proves their
invariants with TLAPS.

## Inventory

| component (source) | state | operations | interacts with | hard behaviour | correct when |
|---|---|---|---|---|---|
| filesystem-sandbox write path (`servers/filesystem-sandbox/src/atomic_write.ts`, `tools.ts` writeFile) | one temp file, handle and `renamed` flag per call; the directory | `write_file` | other calls, other server processes, other programs, the kernel | interleaving at every await, any call failing, kill, power loss | no reader and no restart sees a torn file; no stray or shared temp file; mode kept |
| filesystem-sandbox read path (`tools.ts` readFile, listDirectory) | a handle and a buffer per call | `read_file`, `list_directory` | writers of the same file | a file that grows or is replaced during the read | never more than the cap; one version, whole |
| filesystem-sandbox resolution (`sandbox.ts`) | the root, fixed at boot | `resolve`, `resolveDir`, `resolveFile` | the directory tree | symbolic links, missing leaves, a tree that changes after the check | an accepted path is under the root |
| filesystem-sandbox-py (`servers/filesystem-sandbox-py/filesystem_sandbox/*.py`) | as above, plus the stdio loop | as above, plus answers to undeliverable requests | the MCP SDK | a request the SDK drops, end of input with answers outstanding | every request answered at most once and by the right party, and lost only where the input ends |
| github-gists (`servers/github-gists/src/client.ts`, `tools.ts`) | an abort controller and a timer per request | `get_gist`, `update_gist_file` | the GitHub API | abort racing an answer or a body, a PATCH applied and reported as timed out | one answer per call, the token never in it |
| internal-tools-bridge `repo_stats` (`tools.ts`, `bin/repo-stats.mjs`) | the walk's stack and counts, in the child | `repo_stats` | runBridged, the tree that is walked | a tree that changes under the walk, three bounds on one argument | the counts are of entries that were there, the line that is parsed is whole |
| internal-tools-bridge `runBridged` (`servers/internal-tools-bridge/src/bridge.ts`) | `settled`, `killed`, `outputCapped`, byte counts, chunks, timer | `repo_stats` | a child process, its grandchildren, their pipes | four events race to settle one promise; a grandchild that keeps the pipes | answered once and in time; complete, or says why not; cap kept |
| postgres-readonly byte guard (`servers/postgres-readonly/src/db.ts` ResponseByteGuard) | header fill, body bytes left, the bound and count of the reply | `feed`, `limitResponse`, `endResponse` | the socket, pg-protocol, run_select | chunks cut anywhere, counts at a boundary | never past a bound; nothing else refused |
| postgres-readonly values (`tools.ts` SELECT_TYPES .. rowsByName, `timestamptz.ts`) | none | parsers, `parseUnregisteredArrays`, `stringifyPayload` | node-postgres, the catalog | values that two types print alike, names a query chose | a client can tell from the JSON what the database holds |
| postgres-readonly session and tools (`db.ts` withClient, `tools.ts`, `handler.ts`) | one connection per call | `run_select`, `sample_rows`, `describe_schema` | the database | two timeouts, a dropped connection, a refused stream whose query resolves, an `end()` without a timer | bounded and complete, or an error |
| postgres-readonly SQL guard (`sqlGuard.ts`) | none | `guardQuery`, `subqueryBody` | run_select | several scanners of literals and comments must agree | what is accepted is one read-only query |
| boot, configuration, dispatch (`config.ts`, `server.ts`, `tool-args.ts` of each server, `config.py`) | none after boot | argument and environment checks | the MCP SDK, the URL parser and `fetch` | numbers at a limit, texts two languages read differently, a URL that is repaired | what is let through is what was written, and what its uses can take |
| demo capture (`tools/capture-demo.mjs`) | none between runs | stages of a run, `--sandbox-root` rebuilt | other programs, an earlier run that was killed | a tree that changes between the walk and the removal | nothing foreign is destroyed |
| other tooling (`tools/check-*.mjs`, workflows) | none | checks of docs and copies | | | not modelled |

## Modules

### FileStore — what write_file promises

The abstract specification: `content` is what a reader sees of each file,
`stable` what a power loss leaves, `call` the progress of each call. A write
replaces one whole version by another in one step (`Commit`), a call that fails
changes nothing, and a restart shows versions that were current before.

### AtomicWrite — how it keeps the promise

The write_file handler and `atomicWriteFile`, one action per awaited call.

| module | code |
|---|---|
| `dir`, `inode` | the directory and the files as the kernel shows them |
| `ddir`, `disk` | the part of both that is on stable storage |
| `pc`, `req`, `tmp`, `fd`, `pos`, `seen` | where a call is, its arguments, and its locals `tmp`, `handle`, `mode` |
| `writeFile`, `CheckTarget` | the checks before any write, and the directory check |
| `CreateTemp`, `CreateFails` | `fs.open(O_EXCL)` before the `try` |
| `WriteData` .. `RenameTemp` | the six awaited calls inside the `try`; `handle.writeFile` is `Blocks` steps |
| `TryThrows`, `Cleanup` | any of them rejects; the `finally` block, whose unlink may itself fail |
| `Reply` | the handler's return or catch |
| `Kill`, `PowerLoss`, `WriteBackInode`, `WriteBackDir` | the process dies with some of the calls; the machine stops; the kernel writes back when and what it likes |
| `OutsideChmod`, `OutsideRemove` | another program changes a target |

`orphans` and `stale` are history variables: temp names nobody will remove any
more, and calls whose `seen` another program has invalidated (directly, or
through a call that was itself misled). No action reads them.

The kernel is assumed to keep the directory's own changes in order (a journal)
and to make `fsync` cover the data and the mode of the inode. `atomicWriteFile`
does not fsync the directory after the rename: the model has it, so an
acknowledged write may come back as the previous whole version after a power
loss. The code promises no more than that. The recursive mkdir before the open is
left out, here and in SandboxResolve: it makes directories, which no property of the
files is about, and the directory of the target is there.

### Bridge — runBridged

One call, its child, a grandchild that may inherit the pipes. `outcome` stands
for the settled promise, `chunks` for the kept bytes; `killed`, `outputCapped`,
`bytes`, `timer` and `listening` are the closure's variables. The branch of the
'close' handler that reports `outputCapped` can not be reached: the cap settles
the promise in the same callback that sets it (`Report` keeps it as
the code has it). Fairness in `FairSpec`: a timer that is armed fires, and a
signal that was sent is delivered. The child and the grandchild get none, so
`Answered` does not rest on their cooperation.

### RepoStats and ToolArgs — the tool around runBridged

`RepoStats` extends Bridge: `Handle` is the handler with `checkToolArgs` (`ToolArgs`)
and its bound on `max_depth`, `cli` the program in the child, one action per system
call of its walk, and `Reply` what the handler makes of the settled promise. The
variable `program` is `repo-stats`, or `any`, under which the child of Bridge does
what it likes: one run answers for both. `tree` is what the walk meets, and `Change`
other programs; a size is a power of two, so a sum tells which files it counted.
`tree.reach` says whether the directories above the root can be searched: where they
can not, `StatRoot` tells of a root that is not readable, as the code does for EACCES
and EPERM. `StatsTrue` has two parts. `CountsExact` is exact, for a tree that nobody
changed; `CountsLived` holds when others change it (`past`, the trees there have
been since the call began): a file is counted only if its directory showed it at some
moment, one that was there all along is never missed, and a refusal names what was the
case at some moment.

### ByteGuard — ResponseByteGuard

The real stream (`msg`, `off`) runs beside the guard's view of it (`headerFill`,
`remaining`), which sees only bytes; one action is one turn of `feed`'s loop.
`limitResponse` and `endResponse` come between chunks. The guard is installed on
a connection whose stream is at a message boundary, which is what the initial
state says; lengths are at least 4, as the protocol requires.

### PgSession — withClient and the tools of postgres-readonly

One tool call: the connection, the settings `withClient` sends before anything
else (`Pins`), the statements of `run_select`, `EXPLAIN`, `sample_rows` or
`describe_schema` (`Script`), the answer, and `client.end()`. `phase` and `step`
are where the call is; `wire` holds the messages of the reply under way, `got` the
rows of it that were parsed, `sock` the connection, `backend` and `running` the
server's side, `pins` the settings in force there. The byte guard is here what
ByteGuard shows it to be: `Over` and `TooLong` decide on whole messages, and
`Receive` takes as many as one read of the socket brings (`ChunkBytes`), because a
refused chunk is still parsed: `got` and `kept` hold its rows too, and a query may
resolve with them. What node-postgres does at a timeout (`QueryTimeout`: the query is
rejected, the connection stays) and at `end()` is modelled from how `db.ts` relies
on it. Data is abstract: a row is its number of bytes, `width` how much longer
its listing is.

Fairness: the client's timers fire, `end()` resolves once the socket is closed, an
ended connection is noticed, and a backend that has a `statement_timeout` stops. The
database need not answer, read a Terminate, or close the connection. The two client
timers see to it that every call has its answer, but the `await client.end()` of
`finally` (db.ts:318-320) has none: after a Terminate a host that went silent keeps the
call waiting, its answer made and not sent. `Answered` says that this is the only way a
call that connects is not answered (`Parting`).

### PgValues — from a value to the JSON a client reads

`SELECT_TYPES` and `timestamptz.ts` as `getTypeParser`, the look-up of unknown array
types as `candidates` and `arrayOids`, and `rowsByName` and `stringifyPayload` with
its placeholders for `RawJson`. A value is a sequence of tokens with what the parser
of `text[]` would find in it, so that the text `{a}` and the array of `a` look alike
until something tells them apart. `Query` in ServerLife puts it behind a call.

### GistsClient — one exchange and its timer

`request` of `client.ts` with the checks before it and the reads after it.
`exchange` is how far the response has come (`headers`, `body`, or broken off
before or after the headers), `timer` the AbortController's, `applied` which
updates the upstream has made. Each step of the upstream is its own action, so
the timer fires anywhere. `Settle` is the `finally` block, `Fail` the outer
catch. Fairness: a timer fires and an aborted fetch or read rejects; the upstream
may stall for ever.

### GistResponse and GistErrors — what a response is turned into

`GistResponse` has `gistShapeProblem` and `projectGist` on every body up to three
values away from one that GitHub sends, a value being known by the type the code
tests. `GistErrors` has the text of an error: `redactToken`, `capErrorText` and the
surfaces an upstream text comes through, each with its own cap, before the cap of
the constructor. A text is made of plain units, surrogate pairs and tokens; caps
are small, and `CapsAssumption` (in `ServerLife`) keeps their order (200 and a prefix below 300).

### EnvText, Boot and ServerLife — from the environment to a result

`EnvText` has what each language trims and how each reads a number, over the
characters that tell them apart (`NEL` is white space to Python alone, `BOM` to
JavaScript alone). `Boot` is a start: `Start` reads the configuration from `env`,
`Build` takes one from another program, either refuses, and `CallTool` checks the
arguments of a call and keeps what its handler reads (`read`). The four TypeScript
servers are one module; the Python port's `read_sandbox_config_from_env` stands
beside the TypeScript one, and `PortsAgree` compares them. The URL parser and what
`fetch` sends of a header are external. A token of a built configuration that is null
is `Unset`; an empty one is a text, and refused. `ServerLife` extends Boot with what follows
a call: the response of GitHub (`GistResponse`) and the rows of a query (`PgValues`).

### PyServe — the stdio loop of the Python port

`_serve` with the filter `_answer_undeliverable`, the stream `answers`, the task
`forward_answers`, and the SDK's session beside them, each a process that
interleaves at every await. A tool call (`CallTool`) is one step: the handlers of
this port never await. A line is a record of what the two parsers find in it. The SDK is
external, modelled from what it does for `_serve`: it drops a line it rejects, and when
its lines end, `Server.run` closes both streams it was given, the one to stdout too, and
cancels the tasks in flight. The writer of stdout (`writer`) takes one reply at a time.
A reply that is on offer when the session ends is still taken; what is queued behind it
can no longer be sent (`Receive`), and the forwarder fails. So `Answered` and
`LastLineAnswered` except a rejected request whose answer is piled up behind an earlier
one at that moment (`PiledUp`). Fairness: the event loop runs what can run and stdout is read; the
client may stop sending, or close stdin, at any point.

### ReadFile — the bounded read of read_file

One call and one file, which `write_file` may replace, and other programs may
append to, cut or overwrite, between any two awaited calls. `opened` is the file
behind the handle, `named` the one the path names; `seen` and `torn` are history
variables. A read returns any number of the bytes it asked for. The Python port
takes the same steps.

### SandboxResolve — Sandbox.resolve and what follows it

The tree is a function from a few locations to entries; `Walk` is the kernel's
path walk, with links and dots, and `realpath` a walk that on a lenient host (as
darwin's, which the comments of `sandbox.ts` describe) folds dots after a file.
Each awaited `stat`, `realpath` and `lstat` is an action, and so is the open that
follows (`Read`) and the staging of a write (`Write`). Other calls create files
between them; other programs replace any entry. `possible` is a history variable:
what POSIX says the input named, at each moment of the call. `moved` is what other
programs changed; on the hosts of `Disturbed`, and `MaxShort` bounds the inputs for which they
do. `MCSandboxResolve` gives the trees and the inputs. One root stands for the list of
roots. What a lenient host makes of dots in the target of a link the source does not
record, so `Agrees` is asked only where there are none (`LinksTold`).

### DemoLayout — the tree that capture-demo.mjs rebuilds

A run from its command line to its exit: `parseArgs`, the stages that come before,
the walk that looks for foreign entries, the removal, and the writes, one action per
system call. Other programs change entries between any two, a call fails, the run is
killed, and another starts on what is left. `destroyed`, `newcomers` and `intruded`
are history variables: what the code may not remove is what was foreign and there
when the run began; an entry that came later may go with the tree. A word of a command
line is one of `Dashed` if it starts with two dashes; `-h` does not, so
`--sandbox-root -h` takes it for its value and rebuilds a tree in `./-h`: `Harmless`
has to except it.

### SqlGuard and PgLexer — what the guard reads and what the server reads

`SqlGuard` has the scanners of `sqlGuard.ts` as recursive operators over texts of
characters; `PgLexer` is the server's lexer, written as the start conditions and
rules of scan.l and sharing nothing with the scanners but the names of characters.
A whole word counts as one letter: `S` is an allowed leading keyword, `K` a
forbidden one. `MCSqlGuard` puts texts together from chunks in five families, and
every text is judged. `U&"..."` identifiers, and which words are forbidden, are
left out. The lexer knows no grammar: a text it refuses (an open literal, a lone
`$`) runs nothing, every other text counts as if it ran.

## Runs

| run | what it shows | bounds |
|---|---|---|
| `write_race` | two overlapping writes of one file, any call failing, another program interfering: no torn read, no shared or stray temp file, modes kept | 2 calls, 1 target, 2 temp names, 3 inodes, 2 blocks: two calls are what it takes for one to see the other's temp file, rename or mode, and two blocks for a file to be torn; 1 outside step |
| `write_crash` | kill and power loss anywhere, write-back in any order; the refinement of FileStore | 1 call, a file and a directory as targets, 1 crash, calls reusing the slot until the state space closes |
| `repo_stats` | every order of the events of one call, for `repo_stats` and for any program: answers complete or telling why not, counts true of the tree, or of what was there when others change it, every call answered, no child given up on survives | cap 3 and 4 bytes per stream: chunks below, at and over the cap, on either stream; a tree two directories deep with links, also as its root, and directories that can be listed or searched only, or a root that those above hide; `max_depth` at, below and above each of its bounds, and of other types; one change by others, between any two calls of the walk |
| `guard_chunks` | every way to cut the stream | lengths 4 (no body) to 9, chunks up to 12 bytes (two short messages and a half), limit 7, totals 0, 4, 7 |
| `pg_session` | settings before SQL, answers exact and bounded, whatever fails, is late or dropped, and so what is held of a reply, but for the one chunk that is refused; every call that connects is answered, or waits for the database to close; no backend stays behind | one call of each tool, maxRows 2, cap 3, reads of 4 bytes, message limit 4, rows of 1, 4 and 5 bytes and up to 3 of them: within, at and over each bound, alone and in sum |
| `gists_exchange` | failures are told for what they are, successes are true, every request ends | 2 calls, each GET or PATCH with valid or invalid arguments, with and without a token; calls share only the upstream, so two suffice |
| `server_starts` | each server from its environment, or from a configuration, to the result of a call: numbers, roots, tokens and base URLs taken as written or refused, the two ports alike, arguments typed, a gist projected or refused, an error without its token, rows that a client can read back | one variable differs from the base environment at a time: no parser reads two; texts of up to 4 characters (`MaxText`, `MaxUrl`) out of every kind the code tells apart: a sign, a separator and two digits, or a slash, dots and what follows; limits of two or three digits, so that texts lie on both sides; configurations at each limit, one below and one above; one call, in the base environment, with any subset of the fields of its tool and two more, of any type; bodies up to three values away from GitHub's, error texts of up to 5 pieces under caps 4 and 6; a column of each of 24 types with every pair of its values, and json and enum columns in pairs, named `id` or `__proto__` |
| `py_stdio` | every awaited request is answered once and by the right party, unless the input ends first; then a rejected one is, if no other answer is ahead of it; the server exits (deadlock is checked) | sessions of up to 3 lines out of 16, closed anywhere: every kind of line before, between and after requests |
| `read_grows` | what is read is true of one moment and within the cap | cap 3, chunks of 2, files of up to 4 bytes with whole and broken characters, 3 changes: one between any two awaited calls of a short read |
| `resolve_calls` | what `resolve` accepts is what POSIX says the input names, under the root, on either kind of host and with other calls writing; nothing outside the root is touched unless another program changed the accepted path itself; a leaf swapped for a link is not followed by a write | inputs of a directory and up to 3 components of `a`, `b`, `.`, `..`, with and without a trailing separator; trees with chained, dangling, looping and outward links, one with dots in its target; `MaxWalk` is above the longest walk that ends; for inputs of up to 2 components (`MaxShort`) one entry of the tree replaced at any moment |
| `demo_runs` | what is foreign under `--sandbox-root` survives any two runs, a good run leaves exactly the layout, a killed one is taken for its own by the next, and a command line that is refused changes nothing | 2 runs, 2 changes by others, every tree over a root, a directory, two files of the layout and two foreign names; command lines of two words |
| `guard_texts` | what the guard lets through is, as the server reads it, one statement without a forbidden word, and an embedded query stays in its parentheses; plain text is let through | five families of chunks, 5 or 6 of them after a seed: long enough for an escape string, its continuation over a comment, and a word after it |

`MCAtomicWrite` declares the call slots, temp names and inodes symmetric (no
definition tells them apart) and hides, by its `View`, what a free inode last
held: `CreateTemp` empties an inode before anything refers to it, so two states
that differ only there have the same future.

Deadlock is not checked where the system ends: a bridged call that was answered
and whose processes are gone, a stream that was refused, a call of the other
modules that is over, a text that has its full length.

## Where the code does less than its comments say

- `forward_answers` (server.py:413) sends into the stream that the session of the SDK
  closes when its input ends. With one reply being written, one on offer to the writer
  and one more queued, the queued one is lost, and `_serve` raises. The comment at
  server.py:418 ("answer to the very last line is still written before shutdown") and
  test_undeliverable_request.py:74 ("the exception: #214 answers it whatever the timing")
  say that none is; with one answer outstanding, as in the tests, that is so
  (`LastLineAnswered`).
- `flagValue` (capture-demo.mjs:323) refuses values that start with two dashes, so
  `--sandbox-root -h` takes the switch for a directory, the defect that its comment
  (line 319) gives as removed. `Harmless` excepts that line.
- `withClient` (db.ts:318-320) waits for `client.end()` without a timer (`Parting`).

## Proofs

Each proofs module extends the module of its component (`SandboxProofs`,
`RepoStatsProofs` and `ServerLifeProofs` those of two), states an inductive
invariant as a conjunction of named parts, proves that `Init` implies it and that
every action keeps it (one lemma per action), and derives the properties of the
runs from it, for every value of the constants that the module's assumption allows.

| module | theorems | the invariant, and why it is needed |
|---|---|---|
| `AtomicWriteProofs` | no torn file for a reader or after a crash, no shared or stray temp file, modes kept; every step is a step of FileStore or invisible to it (`Refinement`) | `TargetsWhole` alone is not inductive: a rename publishes whatever the temp file holds. A call owns the inode behind its temp name and no name or other call shares it (`OneName`, `Owns`); `Staged` is how much of the payload it holds at each step, `Synced` that it equals its copy on disk from the fsync on, `TempMode` its mode in relation to `SeenMode`, the mode of the target |
| `RepoStatsProofs` | Bridge: complete, capped, kills explained, nothing late. Every step of the tool is a step of Bridge or leaves it alone (`Composes`), so Bridge's theorems hold with the tool around them. No answer is cut short (`WholeAnswers`), and the counts are those of a tree that nobody changes (`CountsTrue`) | `Conserved`: what was written is kept or still in the pipe while the call is pending; `Settled`: no listener and no armed timer afterwards; `Finished`: after an answer from 'close' nobody is left to write. For the counts, below |
| `PgSessionProofs` | settings in force before the user's SQL, answers true, answers bounded, and what is held of a reply too, but for at most one read of the socket in the chunk that is refused (`AnswersBounded`) | `OneReply`: what is parsed and what is on the wire are together one reply, n rows of those wanted and an end that says why there are no more (`Ends`); `Exchange`: at every moment of a call there is at most one. A chunk moves messages from one side to the other and the split is lost, so an answer follows from the whole reply only |
| `ServerLifeProofs` | GistsClient: a success is a gist and an update that was applied; a failure is named for what ended the exchange. A start: the number that is written is the one that is used (`NumbersHold`), and the two ports read one configuration (`PortsAgree`). A call: its arguments are read as given, each of its type (`ArgsTyped`), a gist is shown as it was sent or refused (`ProjectionTrue`), an error tells nothing of the token (`ErrorTextTrue`), and what is requested is what the base URL and the id say (`RequestTrue`) | `Timed`: the timer is armed exactly while the exchange runs; `Upstream`: what was applied or sent back, in relation to how far the exchange is; `Told`: what was answered stays true. `Configured`: the configuration is what the environment says, or what it was built with after the check; `Handled`, `Judged` and `Failing`: what was read, shown and told is of the call, the body and the failure that are still there |
| `PyServeProofs` | every reply once and by the right party; a rejected request is not forgotten when the server exits, unless its answer was piled up behind an earlier one at the end of the input (`LastLineAnswered`) | `Once` over both streams together, since the forwarder moves a reply from one to the other; `Parties`, `Tasks` and `Places`: who answers, and where each task is; `Remembered`: a rejected request that was read has its answer in one of the streams; `Increasing` and `Behind`: answers wait in the order of their lines, and one that is not on offer waits behind one that was written |
| `DemoLayoutProofs` | nothing of others is destroyed, a rebuilt layout is whole, a refused line changes nothing | `Searched`: while the search goes on, every foreign entry that did not come during the run is still ahead of it (in a directory to be read, or among the entries to be looked at), so none is left when the rebuild begins; `Written`: how much of the layout stands; `Asked`: what the command line says at each stage |
| `ByteGuardProofs` | no message over the limit, rows within their bound, nothing else refused | `Totalled`: the guard's count is the real one while a bound is armed |
| `SandboxProofs` | no tool leaves the root (`StaysInside`), unless others change what was accepted; what `resolve` accepts is what the input names (`TrueAnswer`); what is read is the file at one moment, within the cap (`TrueRead`, of ReadFile) | `Held`: a path has no link on its way while `resolve` looks at its leaf (`Lead`), and none at all once accepted (`Steady`), but where others put one; `RootHeld`: the root stays all directories, but for what they replace. For `TrueAnswer`, `Known`: what each of the calls so far has found out is still so in the tree as it is now (`Agreement`), since that is one of the trees with files added (`Grown`). For ReadFile, `Begins`: what was read is how the open file begins, which an append leaves true and a rename can not reach |

**The walk of `repo_stats`** (`CountsTrue`). `Visited` are the files of the tree,
to the depth asked for, that no frame of the walk's stack is still to come to, and
`Trail` says what the stack can be: the directories of a path down from the root, each
entered from the listing of the one before, in which it no longer waits. `Counted` says that the files,
their sizes and the depth are those of `Visited`, so an empty stack means the whole
tree. Sums are of sets: a set of files is weighed by a set of as many units as they
have bytes (`Units`), whose cardinality the library's theorems add up. Paths are
finite because `StatsAssumption` has `Parent` well-founded: no directory is below itself.

**The walks of `resolve`** (`StaysInside`). `Contained` says nothing before a tool
has used something, and then speaks of a second walk over a tree that may have
changed. What `resolve` knows of a path must therefore be a fact of the tree that
every change by others either keeps or leaves a trace of in `moved`: `Steady` is one.
Four lemmas tell what a walk does, for any number of steps and any tree. It ends at a
file, a directory or nowhere, also on a lenient host (`WalkEnds`); a path with no link
on it leads to itself or nowhere (`WalkStraight`), and to itself if it is all
directories (`WalkArrives`, which needs that `MaxWalk` is at least the depth of the
tree); and whatever `Advance` keeps from step to step holds at the end (`WalkKeeps`).
`lstat` in `CheckLeaf` is what makes a leaf that is no link `Steady` (`LeafSteady`), and
the check that a write's target is no directory is what keeps the root itself, whose
parent is outside, from being staged next to.

**The answer of `resolve`** (`TrueAnswer`). `possible` is a history, and the invariant
never looks back into it: what the input names *now* is in it as long as `resolve` asks,
so each answer is compared with the tree of its own step. The answer comes from the
walks of several paths, and lemmas about `Steps` bring them together. Two walks of one
path, over trees of which one has grown, are at the same place until one of them comes
to a new file (`GrownWalk`): a directory is never gained or lost. A walk that arrives
without folding arrives with it (`LenientWalk`), and a path without dots is walked the
same on both hosts (`PlainWalk`). A path is walked as the part before its last name,
and then on (`Extend`, `Through`), so an input that leads somewhere has a parent that is
a directory (`InputWalk`), and what it leads to is the entry its parent holds
(`LeafFacts`). There the walk by the input and the walk by the resolved entry differ in
length, and `MaxWalk` has to be enough for both: `Settled`, from `WalksAssumption`, for
the tree of the call, and with `GrownWalk` for what became of it (`Settle`).

**Texts of any length** (`NumbersHold`, `PortsAgree`). An environment holds sequences of
characters, and four lemmas carry the two theorems. What is left of a text begins and
ends with characters that are kept (`TrimmedCases`), so white space that only one
language knows never stands beside a number that another reads (`PlainTrim`): it makes
the text no number at all. A number that comes first counts no less later
(`ReadingGrows`), so digits after the zeros more than `MAX_SAFE_INTEGER_DIGITS` are past
`MAX_SAFE_INTEGER` (`Longer`), and the length check of the Python port refuses what
`BigInt` finds too large (`ParsersAgree`). And github-gists checks the base URL before it cuts
a slash off its end: the host is the same after it (`SlashCut`), so the check that
each client repeats accepts what the start has accepted.

**The text of an error** (`ErrorTextTrue`). An upstream text is made of whole characters
and whole tokens (`TextsWhole`); what redacting leaves has no part of a token and no half
of a character (`TokensRedacted`); a cut adds none (`CutSayable`); and the second pass, in
the constructor, changes nothing of what was cut before (`AsItIs`), since its cap is
larger by the prefix and the mark (`CapsAssumption`). Had a text been cut first, the part
of a token at its end would be no token that the second pass finds.

**What is requested** (`RequestTrue`). The base URL and the endpoint are one text: nothing in
it is trimmed or ends it early (`TextIs`), and the path that the URL parser finds in it is
the one a reader sees, without a backslash (`PathIs`). A segment is what lies from one cut
to the next, and all that does is one (`SegmentsAre`; that the k-th cut has k - 1 before it
is a pigeonhole, `Ranks`). So a segment of the whole path is `gists`, the encoded id, or a
segment that `assertBaseUrlJoinsCleanly` has seen, also where the check began at an earlier
slash, and none of them is a dot segment (`NoDots`): the parser has nothing to resolve
(`NothingResolved`).

**Induction over data.** The library's induction theorems can not be used, but that a
set of naturals has a least element can be proved from `WFMin`, and an induction is then
a set that has no least counterexample (`UpToInduction`). So `PgSessionProofs` knows
what `Sum` computes, `SandboxProofs` where a walk ends, and `DemoLayoutProofs` what
`parseArgs` makes of a line of any length: `SwitchesFound` says that no switch is passed
over.

**Assumptions on the constants.** Bounds are naturals, and limits positive where the
code validates them; `None` is none of the values it stands beside (`NoneAssumption`); a
variable of an environment holds a text or nothing, every default is a number its server
takes, a configuration has the fields of its type, and filesystem-sandbox is not built
with one (`StartsAssumption`); `Lines` are lines of the kinds the two parsers tell
apart; a tree's `Parent` leads to the root (`StatsAssumption`), and in DemoLayout every
directory of the layout is in the root and holds a file of the layout, as the entries of
`SANDBOX_FILES` do (`LayoutAssumption`); in SandboxResolve every entry of a tree is in a
directory, and no name is a dot (`TreesAssumption`). `MaxWalk` is enough: a walk that
has not ended by then does not end in twice as many steps (`WalksAssumption`); it stands
for the kernel's limit, which counts links and not names. TLC evaluates each of them in
the runs. What `TrueAnswer` does not tell is in its property, not in an assumption: on a
host whose `realpath` folds dots, `Agrees` is asked only while no link holds any
(`LinksTold`). The comments of `sandbox.ts` and its parity test record what darwin makes
of dots in an input, not in a link; if it folded those as well, a leaf that is a link to
`f.txt/../x` would be accepted as `x`, which `stat` refuses. `StaysInside` holds there too.

Only model-checked: the liveness properties (`Answered`, `Replied`, `ChildDies`,
`BackendFreed`), which need fairness; `CountsLived`, which speaks of every tree there was
during the walk; `PayloadTrue` of `ServerLife`, which compares
every two values of a column by the texts they become, put together with folds of the
libraries; and `SqlGuard`, whose scanners are RECURSIVE operators over their input.

## Plan

1. A composition of PgSession with ByteGuard's promise as an abstract guard.
2. An abstract request/answer specification that PyServe implements.
3. `U&"..."` identifiers in SqlGuard.

## Not modelled

- `list_directory` is one `readdir` and a sort, and the lines of `describe_schema` are
  formatting; diagnostic headers of github-gists only end up in a text.
- `atomic_write.py` and `sandbox.py` are ports of the modelled TypeScript and are not
  mapped of their own.
- The words and function families of the SQL guard are lists: one forbidden word
  stands for them.
- `tools/check-*.mjs` and the workflows read files and exit. They keep no state, have
  no order of events, and decide nothing a server does.
- The lower bounds of an array, and null inside `json` beside NULL, have no form in
  the JSON a client gets: PayloadTrue leaves them out.
- A composition of two servers: they share no code and no state, and meet only in the
  file system, where the other programs of AtomicWrite, ReadFile and SandboxResolve
  stand for them.
