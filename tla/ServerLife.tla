------------------------------- MODULE ServerLife -------------------------------
(***************************************************************************)
(* A server from its start to the result of a call: Boot for all of them,  *)
(* for github-gists what it makes of the response (GistResponse), and for  *)
(* postgres-readonly what it makes of the rows (PgValues).                 *)
(***************************************************************************)
EXTENDS Boot

CONSTANTS SurfaceCap, ERROR_TEXT_BACKSTOP_UNITS, MaxPieces, Results

\* A text of the surface gets a mark where it was cut and one prefix at most.
ASSUME CapsAssumption ==
  /\ SurfaceCap \in Nat \ {0} /\ MaxPieces \in Nat
  /\ ERROR_TEXT_BACKSTOP_UNITS \in Nat /\ ERROR_TEXT_BACKSTOP_UNITS >= SurfaceCap + 2

VARIABLES body, failure, result, fields, sent, rows, payload

gistVars == <<body, failure, result>>
pgVars   == <<fields, sent, rows, payload>>

Response == INSTANCE GistResponse
Pg       == INSTANCE PgValues

LifeInit == BootInit /\ body = Response!Github /\ failure = Response!None /\ result = Response!Nothing /\ Pg!ValuesInit

\* The handler has checked the arguments of a get_gist and asks GitHub.
Asked == server = "github-gists" /\ call.tool = "get_gist" /\ read # Nil

\* GitHub answers with some body, or the exchange fails.
Receive ==
  /\ Asked /\ body = Response!Github /\ failure = Response!None /\ result = Response!Nothing
  /\ \/ body' \in Response!Bodies /\ failure' = failure
     \/ failure' \in Response!Failures /\ body' = body
  /\ UNCHANGED <<bootVars, pgVars, result>>

Respond == Asked /\ Response!Next /\ UNCHANGED <<bootVars, pgVars>>

\* A call of postgres-readonly that has its rows, and answers with them.  Bound:
\* the optional arguments are left out.
Query ==
  /\ server = "postgres-readonly" /\ read # Nil
  /\ DOMAIN call.args.value \in {{"sql"}, {"table"}}
  /\ Pg!Fetch(call.tool) \/ Pg!LookUp \/ Pg!Answer(call.tool)
  /\ UNCHANGED <<bootVars, gistVars>>

LifeNext == (BootNext /\ UNCHANGED <<gistVars, pgVars>>) \/ Receive \/ Respond \/ Query

LifeSpec == LifeInit /\ [][LifeNext]_<<bootVars, gistVars, pgVars>>

--------------------------------------------------------------------------------
(* Properties: those of Boot, and of the two modules it instantiates.      *)

\* What github-gists refuses of a response, and how it projects the rest: nothing
\* that GitHub sends is refused, no value is coerced (GistResponse.tla).
ProjectionTrue == Response!ProjectionTrue

\* What an error of github-gists tells, without the token (GistResponse.tla).
ErrorTextTrue == Response!ErrorTextTrue

\* A client can tell from a postgres-readonly answer what the database holds
\* (PgValues.tla).
PayloadTrue == Pg!PayloadTrue
================================================================================
