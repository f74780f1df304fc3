------------------------------ MODULE ServerLife ------------------------------
(***************************************************************************)
(* The life of the server process (server/main.py): it reads its           *)
(* environment, opens the pool of database connections, files the row of   *)
(* the bot, serves, and on a signal stops listening, closes the group      *)
(* calls, lets the handlers end or cuts them off, and closes the pool.  It *)
(* may be killed at any moment; tokens and what the tracker has seen are   *)
(* in memory only.                                                         *)
(*                                                                         *)
(* A request is the statements it still has to make, one connection of the *)
(* pool for each: those of a login, or the look for its session when the   *)
(* memory does not have it, the work of a handler and the note of when the *)
(* session was last active.                                                *)
(***************************************************************************)
EXTENDS Naturals, Sequences, FiniteSets, FiniteSetsExt, Functions, TLC

CONSTANTS Visitors,     \* requests under way at once
          Holders,      \* users, each with one session
          PoolMax,      \* DB_POOL_MAX
          MaxVisits,    \* requests (bound)
          MaxStarts     \* starts of the process (bound)

ASSUME ServerAssumption == PoolMax \in Nat \ {0}

VARIABLES
    setting,    \* what the environment says
    phase,      \* of the process
    database,   \* "up" or "down"
    pool,       \* app["db_pool"]: "none" or "open"
    lent,       \* connections that a request holds
    visit,      \* the request of each visitor
    signedIn,   \* users whose session app["session_store"] has
    filed,      \* users whose session has an open row in user_sessions
    botRow,     \* is there a user 1
    seen,       \* ActivityTracker: users noted less than throttle_seconds ago
    visits, starts

serverVars == <<setting, phase, database, pool, lent, visit, signedIn, filed, botRow, seen,
                visits, starts>>
memory == <<signedIn, filed, botRow, seen>>
counters == <<visits, starts>>

NoVisit == [at |-> "none"]
NobodyVisits == [v \in Visitors |-> NoVisit]
NothingLent == [v \in Visitors |-> 0]

-----------------------------------------------------------------------------
(* Starts and stops.                                                       *)

\* What load_env_files may find, of what the start depends on.
Environments == [production : BOOLEAN, password : BOOLEAN, mail : BOOLEAN, domain : BOOLEAN,
                 bot : BOOLEAN, anthropic : BOOLEAN, openai : BOOLEAN, db : BOOLEAN]

\* The problems of each category, and what validate() raises for them.
DBConfig(e) == e.password
BotConfig(e) == e.bot => e.anthropic \/ e.openai
TLSConfig(e) == e.mail /\ e.domain
Validate(e) == e.production => DBConfig(e) /\ BotConfig(e) /\ TLSConfig(e)

\* Config.from_env, and the key of the model that is asked for later.
FromEnv(e) == [complete |-> Validate(e), bot |-> e.bot, model |-> e.openai, db |-> e.db]

\* A bot that is enabled answers with one model only, and its key has to be there.
HasModel(s) == s.bot => s.model

\* create_pool connects at once.
CreatePool == database = "up" /\ phase' = "filing" /\ pool' = "open"

\* build_app: what raises ends the process, before anything was opened.
BuildApp ==
    /\ phase = "down" /\ starts < MaxStarts
    /\ starts' = starts + 1
    /\ LET starts_up == setting.complete /\ HasModel(setting) IN
         \/ starts_up /\ setting.db /\ CreatePool
         \/ starts_up /\ ~setting.db /\ phase' = "serving" /\ UNCHANGED pool
         \/ (starts_up => setting.db /\ database = "down") /\ UNCHANGED <<phase, pool>>
    /\ UNCHANGED <<setting, database, lent, visit, memory, visits>>

\* INSERT IGNORE of user 1.
InsertBotUser == botRow' = (database = "up" \/ botRow)

\* A failure is logged, and the server goes on without the row.
EnsureBotUser ==
    /\ phase = "filing"
    /\ InsertBotUser \/ UNCHANGED botRow
    /\ phase' = "serving"
    /\ UNCHANGED <<setting, database, pool, lent, visit, signedIn, filed, seen, counters>>

\* SIGINT or SIGTERM: the site is closed.
RequestStop ==
    /\ phase = "serving"
    /\ phase' = "stopping"
    /\ UNCHANGED <<setting, database, pool, lent, visit, memory, counters>>

\* on_shutdown, while handlers run.
CloseSfuRegistry ==
    /\ phase = "stopping"
    /\ phase' = "draining"
    /\ UNCHANGED <<setting, database, pool, lent, visit, memory, counters>>

\* The runner waits for the handlers, and cancels those that take too long: a
\* cancelled handler gives its connection back.
Drained ==
    /\ phase = "draining"
    /\ phase' = "cleaning" /\ visit' = NobodyVisits /\ lent' = NothingLent
    /\ UNCHANGED <<setting, database, pool, memory, counters>>

Forgotten ==
    /\ phase' = "down" /\ pool' = "none" /\ visit' = NobodyVisits /\ lent' = NothingLent
    /\ signedIn' = {} /\ seen' = {}
    /\ UNCHANGED <<setting, database, filed, botRow, counters>>

\* on_cleanup: the rooms are told, the pool is closed when all has come back.
CleanUp == phase = "cleaning" /\ lent = NothingLent /\ Forgotten

Killed == phase # "down" /\ Forgotten

DatabaseTurns ==
    /\ database' = IF database = "up" THEN "down" ELSE "up"
    /\ UNCHANGED <<setting, phase, pool, lent, visit, memory, counters>>

ThrottlePasses(u) ==
    /\ u \in seen /\ seen' = seen \ {u}
    /\ UNCHANGED <<setting, phase, database, pool, lent, visit, signedIn, filed, botRow, counters>>

-----------------------------------------------------------------------------
(* Requests.                                                               *)

\* handle_login, or auth_middleware before another handler.
Statements(op, u) ==
    CASE op = "login" -> <<"account", "last login", "session row", "login time", "audit">>
      [] op = "work" /\ u \in signedIn -> <<"rows">>
      [] op = "work" /\ u \notin signedIn -> <<"lookup", "rows">>

\* /healthz and /readyz ask for no connection, and without a pool there is
\* nothing but an error for the others.
ArriveAtServer(v, op, u) ==
    /\ phase = "serving" /\ visit[v] = NoVisit /\ visits < MaxVisits
    /\ visits' = visits + 1
    /\ visit' = IF op = "probe" \/ pool = "none" THEN visit
                ELSE [visit EXCEPT ![v] = [at |-> "waiting", user |-> u, tries |-> 0,
                                           todo |-> Statements(op, u)]]
    /\ UNCHANGED <<setting, phase, database, pool, lent, memory, starts>>

\* pool.acquire: of PoolMax connections.
AcquireConnection(v) ==
    /\ visit[v].at = "waiting" /\ pool = "open"
    /\ FoldFunction(+, 0, lent) < PoolMax
    /\ lent' = [lent EXCEPT ![v] = @ + 1]
    /\ visit' = [visit EXCEPT ![v].at = "using"]
    /\ UNCHANGED <<setting, phase, database, pool, memory, counters>>

\* Mutant of Releases: the time of the login is noted within the transaction of the session.
ReleasesLater(v) ==
    lent' = IF Head(visit[v].todo) = "session row" THEN lent ELSE [lent EXCEPT ![v] = 0]

\* The end of `async with pool.acquire()': every transaction has one of its own.
Releases(v) == lent' = [lent EXCEPT ![v] = 0]

GoesOn(v, todo) ==
    visit' = [visit EXCEPT ![v] = IF todo = <<>> THEN NoVisit
                                  ELSE [@ EXCEPT !.at = "waiting", !.todo = todo]]

\* ActivityTracker.should_update counts the note as made before it is.
ShouldUpdate(u) == u \notin seen /\ seen' = seen \cup {u}

\* activity_middleware, after a handler that answered.
NoteActivity(v) ==
    \/ ShouldUpdate(visit[v].user) /\ GoesOn(v, <<"last active">>)
    \/ visit[v].user \in seen /\ GoesOn(v, <<>>) /\ UNCHANGED seen

StatementSucceeds(v) ==
    /\ visit[v].at = "using" /\ database = "up"
    /\ LET u == visit[v].user
           statement == Head(visit[v].todo)
       IN /\ signedIn' = IF statement = "last login" \/ (statement = "lookup" /\ u \in filed)
                         THEN signedIn \cup {u} ELSE signedIn
          /\ filed' = IF statement = "session row" THEN filed \cup {u} ELSE filed
          /\ IF statement = "rows" THEN NoteActivity(v)
             ELSE /\ GoesOn(v, IF statement = "lookup" /\ u \notin filed THEN <<>> ELSE Tail(visit[v].todo))
                  /\ UNCHANGED seen
    /\ Releases(v)
    /\ UNCHANGED <<setting, phase, database, pool, botRow, counters>>

\* What follows a statement that failed: the row of a session is tried three
\* times when it met a deadlock and given up otherwise, a row for statistics is
\* gone without; any other failure is the answer - with or without a note of it,
\* as the handler caught it or not.
StatementBreaks(v) ==
    /\ visit[v].at = "using" \/ (visit[v].at = "waiting" /\ database = "down")
    /\ LET statement == Head(visit[v].todo)
       IN \/ /\ statement = "session row" /\ visit[v].tries < 2
             /\ visit' = [visit EXCEPT ![v].at = "waiting", ![v].tries = @ + 1]
             /\ UNCHANGED seen
          \/ statement = "session row" /\ GoesOn(v, <<"audit">>) /\ UNCHANGED seen
          \/ statement = "login time" /\ GoesOn(v, <<"audit">>) /\ UNCHANGED seen
          \/ statement = "rows" /\ NoteActivity(v)
          \/ statement \notin {"session row", "login time"} /\ GoesOn(v, <<>>) /\ UNCHANGED seen
    /\ Releases(v)
    /\ UNCHANGED <<setting, phase, database, pool, signedIn, filed, botRow, counters>>

RequestStep == \E v \in Visitors : AcquireConnection(v) \/ StatementSucceeds(v) \/ StatementBreaks(v)

-----------------------------------------------------------------------------
ServerInit ==
    /\ setting \in {FromEnv(e) : e \in Environments}
    /\ phase = "down" /\ database = "up" /\ pool = "none"
    /\ visit = NobodyVisits /\ lent = NothingLent
    /\ signedIn = {} /\ filed \in SUBSET Holders /\ botRow \in BOOLEAN /\ seen = {}
    /\ visits = 0 /\ starts = 0

ServerNext ==
    \/ BuildApp \/ EnsureBotUser \/ RequestStop \/ CloseSfuRegistry \/ Drained \/ CleanUp \/ Killed
    \/ DatabaseTurns
    \/ \E u \in Holders : ThrottlePasses(u)
    \/ \E v \in Visitors, op \in {"probe", "login", "work"}, u \in Holders : ArriveAtServer(v, op, u)
    \/ RequestStep

\* A statement ends, well or badly, and a connection that is free is given to
\* one of those who wait.
ServerFairness == WF_serverVars(RequestStep)

ServerSpec == ServerInit /\ [][ServerNext]_serverVars /\ ServerFairness

-----------------------------------------------------------------------------
(* Properties.                                                             *)

\* What _serve runs through, and the process before and after it.
Phases == {"down", "filing", "serving", "stopping", "draining", "cleaning"}

\* Type invariant.  Every connection that is lent is one of the pool, and none is
\* when there is no pool.
ServerTypeOK ==
    /\ phase \in Phases /\ pool \in {"none", "open"} /\ database \in {"up", "down"}
    /\ lent \in [Visitors -> 0..1] /\ FoldFunction(+, 0, lent) <= PoolMax
    /\ pool = "none" => lent = NothingLent
    /\ {signedIn, filed, seen} \subseteq SUBSET Holders

\* Whoever waits for a connection gets one or is told of a failure, with the pool
\* at its limit, the database away and the server on its way down: nobody waits
\* for a second one with the first in hand, and the pool is not closed while
\* handlers run (create_session, log_activity, _on_cleanup).
IsServed(v) == visit[v].at = "waiting" ~> visit[v].at # "waiting"
WaitersAreServed == \A v \in Visitors : IsServed(v)

===============================================================================
