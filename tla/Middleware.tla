----------------------------- MODULE Middleware -----------------------------
(***************************************************************************)
(* middleware/src: the FastAPI application in front of the inference       *)
(* server.  The event loop runs the handlers; a database call is handed to *)
(* a thread of a pool of Workers threads (asyncio.to_thread), which holds  *)
(* db_lock while its connection is open.                                   *)
(*                                                                         *)
(* The database is the set of tables, sequences and views it has.  DuckDB  *)
(* is external: a statement commits by itself, and one that names an       *)
(* object that does not exist raises, CREATE VIEW included.                *)
(***************************************************************************)
EXTENDS Naturals, Sequences, FiniteSets

CONSTANTS Requests,
          Kind,              \* [Requests -> {"errors", "usage", "infer"}]
          Workers,           \* threads of the default executor
          Databases          \* what the file may hold before the first start

Nothing == "none"

ASSUME MiddlewareAssumption ==
    /\ Nothing \notin Requests
    /\ Kind \in [Requests -> {"errors", "usage", "infer"}]
    /\ Workers \in Nat \ {0}

VARIABLES db,                \* objects in the database file
          phase,             \* "down", "starting", "serving"
          stmt,              \* the statement of init_db executed next
          pc,                \* where a request is
          lock,              \* the request whose thread holds db_lock
          result,            \* what the awaited call gave its handler
          answer             \* what the client got

appVars == <<db, phase, stmt, pc, lock, result, answer>>

AppTypeOK ==
    /\ phase \in {"down", "starting", "serving"}
    /\ pc \in [Requests -> {"idle", "queued", "thread", "query", "vllm", "resume", "answered"}]
    /\ lock \in Requests \cup {Nothing}
    /\ result \in [Requests -> {Nothing, "raised", "empty", "rows", "ok", "unreachable", "status"}]
    /\ answer \in [Requests -> {Nothing, "500", "UsageResponse", "ErrorsResponse",
                                "200 result", "200 error"}]

AppInit ==
    /\ db \in Databases
    /\ phase = "down" /\ stmt = 1
    /\ pc = [r \in Requests |-> "idle"]
    /\ lock = Nothing
    /\ result = [r \in Requests |-> Nothing]
    /\ answer = [r \in Requests |-> Nothing]

-----------------------------------------------------------------------------
(* Start-up.                                                               *)

\* The statements of init_db: what each creates and what it refers to.
InitDb ==
    << [creates |-> "projects",             needs |-> {}],
       [creates |-> "seq_access_logs_id",   needs |-> {}],
       [creates |-> "access_logs",          needs |-> {"projects", "seq_access_logs_id"}],
       [creates |-> "recent_erro_log_view", needs |-> {"erro_log"}],
       [creates |-> "seq_erro_log_id",      needs |-> {}],
       [creates |-> "erro_log",             needs |-> {"projects", "seq_erro_log_id"}] >>

Start ==
    /\ phase = "down"
    /\ phase' = "starting" /\ stmt' = 1
    /\ UNCHANGED <<db, pc, lock, result, answer>>

\* duckdb.connect or a statement that raises ends lifespan, and the process with it.
InitStatement ==
    /\ phase = "starting" /\ stmt <= Len(InitDb)
    /\ \/ /\ InitDb[stmt].needs \subseteq db
          /\ db' = db \cup {InitDb[stmt].creates} /\ stmt' = stmt + 1 /\ UNCHANGED phase
       \/ phase' = "down" /\ UNCHANGED <<db, stmt>>
    /\ UNCHANGED <<pc, lock, result, answer>>

Serve ==
    /\ phase = "starting" /\ stmt > Len(InitDb)
    /\ phase' = "serving"
    /\ UNCHANGED <<db, stmt, pc, lock, result, answer>>

-----------------------------------------------------------------------------
(* Requests.                                                               *)

\* The route's handler up to its first await.
Receive(r) ==
    /\ phase = "serving" /\ pc[r] = "idle"
    /\ pc' = [pc EXCEPT ![r] = IF Kind[r] = "infer" THEN "vllm" ELSE "queued"]
    /\ UNCHANGED <<db, phase, stmt, lock, result, answer>>

\* to_thread: a thread of the pool takes the call.
Busy == {r \in Requests : pc[r] \in {"thread", "query"}}
Dispatch(r) ==
    /\ pc[r] = "queued" /\ Cardinality(Busy) < Workers
    /\ pc' = [pc EXCEPT ![r] = "thread"]
    /\ UNCHANGED <<db, phase, stmt, lock, result, answer>>

Mut_Acquire(r) ==
    /\ pc[r] = "thread"
    /\ lock' = r
    /\ pc' = [pc EXCEPT ![r] = "query"]
    /\ UNCHANGED <<db, phase, stmt, result, answer>>

\* with db_lock, with duckdb.connect.
Acquire(r) ==
    /\ pc[r] = "thread" /\ lock = Nothing
    /\ lock' = r
    /\ pc' = [pc EXCEPT ![r] = "query"]
    /\ UNCHANGED <<db, phase, stmt, result, answer>>

View(r) == IF Kind[r] = "errors" THEN "recent_erro_log_view" ELSE "tokens_usage_view"

Mut_RunQuery(r) ==
    /\ pc[r] = "query"
    /\ \E res \in {"raised"} \cup (IF View(r) \in db THEN {"empty", "rows"} ELSE {}) :
          /\ result' = [result EXCEPT ![r] = res]
          /\ lock' = IF res = "raised" THEN lock ELSE Nothing
    /\ pc' = [pc EXCEPT ![r] = "resume"]
    /\ UNCHANGED <<db, phase, stmt, answer>>

\* duckdb.connect and the query may raise, and a query of a view that is not there
\* does; in any case the connection is closed and the lock released.
RunQuery(r) ==
    /\ pc[r] = "query"
    /\ result' \in {[result EXCEPT ![r] = res] :
                        res \in {"raised"} \cup (IF View(r) \in db THEN {"empty", "rows"} ELSE {})}
    /\ lock' = Nothing
    /\ pc' = [pc EXCEPT ![r] = "resume"]
    /\ UNCHANGED <<db, phase, stmt, answer>>

\* client.post ends in one of four ways; its timeout of 60 seconds bounds the wait
\* for the connection and for each part of the answer.
VllmAnswers(r) ==
    /\ pc[r] = "vllm"
    /\ result' \in {[result EXCEPT ![r] = res] : res \in {"ok", "unreachable", "status", "raised"}}
    /\ pc' = [pc EXCEPT ![r] = "resume"]
    /\ UNCHANGED <<db, phase, stmt, lock, answer>>

\* What the handler's return value becomes.  async_get_last_error_logs returns
\* None whatever its thread returned, which ErrorsResponse refuses; a row is a
\* tuple, which UsageLog refuses; the pair of a body and a code that infer
\* returns is serialised as a list, with code 200.
AnswerOf(kind, res) ==
    CASE kind = "errors" -> "500"
      [] kind = "usage" -> IF res = "empty" THEN "UsageResponse" ELSE "500"
      [] kind = "infer" -> IF res = "ok" THEN "200 result" ELSE "200 error"

Respond(r) ==
    /\ pc[r] = "resume"
    /\ answer' = [answer EXCEPT ![r] = AnswerOf(Kind[r], result[r])]
    /\ pc' = [pc EXCEPT ![r] = "answered"]
    /\ UNCHANGED <<db, phase, stmt, lock, result>>

Step(r) == \/ Dispatch(r) \/ Acquire(r) \/ RunQuery(r) \/ VllmAnswers(r) \/ Respond(r)

AppNext ==
    \/ Start \/ InitStatement \/ Serve
    \/ \E r \in Requests : Receive(r) \/ Step(r)

\* Whoever runs the service restarts it, the event loop and the threads run.
Fairness ==
    /\ WF_appVars(Start \/ InitStatement \/ Serve)
    /\ \A r \in Requests : WF_appVars(Step(r))

AppSpec == AppInit /\ [][AppNext]_appVars /\ Fairness

-----------------------------------------------------------------------------
(* Properties.                                                             *)

\* A thread holds db_lock exactly while its connection is open, so that two
\* queries never overlap and an exception in a query leaves the lock free.
LockExact == \A r \in Requests : (lock = r) <=> (pc[r] = "query")

\* Every request received is answered, also when queries raise, when more
\* requests wait than the pool has threads, and when the server is unreachable.
EveryRequestAnswered ==
    \A r \in Requests : (pc[r] # "idle") ~> (pc[r] = "answered")
=============================================================================
