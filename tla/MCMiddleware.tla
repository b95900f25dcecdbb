---------------------------- MODULE MCMiddleware ----------------------------
(* Small instances of Middleware.                                          *)
EXTENDS Middleware, TLC

CONSTANTS e1, e2, u1, i1

MCRequests == {e1, e2, u1, i1}
MCKind == e1 :> "errors" @@ e2 :> "errors" @@ u1 :> "usage" @@ i1 :> "infer"

\* A new file, one that already has the table of errors, and one to which the
\* view of the usage query was added as well; no code creates that view.
Fresh == {}
WithErrors == {"projects", "seq_erro_log_id", "erro_log"}
WithUsage == WithErrors \cup {"tokens_usage_view"}
AnyDatabase == {Fresh, WithErrors, WithUsage}
=============================================================================
