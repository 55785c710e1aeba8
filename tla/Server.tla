------------------------------- MODULE Server -------------------------------
(***************************************************************************)
(* What the handlers of all webhook events share: requests served by       *)
(* goroutines of their own, each answered once (gin), and the pool of      *)
(* database connections they draw from (cmd/pool.go).                      *)
(***************************************************************************)
EXTENDS Integers, FiniteSets

CONSTANTS
    Request,        \* the deliveries: one HTTP request each, redeliveries too
    MaxConns        \* capacity of the connection pool

ASSUME ServerAssumption == MaxConns \in Nat \ {0}

VARIABLES
    pc,         \* where each request is in its handler
    ev,         \* the payload it carries
    resp,       \* the HTTP status it was answered with, 0 before
    conn        \* the requests that hold a pooled database connection

Goto(r, label) == pc' = [pc EXCEPT ![r] = label]

Answer(r, status) ==
    /\ Goto(r, "done")
    /\ resp' = [resp EXCEPT ![r] = status]

Over(r) == pc[r] \in {"done", "crashed"}
Serving(r) == pc[r] # "idle" /\ ~Over(r)

PoolHasRoom == Cardinality(conn) < MaxConns

\* The process dies: what is being served is never answered.
ServerDies ==
    /\ \E r \in Request : Serving(r)
    /\ pc' = [r \in Request |-> IF Serving(r) THEN "crashed" ELSE pc[r]]
    /\ conn' = {}
    /\ UNCHANGED <<ev, resp>>
=============================================================================
