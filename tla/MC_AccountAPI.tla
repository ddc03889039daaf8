--------------------------- MODULE MC_AccountAPI ---------------------------
(* Instances of AccountAPI for TLC: requests of one client served by two *)
(* goroutines at once, beside a request of another client.                *)
EXTENDS AccountAPI

CONSTANTS a1, a2, c1, c2, c3

\* c1 and c2 serve requests of a1 concurrently, c3 serves a2: the HTTP
\* server runs each request on its own goroutine, whatever its account
RequesterMixed == [c \in Callers |-> IF c = c3 THEN a2 ELSE a1]

\* two callers, both serving a1: one client sends two unblock requests at once
RequesterSame == [c \in Callers |-> a1]

====
