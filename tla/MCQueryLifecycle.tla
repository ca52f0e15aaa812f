--------------------------- MODULE MCQueryLifecycle ---------------------------
(* TLC instances of QueryLifecycle.                                        *)
EXTENDS QueryLifecycle

CONSTANTS c1, k1, k2, q1, q2, q3, q4

(* All queries over k1, or q2 over a connection of its own.                *)
OneConn == [q \in Queries |-> k1]
OwnConn == [q \in Queries |-> IF q = q2 THEN k2 ELSE k1]
=============================================================================
