-------------------------- MODULE MCConnectionProvider -------------------------
(* Instances of ConnectionProvider: independent calls on a small pool, and two
   callbacks that each make an inner call, one of which makes another, on a
   pool of two connections.                                                  *)
EXTENDS ConnectionProvider

CONSTANTS t1, t2, t3, w1, w2, k1, k2

Flat == [c \in Calls |-> NoCall]
Nested == [c \in Calls |-> CASE c = t2 -> t1
                             [] c = t3 -> w1
                         [] c = w2 -> t2
                             [] OTHER -> NoCall]

\* Neither the factory nor the disposer rejects, and ROLLBACK works.
StatementFaults == {"begin", "callback", "nothing", "commit"}
================================================================================
