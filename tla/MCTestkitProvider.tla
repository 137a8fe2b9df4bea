--------------------------- MODULE MCTestkitProvider ---------------------------
(* Instances of TestkitProvider: shared scenarios, a perTest one and two calls of
   close, in every order; and callbacks that call the provider again.         *)
EXTENDS TestkitProvider

CONSTANTS s1, s2, s3, s4, t1, k1, k2

Flat   == [p \in Procs |-> NoCall]
\* s1's callback opens a perTest scenario t1, and t1's callback calls s2 and
\* close (k1): the calls that can wait for their own ancestor.
Nested == [p \in Procs |-> CASE p = t1 -> s1
                             [] p \in {s2, k1} -> t1
                             [] OTHER -> NoCall]

AllFaults == Hooks
================================================================================
