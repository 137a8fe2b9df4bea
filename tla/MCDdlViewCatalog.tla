--------------------------- MODULE MCDdlViewCatalog ----------------------------
(* Every set of references among three views (512), every set of tables and of
   CTE names of a query.  Two of the views belong to different schemas and have
   the same unqualified name.                                                *)
EXTENDS DdlViewCatalog

CONSTANTS v1, v2, v3, n1, n2

TwoShareAName == [v \in Views |-> IF v = v3 THEN n2 ELSE n1]
================================================================================
