--------------------------- MODULE MCPgTestkitClient ---------------------------
(* An instance of PgTestkitClient: queries and closes in every order, called on
   any clients of one family.                                                *)
EXTENDS PgTestkitClient
================================================================================
