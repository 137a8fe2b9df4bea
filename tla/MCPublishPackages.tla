--------------------------- MODULE MCPublishPackages ---------------------------
(* Three packages in the order of their names, the first and the last of them
   deprecated. *)
EXTENDS PublishPackages

CONSTANTS p1, p2, p3

MCBefore == {<<p1, p2>>, <<p1, p3>>, <<p2, p3>>}
================================================================================
