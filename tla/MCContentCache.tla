--------------------------- MODULE MCContentCache ---------------------------
(***************************************************************************)
(* TLC instance of ContentCache: more URLs than fit, threads that race for *)
(* the same URL or for the same file, and two responses, so that two       *)
(* routes may or may not share the file they are written to.               *)
(***************************************************************************)
EXTENDS ContentCache

MCResponse == {[status |-> 200, html |-> TRUE, len |-> 1],
               [status |-> 200, html |-> FALSE, len |-> 2]}
=============================================================================
