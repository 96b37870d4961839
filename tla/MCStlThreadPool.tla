--------------------------- MODULE MCStlThreadPool ---------------------------
(* Instances of StlThreadPool for TLC.                                       *)
EXTENDS StlThreadPool
=============================================================================
