----------------------------- MODULE MCMainLoop -----------------------------
(* The numbers of retries of the runs of MainLoop. *)
EXTENDS MainLoop

SomeRetries == {-1, 0, 1, 3}
=============================================================================
