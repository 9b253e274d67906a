------------------------------ MODULE MCErrLog ------------------------------
(* Two threads, one handle, two places that log. *)
EXTENDS ErrLog

BothBuilds == {"threads", "plain"}
PlainBuild == {"plain"}
ThreadsBuild == {"threads"}
NoBuild == {}
Codes == {5}
=============================================================================
