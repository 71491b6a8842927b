-------------------------- MODULE MCEmbeddedServer --------------------------
(* Model-checking instance of EmbeddedServer: two application goroutines,  *)
(* the watcher callback, two observers and one health HTTP request.        *)
EXTENDS EmbeddedServer

CONSTANTS c1, c2, o1, o2, r1

MCCallers == {c1, c2}
MCObservers == {o1, o2}
MCRequests == {r1}
=============================================================================
