----------------------------- MODULE MCHotReload -----------------------------
(* Model-checking instance of HotReload: one application goroutine, one    *)
(* observer, one schema file beside one sibling in its directory.          *)
EXTENDS HotReload

CONSTANTS c1, o1, f1, s1, d1

MCCallers == {c1}
MCObservers == {o1}
MCFiles == {f1}
MCSiblings == {s1}
=============================================================================
