---------------------------- MODULE MCFileWatcher ----------------------------
(* Model-checking instance of FileWatcher: two configured files in one      *)
(* directory (so one may be missing and fall back to the directory watch)   *)
(* and one sibling path that the directory watch also reports.              *)
EXTENDS FileWatcher

CONSTANTS f1, f2, o1, d1

MCFiles == {f1, f2}
MCSiblings == {o1}
=============================================================================
