------------------------- MODULE MC_IncrementalIndex -------------------------
(***************************************************************************)
(* IncrementalIndex for TLC: lib defines F and app calls it; each file may *)
(* take the content of the other.                                          *)
(***************************************************************************)
EXTENDS IncrementalIndex

CONSTANTS lib, app, F

MCDir(f) == "dir"
Lib == [defs |-> {F}, calls |-> {}]
App == [defs |-> {}, calls |-> {F}]
MCContents == {Lib, App}
MCInitDisk == [f \in Files |-> IF f = lib THEN Lib ELSE App]
===============================================================================
