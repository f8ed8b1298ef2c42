---------------------------- MODULE MC_ResolverRace ----------------------------
(* ResolverRace for TLC: two callers of one unresolved symbol.               *)
EXTENDS ResolverRace

MCKindOf(s) == s
===============================================================================
