----------------------------- MODULE MCRtlMemory -----------------------------
(***************************************************************************)
(* RtlMemory for TLC: pages of three units, an arena of three pages (two   *)
(* where the client goes on after the arena is broken).                    *)
(***************************************************************************)
EXTENDS RtlMemory

\* An empty request, one unit, two with slack, one that passes the end of the address
\* space from the upper part of the arena, one over MAX_UNITS, one that ALIGN wraps.
MCSizes == {0, 8, 9, 40, 48, 117}

\* None of these wraps.
MCPlainSizes == {0, 8, 16, 24}

\* With one that wraps, for the smaller arena.
MCFewSizes == {0, 9, 24, 93}
=============================================================================
