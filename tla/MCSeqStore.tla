---------------------------- MODULE MCSeqStore ----------------------------
(***************************************************************************)
(* SeqStore for TLC: two lamps, a margin of one number, a save every       *)
(* second notification, and numbers of two bits instead of 24.  The two    *)
(* entries are interchangeable.                                            *)
(***************************************************************************)
EXTENDS SeqStore, TLC
CONSTANTS e1, e2

MCEntries == {e1, e2}
MCSymmetry == Permutations(MCEntries)
===========================================================================
