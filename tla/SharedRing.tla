------------------------------- MODULE SharedRing -------------------------------
(***************************************************************************)
(* A ring of MemQueue with variables of its own, for a run and for proofs  *)
(* that are about another component as well.                               *)
(***************************************************************************)
CONSTANTS RingElements, RingSize, RingWord, RingCells

VARIABLES bytes, top, bot, storing, stored, result

ringVars == <<bytes, top, bot, storing, stored, result>>

Ring == INSTANCE MemQueue
          WITH Elements <- RingElements, Size <- RingSize, Word <- RingWord, Cells <- RingCells,
               Full <- "full", Empty <- "empty", Done <- "done", Garbage <- "garbage"

ASSUME RingAssumption == Ring!RingAssumption

(* MemQueue's property: what goes in comes out, whole and in order, though *)
(* processes die while they store it.                                      *)
RingIsFifo == Ring!ImplementsFifo
==============================================================================
