------------------------------ MODULE MCIngest ------------------------------
(* A small instance of Ingest: four weekdays, a holiday inside the window,  *)
(* a page of two bars, so that a full window ends on a short page, on an    *)
(* empty page or across a bar that appears between two pages.               *)
EXTENDS Ingest, TLC

Symmetry == Permutations(Syms)
=============================================================================
