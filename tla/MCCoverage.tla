----------------------------- MODULE MCCoverage -----------------------------
(* Up to eight rows, a sample of four: two newest, two spread.                 *)
EXTENDS Coverage

MCKeys == 0 .. 7
=============================================================================
