------------------------------ MODULE MCScoring ------------------------------
(* Two judges sharing a device, one team, two marks, two texts.           *)
EXTENDS Scoring, TLC

ASSUME ScoringAssumption

JudgeSymmetry == Permutations(Judges)
=============================================================================
