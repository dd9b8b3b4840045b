----------------------------- MODULE MCSkillSync -----------------------------
(* Instances of SkillSync for TLC: two runners and a caller. *)
EXTENDS SkillSync

CONSTANTS r1, r2, c1

RunnerNames == {r1, r2}
=============================================================================
