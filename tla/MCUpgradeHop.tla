---------------------------- MODULE MCUpgradeHop ----------------------------
(* Instances of UpgradeHop for TLC.                                        *)
EXTENDS UpgradeHop

MCVersions == 1..3

(***************************************************************************)
(* A way by 2, a way by 2 beside the direct one, a direct way that is      *)
(* blocked, and rules with a cycle.                                        *)
(***************************************************************************)
MCRuleSets ==
    { {Rule(1, 2, FALSE), Rule(2, 3, FALSE)},
      {Rule(1, 2, FALSE), Rule(2, 3, FALSE), Rule(1, 3, FALSE)},
      {Rule(1, 2, FALSE), Rule(2, 3, FALSE), Rule(1, 3, TRUE)},
      {Rule(1, 2, FALSE), Rule(2, 1, TRUE)} }
=============================================================================
