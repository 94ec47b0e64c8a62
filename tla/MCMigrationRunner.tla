-------------------------- MODULE MCMigrationRunner --------------------------
\* Instances of MigrationRunner for TLC.
EXTENDS MigrationRunner, TLC

CONSTANTS run1, run2, v1, v2

TwoRunners == {run1, run2}
ThreeFiles == 1..3
TwoVersions == {v1, v2}

RunnerSymmetry == Permutations(Runners) \cup Permutations(Checksums)
=============================================================================
