---------------------------- MODULE MCWorkspaces ----------------------------
EXTENDS Workspaces, TLC

AnyScan == Permutations(Scans)
=============================================================================
