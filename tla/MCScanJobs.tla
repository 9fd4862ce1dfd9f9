----------------------------- MODULE MCScanJobs -----------------------------
EXTENDS ScanJobs, TLC

JobsAndWorkers == Permutations(Jobs) \union Permutations(Workers)
=============================================================================
