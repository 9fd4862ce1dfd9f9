--------------------------- MODULE MCDependencyFix ---------------------------
(* DependencyFix alone, for what the fix command says when it has no fix.   *)
EXTENDS DependencyFix

OneTwo == <<"e1", "e2">>
OnePackage == [e \in FixEntries |-> "p"]
OneManifest == [e \in FixEntries |-> "requirements.txt"]
NoDefault == [n \in {"p"} |-> 0]
SecondVulnerable == [n \in {"p"} |-> {2}]
=============================================================================
