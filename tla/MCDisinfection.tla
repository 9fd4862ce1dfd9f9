---------------------------- MODULE MCDisinfection ----------------------------
(* Disinfection alone, for what becomes of a font in quarantine.            *)
EXTENDS Disinfection

KindByName == [i \in Infections |->
    CASE i = "t1" -> "task" [] i \in {"f1", "f2"} -> "font" [] OTHER -> "dropper"]
FontsAtOnePath == [i \in Infections |-> IF i \in {"f1", "f2"} THEN "font.ttf" ELSE i]
=============================================================================
