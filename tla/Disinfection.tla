---------------------------- MODULE Disinfection ----------------------------
(***************************************************************************)
(* PolinRiderCleaner and PolinRiderDetector (domain/malware), as the clean  *)
(* command runs them: the cleaner goes through its steps, and in the steps  *)
(* that walk the tree from file to file; whatever fails is passed over.     *)
(* The two decide differently what is malicious and where to look.  The     *)
(* files are outside: an infection is one malicious task, setting, dropper, *)
(* font, line of a build file or rule of .gitignore, and may come back.     *)
(***************************************************************************)
EXTENDS Naturals

CONSTANTS Infections, NoInfection,
          KindOf,       \* task, setting, dropper, font, config or ignore
          PathOf,       \* the file; two fonts may follow each other at one path
          Linked,       \* those whose file is a symbolic link
          Pruned,       \* those in a directory like dist or venv
          DetectedOnly, \* those only the detector's pattern matches: a hidden task,
                        \* a printable font, an eval in a build file
          Spread,       \* those whose pattern matches across lines
          MaxCleanings, \* bound: how often the cleaner is started
          MaxReturns    \* bound: how often an infection comes

StepKind == <<"task", "setting", "dropper", "font", "config", "ignore">>

ASSUME DisinfectionAssumption ==
    /\ NoInfection \notin Infections
    /\ KindOf \in [Infections -> {"task", "setting", "dropper", "font", "config", "ignore"}]
    /\ Linked \subseteq Infections /\ Pruned \subseteq Infections
    /\ DetectedOnly \subseteq Infections /\ Spread \subseteq Infections
    /\ \A i, j \in Infections : PathOf[i] = PathOf[j] => KindOf[i] = KindOf[j] /\ (i \in Linked <=> j \in Linked)
    /\ MaxCleanings \in Nat /\ MaxReturns \in Nat

VARIABLES present,    \* what is in the workspace
          form,       \* how tasks.json and settings.json are written
          step,       \* the cleaner's step; 0 before and 7 after
          todo,       \* what the walk of this step has not come to
          cleaned,    \* CleanupResult: what it says was removed
          uncleaned,     \* what raised in this cleaning
          quarantine, \* .pyh_quarantine: by path
          moved,      \* history: every font that was ever put there
          cleanings, returns

cleanVars == <<present, form, step, todo, cleaned, uncleaned, quarantine, moved, cleanings, returns>>

Paths == {PathOf[i] : i \in Infections}
Of(kind) == {i \in present : KindOf[i] = kind}
Forms == {"plain", "comma", "comment"}  \* a trailing comma; a // inside a string

CleanInit == /\ present \in SUBSET Infections
             /\ \A i, j \in present : PathOf[i] = PathOf[j] /\ KindOf[i] = "font" => i = j
             /\ form \in [{"task", "setting"} -> Forms]
             /\ \A k \in {"task", "setting"} : Of(k) = {} => form[k] = "plain"
             /\ step = 0 /\ todo = {} /\ cleaned = {} /\ uncleaned = {}
             /\ quarantine = [p \in Paths |-> NoInfection]
             /\ moved = {} /\ cleanings = 0 /\ returns = 0

-----------------------------------------------------------------------------
(* What the cleaner acts on, and what the detector reports.                 *)
Strips(i) == /\ i \notin Linked \union DetectedOnly
             /\ KindOf[i] \in {"task", "setting"} => form[KindOf[i]] # "comment"
             /\ KindOf[i] \in {"dropper", "font", "config"} => i \notin Pruned

(* Comments are cut at //, trailing commas only in settings.json; only the  *)
(* search for signatures prunes directories.                                *)
Detects(i) == CASE KindOf[i] = "task"    -> form["task"] = "plain"
                [] KindOf[i] = "setting" -> form["setting"] # "comment"
                [] KindOf[i] = "config"  -> i \notin Pruned
                [] KindOf[i] = "ignore"  -> FALSE
                [] OTHER                 -> TRUE
Detected == {i \in present : Detects(i)}

(* The files of a step the cleaner does not pass over on purpose.           *)
Found(kind) == {i \in Of(kind) : Strips(i)}

Start == /\ step \in {0, 7} /\ cleanings < MaxCleanings
         /\ cleanings' = cleanings + 1
         /\ step' = 1 /\ todo' = Found("task") /\ cleaned' = {} /\ uncleaned' = {}
         /\ UNCHANGED <<present, form, quarantine, moved, returns>>

NextStep == /\ step \in 1..6 /\ todo = {}
            /\ step' = step + 1
            /\ todo' = IF step = 6 THEN {} ELSE Found(StepKind[step + 1])
            /\ UNCHANGED <<present, form, cleaned, uncleaned, quarantine, moved, cleanings, returns>>

(* _clean_vscode and _clean_gitignore rewrite one file.  It may not be      *)
(* readable; when it cannot be written it stays or is left cut off, and     *)
(* what was counted before the write stays in the result.                   *)
Rewrite ==
    /\ step \in {1, 2, 6} /\ todo # {} /\ todo' = {}
    /\ \/ /\ present' = present \ todo /\ cleaned' = cleaned \union todo
          /\ UNCHANGED uncleaned
       \/ uncleaned' = uncleaned \union todo /\ UNCHANGED <<present, cleaned>>
       \/ /\ step # 6 /\ uncleaned' = uncleaned \union todo /\ cleaned' = cleaned \union todo
          /\ present' \in {present, present \ todo}
       \/ /\ step = 6 /\ uncleaned' = uncleaned \union todo /\ present' = present \ todo
          /\ UNCHANGED cleaned
    /\ UNCHANGED <<form, step, quarantine, moved, cleanings, returns>>

(* Mutant: the handler is around the loop, so a failure ends the walk.      *)
PassOverRest(i) == uncleaned' = uncleaned \union {i} /\ todo' = {}
PassOver(i) == uncleaned' = uncleaned \union {i} /\ todo' = todo \ {i}

Removed(i) == /\ present' = present \ {i} /\ cleaned' = cleaned \union {i}
              /\ todo' = todo \ {i} /\ UNCHANGED uncleaned

RemoveDropper(i) ==
    /\ step = 3 /\ i \in todo
    /\ \/ Removed(i)
       \/ PassOver(i) /\ UNCHANGED <<present, cleaned>>
    /\ UNCHANGED <<form, step, quarantine, moved, cleanings, returns>>

(* shutil.move over what a cleaning before put at the same path.            *)
QuarantineFont(i) ==
    /\ step = 4 /\ i \in todo
    /\ \/ /\ Removed(i)
          /\ quarantine' = [quarantine EXCEPT ![PathOf[i]] = i]
          /\ moved' = moved \union {i}
       \/ PassOver(i) /\ UNCHANGED <<present, cleaned, quarantine, moved>>
    /\ UNCHANGED <<form, step, cleanings, returns>>

(* A match in the text makes the file cleaned, whether or not a line of it  *)
(* matches too; the failure of a write may cut the file off.                *)
CleanConfig(i) ==
    /\ step = 5 /\ i \in todo
    /\ \/ i \notin Spread /\ Removed(i)
       \/ /\ i \in Spread /\ cleaned' = cleaned \union {i} /\ todo' = todo \ {i}
          /\ UNCHANGED <<present, uncleaned>>
       \/ PassOver(i) /\ present' \in {present, present \ {i}} /\ UNCHANGED cleaned
    /\ UNCHANGED <<form, step, quarantine, moved, cleanings, returns>>

(* Between two cleanings: a checkout, a pull, a colleague.                  *)
ComesBack(i) == /\ step \in {0, 7} /\ returns < MaxReturns
                /\ i \notin present /\ \A j \in present : PathOf[j] = PathOf[i] => KindOf[i] # "font"
                /\ returns' = returns + 1
                /\ present' = present \union {i} /\ step' = 0
                /\ UNCHANGED <<form, todo, cleaned, uncleaned, quarantine, moved, cleanings>>

CleanNext == \/ Start \/ NextStep \/ Rewrite
             \/ \E i \in Infections : \/ RemoveDropper(i) \/ QuarantineFont(i)
                                      \/ CleanConfig(i) \/ ComesBack(i)
CleanSpec == CleanInit /\ [][CleanNext]_cleanVars

-----------------------------------------------------------------------------
CleanTypeOK ==
    /\ present \subseteq Infections /\ todo \subseteq Infections
    /\ cleaned \subseteq Infections /\ uncleaned \subseteq Infections /\ moved \subseteq Infections
    /\ form \in [{"task", "setting"} -> Forms]
    /\ step \in 0..7
    /\ quarantine \in [Paths -> Infections \union {NoInfection}]
    /\ cleanings \in Nat /\ returns \in Nat

(* After a cleaning the detector finds nothing but symbolic links, pruned   *)
(* directories, what only its own patterns match, a build file whose match  *)
(* spans lines, and what raised: one file's failure spares no other file,   *)
(* and a step that fails stops no later one.                                *)
ResidueExplained == step = 7 =>
    Detected \subseteq Linked \union Pruned \union DetectedOnly \union Spread \union uncleaned

(* What the result lists is gone, unless it also raised or spans lines.       *)
ResultIsTrue == step = 7 => cleaned \intersect present \subseteq uncleaned \union Spread

(* What the cleaner tells and leaves.                                       *)
CleaningTells == ResidueExplained /\ ResultIsTrue

(* polinrider_cleaner.py:223 says that nothing is destroyed: a font that    *)
(* was quarantined stays there.                                             *)
NothingDestroyed == \A i \in moved : quarantine[PathOf[i]] = i
=============================================================================
