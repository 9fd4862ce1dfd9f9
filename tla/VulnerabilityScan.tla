------------------------- MODULE VulnerabilityScan -------------------------
(***************************************************************************)
(* AnalyzeVulnerabilitiesUseCase over CachedVulnerabilityProvider           *)
(* (application/use_cases/analyze_vulnerabilities.py,                       *)
(* infrastructure/vulnerabilities/providers/cache.py and osv.py).  Several  *)
(* commands run at once: each loads the shared cache file when it is made,  *)
(* asks for its dependencies one by one, saves its whole memory after every *)
(* answer of the database, and then judges.  The database learns of new     *)
(* advisories meanwhile and does not always answer.  A package has at most  *)
(* one advisory here, and every dependency has an exact version.            *)
(***************************************************************************)
EXTENDS Naturals, Sequences

CONSTANTS Commands,     \* the commands that may run at once
          Deps,         \* dependencies: a package and a version each
          PackageOf,    \* the normalised name of each
          Affected,     \* those an advisory covers, once it is published
          Inventories,  \* what analyze_dependencies finds, in its order
          MaxScans      \* bound: scans begun

ASSUME VulnerabilityAssumption ==
    /\ PackageOf \in [Deps -> STRING] /\ Affected \subseteq Deps
    /\ Inventories \subseteq Seq(Deps) /\ MaxScans \in Nat

VARIABLES published,  \* packages whose advisory the database has
          cacheFile,  \* vulnerabilities_cache.json: key -> answer
          provider,   \* of each command: _memory_cache, offline, _status
          scan,       \* of each command: where execute is
          begun,      \* history: scans begun
          failed,     \* history: dependencies a failed query stood for
          early       \* history: those answered before their advisory came out

vulnerabilityVars == <<published, cacheFile, provider, scan, begun, failed, early>>

Packages == {PackageOf[d] : d \in Deps}
Answers == {"none", "empty", "hit"}
NoCache == [d \in Deps |-> "none"]
NoScan == [at |-> "idle", inventory |-> << >>, next |-> 1, answers |-> [p \in Packages |-> "none"],
           known |-> {}, skipped |-> {}, reported |-> {}]
Closed == [open |-> FALSE, offline |-> FALSE, memory |-> NoCache, status |-> "AVAILABLE"]

VulnerabilityInit ==
    /\ published = {} /\ cacheFile = NoCache
    /\ provider = [c \in Commands |-> Closed] /\ scan = [c \in Commands |-> NoScan]
    /\ begun = 0 /\ failed = {} /\ early = {}

(* The key has package and version.  Mutant: the package alone.             *)
PackageKey(d) == {e \in Deps : PackageOf[e] = PackageOf[d]}
CacheKey(d) == {d}

(* __init__ reads the file once, for as long as the provider lives.         *)
OpenProvider(c, offline) ==
    /\ ~provider[c].open
    /\ provider' = [provider EXCEPT ![c] = [Closed EXCEPT !.open = TRUE, !.offline = offline, !.memory = cacheFile]]
    /\ UNCHANGED <<published, cacheFile, scan, begun, failed, early>>

(* The command ends, or dies wherever it is.                                *)
CloseProvider(c) ==
    /\ provider[c].open
    /\ provider' = [provider EXCEPT ![c] = Closed] /\ scan' = [scan EXCEPT ![c] = NoScan]
    /\ UNCHANGED <<published, cacheFile, begun, failed, early>>

BeginScan(c, inventory) ==
    /\ provider[c].open /\ scan[c].at \in {"idle", "done"} /\ begun < MaxScans
    /\ begun' = begun + 1
    /\ scan' = [scan EXCEPT ![c] = [NoScan EXCEPT !.at = "asking", !.inventory = inventory, !.known = published]]
    /\ UNCHANGED <<published, cacheFile, provider, failed, early>>

Asked(c) == scan[c].inventory[scan[c].next]
Asking(c) == scan[c].at = "asking" /\ scan[c].next <= Len(scan[c].inventory)
(* results[package.normalized_name] = vulnerabilities                       *)
Answer(c, answer, at) ==
    [scan EXCEPT ![c].answers[PackageOf[Asked(c)]] = answer, ![c].at = at, ![c].next = @ + 1]

QueryCached(c) ==
    /\ Asking(c) /\ provider[c].memory[Asked(c)] # "none"
    /\ scan' = Answer(c, provider[c].memory[Asked(c)], "asking")
    /\ UNCHANGED <<published, cacheFile, provider, begun, failed, early>>

QueryOffline(c) ==
    /\ Asking(c) /\ provider[c].memory[Asked(c)] = "none" /\ provider[c].offline
    /\ scan' = [Answer(c, "empty", "asking") EXCEPT ![c].skipped = @ \cup {Asked(c)}]
    /\ UNCHANGED <<published, cacheFile, provider, begun, failed, early>>

Remember(c, answer, status) ==
    provider' = [provider EXCEPT ![c].status = status,
                                 ![c].memory = [d \in Deps |-> IF d \in CacheKey(Asked(c)) THEN answer ELSE @[d]]]

(* OSVProvider.query answers, or swallows what went wrong and returns an    *)
(* empty list; which is remembered like any other answer.                   *)
QueryDatabase(c) ==
    /\ Asking(c) /\ provider[c].memory[Asked(c)] = "none" /\ ~provider[c].offline
    /\ LET answer == IF Asked(c) \in Affected /\ PackageOf[Asked(c)] \in published THEN "hit" ELSE "empty" IN
       /\ Remember(c, answer, "AVAILABLE")
       /\ scan' = Answer(c, answer, "saving")
    /\ early' = IF PackageOf[Asked(c)] \in published THEN early ELSE early \cup {Asked(c)}
    /\ UNCHANGED <<published, cacheFile, begun, failed>>

QueryFails(c, status) ==
    /\ Asking(c) /\ provider[c].memory[Asked(c)] = "none" /\ ~provider[c].offline
    /\ Remember(c, "empty", status)
    /\ scan' = Answer(c, "empty", "saving")
    /\ failed' = failed \cup {Asked(c)}
    /\ UNCHANGED <<published, cacheFile, begun, early>>

(* The file is replaced by this command's memory, or the write fails and    *)
(* that is logged.                                                          *)
SaveCache(c, written) ==
    /\ scan[c].at = "saving"
    /\ cacheFile' = IF written THEN provider[c].memory ELSE cacheFile
    /\ scan' = [scan EXCEPT ![c].at = "asking"]
    /\ UNCHANGED <<published, provider, begun, failed, early>>

(* Of several dependencies of one package only the first is judged, by what *)
(* was answered for the last.                                               *)
FirstOfPackage(inventory, i) == \A j \in 1..(i - 1) : PackageOf[inventory[j]] # PackageOf[inventory[i]]
JudgeScan(c) ==
    /\ scan[c].at = "asking" /\ scan[c].next > Len(scan[c].inventory)
    /\ scan' = [scan EXCEPT ![c].at = "done", ![c].reported =
                   {scan[c].inventory[i] : i \in {j \in DOMAIN scan[c].inventory :
                        /\ FirstOfPackage(scan[c].inventory, j)
                        /\ scan[c].answers[PackageOf[scan[c].inventory[j]]] = "hit"
                        /\ scan[c].inventory[j] \in Affected}}]
    /\ UNCHANGED <<published, cacheFile, provider, begun, failed, early>>

PublishAdvisory(p) ==
    /\ p \notin published /\ published' = published \cup {p}
    /\ UNCHANGED <<cacheFile, provider, scan, begun, failed, early>>

VulnerabilityNext ==
    \/ \E c \in Commands :
          \/ \E yes \in BOOLEAN : OpenProvider(c, yes) \/ SaveCache(c, yes)
          \/ \E inventory \in Inventories : BeginScan(c, inventory)
          \/ \E status \in {provider[c].status, "DOWN"} : QueryFails(c, status)
          \/ CloseProvider(c) \/ QueryCached(c) \/ QueryOffline(c) \/ QueryDatabase(c) \/ JudgeScan(c)
    \/ \E p \in Packages : PublishAdvisory(p)
VulnerabilitySpec == VulnerabilityInit /\ [][VulnerabilityNext]_vulnerabilityVars

-----------------------------------------------------------------------------
VulnerabilityTypeOK ==
    /\ published \subseteq Packages /\ cacheFile \in [Deps -> Answers]
    /\ provider \in [Commands -> [open : BOOLEAN, offline : BOOLEAN, memory : [Deps -> Answers],
                                  status : {"AVAILABLE", "DOWN"}]]
    /\ \A c \in Commands :
          /\ scan[c].at \in {"idle", "asking", "saving", "done"}
          /\ scan[c].inventory \in Inventories \cup {<< >>} /\ scan[c].next \in 1..(Len(scan[c].inventory) + 1)
          /\ scan[c].answers \in [Packages -> Answers] /\ scan[c].known \subseteq Packages
          /\ scan[c].skipped \cup scan[c].reported \subseteq Deps
    /\ begun \in 0..MaxScans /\ failed \cup early \subseteq Deps

Listed(c) == {scan[c].inventory[i] : i \in DOMAIN scan[c].inventory}
SamePackage(c, d) == \E e \in Listed(c) : e # d /\ PackageOf[e] = PackageOf[d]

(* Whatever commands share the cache, and whenever one of them dies: a      *)
(* dependency whose advisory was out when the scan began goes unreported    *)
(* only if a query for that very version once failed or was answered before *)
(* the advisory came out, if the scan is offline and nothing was cached for *)
(* it, or if the inventory has another version of the package.  What is     *)
(* reported has an advisory.                                                *)
MissExplained ==
    \A c \in Commands : scan[c].at = "done" =>
       /\ \A d \in Listed(c) : /\ d \in Affected /\ PackageOf[d] \in scan[c].known /\ d \notin scan[c].reported
                               => d \in failed \cup early \cup scan[c].skipped \/ SamePackage(c, d)
       /\ \A d \in scan[c].reported : d \in Affected /\ PackageOf[d] \in published
=============================================================================
