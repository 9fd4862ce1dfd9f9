--------------------------- MODULE IntelligenceFeed ---------------------------
(***************************************************************************)
(* SecurityIntelligenceEngine (domain/intelligence/engine.py): records of  *)
(* vulnerabilities from several sources are joined by their aliases        *)
(* (alias_graph.py), weighed against the dependencies of repositories      *)
(* (version_range.py), and linked to them so that a change finds the       *)
(* repositories again (impact.py).  The versions of a range are the set of *)
(* versions it holds.  There is one ecosystem; sources that fail deliver   *)
(* nothing, so what arrives is any batch.                                  *)
(***************************************************************************)
EXTENDS Naturals, FiniteSets, Sequences, SequencesExt

CONSTANTS RawRecords,     \* what the sources may deliver: id, aliases, severity, trust, affects, fixed
          Cves,           \* the identifiers that begin with CVE-
          Repositories,
          Inventory,      \* Repositories -> set of <<package, version>>
          MaxBatch,       \* bound: records delivered at once
          MaxIngests      \* bound: deliveries

ASSUME IntelligenceFeedAssumption ==
    /\ MaxBatch \in Nat /\ MaxIngests \in Nat
    /\ IsFiniteSet(RawRecords) /\ \A r \in RawRecords : IsFiniteSet(r.aliases)

VARIABLES aliasLinks,  \* _graph, as pairs
          lastRecords, \* _records: id -> the last record of that id
          stored,      \* _stored_records: id -> canonical record
          knowledge,   \* SecurityKnowledgeBase: id or alias -> canonical record
          impact,      \* edges of the impact graph
          told,        \* <<id, repository>> that correlate_with_repository has matched
          ingests

feedVars == <<aliasLinks, lastRecords, stored, knowledge, impact, told, ingests>>

FeedInit ==
    /\ aliasLinks = {} /\ lastRecords = << >> /\ stored = << >> /\ knowledge = << >>
    /\ impact = {} /\ told = {} /\ ingests = 0

Identifiers(r) == {r.id} \cup r.aliases
AllIdentifiers == UNION {Identifiers(r) : r \in RawRecords}
PackagesOf(r) == {a[1] : a \in r.affects}

(* add_vulnerability, for every record of the batch: the last of an id stays. *)
LinksOf(batch) == UNION {Identifiers(r) \X Identifiers(r) : r \in ToSet(batch)}
Updated(old, new) ==
    LET changed == DOMAIN new IN [i \in DOMAIN old \cup changed |-> IF i \in changed THEN new[i] ELSE old[i]]
LastOf(batch) ==
    Updated(lastRecords,
            [i \in {r.id : r \in ToSet(batch)} |-> batch[Max({n \in DOMAIN batch : batch[n].id = i})]])

(* get_aliases: everything that a walk of the graph comes to.  Mutant: the neighbours only. *)
NeighboursOf(graph, id) == {id} \cup {l[2] : l \in {l \in graph : l[1] = id}}
AliasesOf(graph, id) ==
    LET joined[n \in 0..Cardinality(AllIdentifiers)] ==
            IF n = 0 THEN {id} ELSE LET s == joined[n - 1] IN s \cup {l[2] : l \in {l \in graph : l[1] \in s}}
    IN joined[Cardinality(AllIdentifiers)]

(* _merge_cluster: sets are sorted as they come, so the first of the most trusted, and the first
   CVE, is any of them.                                                     *)
Canonical(latest, ids) ==
    LET cluster == {latest[i] : i \in ids \cap DOMAIN latest}
        trusted == {r \in cluster : \A s \in cluster : s.trust <= r.trust}
        Joined(r, id) == [id |-> id, aliases |-> ids \ {id}, severity |-> r.severity, trust |-> r.trust,
                          affects |-> UNION {s.affects : s \in cluster}, fixed |-> UNION {s.fixed : s \in cluster},
                          history |-> << >>]
    IN IF ids \cap Cves # {} THEN {Joined(r, id) : r \in trusted, id \in ids \cap Cves}
       ELSE {Joined(r, r.id) : r \in trusted}

(* The history of a record begins anew with every delivery: it holds the last change only. *)
Dated(r) ==
    IF r.id \in DOMAIN stored /\ stored[r.id].severity # r.severity
    THEN [r EXCEPT !.history = <<stored[r.id].severity>>] ELSE r

(* No two of the records that a delivery registers have a name in common.   *)
Registered(records) == [i \in UNION {Identifiers(r) : r \in records} |-> CHOOSE r \in records : i \in Identifiers(r)]

(* ingest_intelligence: one canonical record for every group of aliases that the batch touches. *)
Ingest(batch) ==
    LET links == aliasLinks \cup LinksOf(batch)
        latest == LastOf(batch)
        groups == {AliasesOf(links, r.id) : r \in ToSet(batch)}
    IN /\ ingests < MaxIngests /\ ingests' = ingests + 1
       /\ aliasLinks' = links /\ lastRecords' = latest
       /\ \E canonical \in [groups -> UNION {Canonical(latest, g) : g \in groups}] :
             LET dated == {Dated(canonical[g]) : g \in groups} IN
             /\ \A g \in groups : canonical[g] \in Canonical(latest, g)
             /\ stored' = Updated(stored, [i \in {r.id : r \in dated} |-> CHOOSE r \in dated : r.id = i])
             /\ knowledge' = Updated(knowledge, Registered(dated))
             /\ impact' = impact \cup UNION {{r.id} \X PackagesOf(r) : r \in dated}
       /\ UNCHANGED told

(* evaluate_status: a version at or above any fixed version is fixed, one below them is affected.
   The package of a range is not asked for.                                 *)
Affects(r, version) ==
    /\ \A f \in r.fixed : version < f
    /\ r.fixed # {} \/ \E a \in r.affects : a[2] = version

Matches(repository) ==
    {m \in (DOMAIN stored) \X Inventory[repository] : Affects(stored[m[1]], m[2][2])}
DependencyEdges(repository) ==
    {<<dep[1], repository>> : dep \in Inventory[repository]} \cup {<<m[1], m[2][1]>> : m \in Matches(repository)}

(* correlate_with_repository                                                *)
Correlate(repository) ==
    /\ impact' = impact \cup DependencyEdges(repository)
    /\ told' = told \cup {<<m[1], repository>> : m \in Matches(repository)}
    /\ UNCHANGED <<aliasLinks, lastRecords, stored, knowledge, ingests>>

(* get_affected_repositories                                                *)
AffectedRepositories(id) ==
    LET targets == {e[2] : e \in {e \in impact : e[1] = id}}
    IN {e[2] : e \in {e \in impact : e[1] \in targets}} \cap Repositories

(* reassess_impact_on_change: correlates again every repository that the graph leads to. *)
Reassess(id) ==
    /\ impact' = impact \cup UNION {DependencyEdges(r) : r \in AffectedRepositories(id)}
    /\ told' = told \cup UNION {{<<m[1], r>> : m \in Matches(r)} : r \in AffectedRepositories(id)}
    /\ UNCHANGED <<aliasLinks, lastRecords, stored, knowledge, ingests>>

Batches == UNION {{b \in [1..n -> RawRecords] : IsInjective(b)} : n \in 1..MaxBatch}

FeedNext ==
    \/ \E b \in Batches : Ingest(b)
    \/ \E r \in Repositories : Correlate(r)
    \/ \E id \in DOMAIN stored : Reassess(id)

FeedSpec == FeedInit /\ [][FeedNext]_feedVars

-----------------------------------------------------------------------------
(* Properties                                                               *)

FeedTypeOK ==
    /\ ingests \in 0..MaxIngests
    /\ \A i \in DOMAIN lastRecords : lastRecords[i] \in RawRecords /\ lastRecords[i].id = i
    /\ DOMAIN stored \subseteq DOMAIN knowledge
    /\ \A i \in DOMAIN stored : stored[i].id = i /\ i \notin stored[i].aliases
    /\ told \subseteq (DOMAIN stored) \X Repositories

\* Two identifiers that any chain of deliveries has linked, in whatever order it came, have
\* one and the same record in the knowledge base, which names them both and speaks with the
\* severity of a most trusted record among the last of each identifier.
KnowledgeAgrees ==
    \A l \in aliasLinks :
        LET i == l[1]
            ids == Identifiers(knowledge[i])
        IN /\ {l[1], l[2]} \subseteq DOMAIN knowledge /\ knowledge[l[2]] = knowledge[i] /\ l[2] \in ids
           /\ \E r \in {lastRecords[j] : j \in ids \cap DOMAIN lastRecords} :
                 /\ knowledge[i].severity = r.severity
                 /\ \A j \in ids \cap DOMAIN lastRecords : lastRecords[j].trust <= r.trust
\* A stored record that is no longer that of the knowledge base was overtaken: its
\* identifier has become the alias of another, which is stored as well.
OvertakenByAlias ==
    \A i \in DOMAIN stored :
        /\ stored[knowledge[i].id] = knowledge[i]
        /\ stored[i] # knowledge[i] => i \in knowledge[i].aliases
\* Every repository that was ever matched with a vulnerability, or depends on a package that
\* its record names, is found again when it changes.
FoundAgain ==
    /\ \A t \in told : t[2] \in AffectedRepositories(t[1])
    /\ \A i \in DOMAIN stored, r \in Repositories :
          (\E dep \in Inventory[r] : dep[1] \in PackagesOf(stored[i]) /\ <<dep[1], r>> \in impact)
          => r \in AffectedRepositories(i)
\* What the feed says of a vulnerability is said under all of its names, and to all it concerns.
FeedTells == KnowledgeAgrees /\ OvertakenByAlias /\ FoundAgain
=============================================================================
