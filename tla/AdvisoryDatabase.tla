--------------------------- MODULE AdvisoryDatabase ---------------------------
(***************************************************************************)
(* The offline advisory database of a user (advisory_db.py): two files,    *)
(* advisories.json and metadata.json, each replaced atomically but one     *)
(* after the other, and a backup of both that an update makes first.       *)
(* What cannot be loaded is restored from the backup by plain copies, or   *)
(* started again from the built-in advisories.  There is no lock: every    *)
(* sca scan of the user opens the same files.                              *)
(*                                                                         *)
(* The advisories come in batches, the built-in ones and one per update; a *)
(* file holds a set of batches, and the metadata stand for the batches     *)
(* that they count.                                                        *)
(***************************************************************************)
EXTENDS Naturals, FiniteSets

CONSTANTS
    DbProcesses,              \* the processes that use the database
    BuiltIn,            \* the batch of _bootstrap_default_advisories
    Updates,            \* the batches that update_database_atomic may add
    NoUpdate,           \* outside Updates
    RecursionLimit,     \* how often loading may restore before Python gives up
    MaxMishaps          \* bound: processes killed, writes failed, files broken

ASSUME AdvisoryDatabaseAssumption ==
    /\ IsFiniteSet(DbProcesses)
    /\ BuiltIn \notin Updates /\ NoUpdate \notin Updates \cup {BuiltIn}
    /\ RecursionLimit \in Nat \ {0} /\ MaxMishaps \in Nat

VARIABLES
    stored,     \* the two files and their two backups
    handle,     \* process -> where it is and what it holds in memory
    confirmed,  \* ghost: the batches whose update has returned True
    excused,    \* ghost: batches another process may have written over
    overlapped, \* ghost: two processes had the database open at once
    stuck,      \* ghost: the database could not be opened, with the disk in order
    mishaps     \* what has gone wrong, each at most once

dbVars == <<stored, handle, confirmed, excused, overlapped, stuck, mishaps>>

Files == {"data", "meta", "old data", "old meta"}
Contents == SUBSET (Updates \cup {BuiltIn})
Absent == {}                    \* a file that is not there
Broken == {NoUpdate}            \* one that does not parse
Whole(f) == stored[f] \notin {Absent, Broken}

ClosedDb == [at |-> "closed", copying |-> FALSE, advisories |-> {}, counted |-> {},
             update |-> NoUpdate, restored |-> 0, unseen |-> {}]

\* Mutant: the metadata are not backed up, only the advisories.
CopiesOfData ==
    [keepData    |-> [from |-> "data", to |-> "old data", next |-> "saveData"],
     keepMeta    |-> [from |-> "meta", to |-> "old meta", next |-> "saveData"],
     restoreData |-> [from |-> "old data", to |-> "data", next |-> "restoreMeta"],
     restoreMeta |-> [from |-> "old meta", to |-> "meta", next |-> "loadMeta"]]

\* The copies of an update and of a rollback: shutil.copy2, file by file.
Copies ==
    [keepData    |-> [from |-> "data", to |-> "old data", next |-> "keepMeta"],
     keepMeta    |-> [from |-> "meta", to |-> "old meta", next |-> "saveData"],
     restoreData |-> [from |-> "old data", to |-> "data", next |-> "restoreMeta"],
     restoreMeta |-> [from |-> "old meta", to |-> "meta", next |-> "loadMeta"]]

Steps == {"closed", "loadMeta", "loadData", "bootData", "bootMeta", "ready",
          "saveData", "saveMeta"} \cup DOMAIN Copies

DbInit ==
    /\ stored = [f \in Files |-> Absent]
    /\ handle = [p \in DbProcesses |-> ClosedDb]
    /\ confirmed = {} /\ excused = {}
    /\ overlapped = FALSE /\ stuck = FALSE
    /\ mishaps = {}

Opened(p) == handle[p].at # "closed"
Others(p) == {q \in DbProcesses \ {p} : Opened(q)}

\* Bookkeeping: one thing more goes wrong.
MayGoWrong(what) ==
    /\ what \notin mishaps /\ Cardinality(mishaps) < MaxMishaps
    /\ mishaps' = mishaps \cup {what}

SetHandle(p, r) == handle' = [handle EXCEPT ![p] = r]
GoTo(p, next) == SetHandle(p, [handle[p] EXCEPT !.at = next])

\* Another process is at work too, or p backs up what one has left half copied.
Mixed(p) ==
    \/ \E q \in Others(p) : handle[q].at # "ready"
    \/ handle[p].at \in {"keepData", "keepMeta"} /\ ~(Whole("data") /\ Whole("meta"))

\* Bookkeeping: what p may write over is what another process is adding or has added
\* since p loaded, and everything when the two mix.
MayOverwrite(p) ==
    excused' = excused \cup handle[p].unseen
                       \cup ({handle[q].update : q \in Others(p)} \ {NoUpdate})
                       \cup (IF Mixed(p) THEN confirmed ELSE {})

\* The end of a load, a save or a bootstrap: an update that had to roll back
\* returns False, and whatever is on the disk is what the process works on.
Settled(r) == [r EXCEPT !.at = "ready", !.update = NoUpdate, !.restored = 0]

-----------------------------------------------------------------------------
(* Opening *)

OpenDb(p) ==
    /\ ~Opened(p)
    /\ IF stored["data"] = Absent
       THEN SetHandle(p, [ClosedDb EXCEPT !.at = "bootData"])
       ELSE SetHandle(p, [ClosedDb EXCEPT !.at = "loadMeta"])
    /\ overlapped' = (overlapped \/ Others(p) # {})
    /\ UNCHANGED <<stored, confirmed, excused, stuck, mishaps>>

\* rollback_database: from the backup if there is one, else the built-in advisories.
\* A backup that does not load is restored again, until the recursion is too deep.
Rollback(p) ==
    /\ IF stored["old data"] = Absent
       THEN GoTo(p, "bootData")
       ELSE IF handle[p].restored = RecursionLimit
            THEN SetHandle(p, ClosedDb)
            ELSE SetHandle(p, [handle[p] EXCEPT !.at = "restoreData", !.restored = @ + 1])
    /\ stuck' = (stuck \/ (stored["old data"] # Absent /\ handle[p].restored = RecursionLimit))

LoadMeta(p) ==
    /\ handle[p].at = "loadMeta"
    /\ IF Whole("meta")
       THEN /\ SetHandle(p, [handle[p] EXCEPT !.at = "loadData", !.counted = stored["meta"]])
            /\ UNCHANGED stuck
       ELSE Rollback(p)
    /\ UNCHANGED <<stored, confirmed, excused, overlapped, mishaps>>

LoadData(p) ==
    /\ handle[p].at = "loadData"
    /\ IF Whole("data")
       THEN /\ SetHandle(p, Settled([handle[p] EXCEPT !.advisories = stored["data"],
                                                  !.unseen = {}]))
            /\ UNCHANGED stuck
       ELSE Rollback(p)
    /\ UNCHANGED <<stored, confirmed, excused, overlapped, mishaps>>

\* Neither a bootstrap nor a save looks at what is in the files by then.
BootData(p) ==
    /\ handle[p].at = "bootData"
    /\ stored' = [stored EXCEPT !["data"] = {BuiltIn}]
    /\ SetHandle(p, [handle[p] EXCEPT !.at = "bootMeta", !.advisories = {BuiltIn},
                                  !.counted = {BuiltIn}])
    /\ MayOverwrite(p)
    /\ UNCHANGED <<confirmed, overlapped, stuck, mishaps>>

BootMeta(p) ==
    /\ handle[p].at = "bootMeta"
    /\ stored' = [stored EXCEPT !["meta"] = handle[p].counted]
    /\ SetHandle(p, Settled(handle[p]))
    /\ UNCHANGED <<confirmed, excused, overlapped, stuck, mishaps>>

-----------------------------------------------------------------------------
(* Updates *)

Update(p, b) ==
    /\ handle[p].at = "ready"
    /\ b \notin handle[p].advisories /\ b \notin confirmed
    /\ \A q \in DbProcesses : handle[q].update # b
    /\ SetHandle(p, [handle[p] EXCEPT !.at = "keepData", !.update = b])
    /\ UNCHANGED <<stored, confirmed, excused, overlapped, stuck, mishaps>>

\* A file to keep that does not exist is not copied.
NothingToKeep(p) ==
    /\ handle[p].at \in {"keepData", "keepMeta"} /\ ~handle[p].copying
    /\ stored[Copies[handle[p].at].from] = Absent
    /\ GoTo(p, Copies[handle[p].at].next)
    /\ UNCHANGED <<stored, confirmed, excused, overlapped, stuck, mishaps>>

\* A copy empties its destination and then fills it.
BeginCopy(p) ==
    /\ handle[p].at \in DOMAIN Copies /\ ~handle[p].copying
    /\ LET copy == Copies[handle[p].at]
       IN  /\ stored[copy.from] # Absent
           /\ stored' = [stored EXCEPT ![copy.to] = Broken]
    /\ SetHandle(p, [handle[p] EXCEPT !.copying = TRUE])
    /\ MayOverwrite(p)
    /\ UNCHANGED <<confirmed, overlapped, stuck, mishaps>>

EndCopy(p) ==
    /\ handle[p].at \in DOMAIN Copies /\ handle[p].copying
    /\ LET copy == Copies[handle[p].at]
       IN  \* a file that was replaced meanwhile is not the one being written
           /\ stored' = [stored EXCEPT ![copy.to] = IF @ = Broken THEN stored[copy.from] ELSE @]
           /\ SetHandle(p, [handle[p] EXCEPT !.at = copy.next, !.copying = FALSE])
    /\ MayOverwrite(p)
    /\ UNCHANGED <<confirmed, overlapped, stuck, mishaps>>

\* A backup without metadata cannot be restored: the copy of the file that is not
\* there raises, and so does whoever opened or updated the database.
NothingToRestore(p) ==
    /\ handle[p].at = "restoreMeta" /\ ~handle[p].copying
    /\ stored["old meta"] = Absent
    /\ SetHandle(p, ClosedDb)
    /\ stuck' = TRUE
    /\ UNCHANGED <<stored, confirmed, excused, overlapped, mishaps>>

SaveData(p) ==
    /\ handle[p].at = "saveData"
    /\ LET all == handle[p].advisories \cup {handle[p].update}
       IN  /\ stored' = [stored EXCEPT !["data"] = all]
           /\ SetHandle(p, [handle[p] EXCEPT !.at = "saveMeta", !.advisories = all, !.counted = all])
    /\ MayOverwrite(p)
    /\ UNCHANGED <<confirmed, overlapped, stuck, mishaps>>

SaveMeta(p) ==
    /\ handle[p].at = "saveMeta"
    /\ stored' = [stored EXCEPT !["meta"] = handle[p].counted]
    /\ confirmed' = confirmed \cup {handle[p].update}
    /\ handle' = [q \in DbProcesses |->
                    IF q = p THEN Settled(handle[p])
                    ELSE [handle[q] EXCEPT !.unseen = @ \cup {handle[p].update}]]
    /\ UNCHANGED <<excused, overlapped, stuck, mishaps>>

\* A write fails.  In an update the backup is restored; while the backup is made the
\* exception leaves the database as it is; while it is opened or restored it ends all.
WriteError(p) ==
    /\ MayGoWrong("disk error")
    /\ \/ /\ handle[p].at \in {"saveData", "saveMeta"}
          /\ Rollback(p)
       \/ /\ handle[p].at \in {"keepData", "keepMeta"} /\ handle[p].copying
          /\ SetHandle(p, Settled([handle[p] EXCEPT !.copying = FALSE]))
          /\ UNCHANGED stuck
       \/ /\ \/ handle[p].at \in {"bootData", "bootMeta"}
             \/ handle[p].at \in {"restoreData", "restoreMeta"} /\ handle[p].copying
          /\ SetHandle(p, ClosedDb)
          /\ UNCHANGED stuck
    /\ UNCHANGED <<stored, confirmed, excused, overlapped>>

-----------------------------------------------------------------------------
(* The end of a process, and the environment *)

CloseDb(p) ==
    /\ handle[p].at = "ready"
    /\ SetHandle(p, ClosedDb)
    /\ UNCHANGED <<stored, confirmed, excused, overlapped, stuck, mishaps>>

KillProcess(p) ==
    /\ Opened(p) /\ handle[p].at # "ready"
    /\ MayGoWrong("crash")
    /\ SetHandle(p, ClosedDb)
    /\ UNCHANGED <<stored, confirmed, excused, overlapped, stuck>>

\* Something else breaks a file or removes it.
DamageFile(f) ==
    /\ Whole(f) /\ MayGoWrong("damage")
    /\ \E c \in {Broken, Absent} : stored' = [stored EXCEPT ![f] = c]
    /\ UNCHANGED <<handle, confirmed, excused, overlapped, stuck>>

DbNext ==
    \/ \E p \in DbProcesses :
         \/ OpenDb(p) \/ LoadMeta(p) \/ LoadData(p) \/ BootData(p) \/ BootMeta(p)
         \/ \E b \in Updates : Update(p, b)
         \/ NothingToKeep(p) \/ BeginCopy(p) \/ EndCopy(p) \/ NothingToRestore(p)
         \/ SaveData(p) \/ SaveMeta(p) \/ WriteError(p)
         \/ CloseDb(p) \/ KillProcess(p)
    \/ \E f \in {"data", "meta"} : DamageFile(f)

DbSpec == DbInit /\ [][DbNext]_dbVars

-----------------------------------------------------------------------------
(* Properties *)

\* Every variable has its type.
DbTypeOK ==
    /\ stored \in [Files -> Contents \cup {Broken}]
    /\ handle \in [DbProcesses -> [at : Steps, copying : BOOLEAN,
                           advisories : Contents, counted : Contents,
                           update : Updates \cup {NoUpdate},
                           restored : 0..RecursionLimit, unseen : SUBSET Updates]]
    /\ confirmed \subseteq Updates /\ excused \subseteq Updates
    /\ overlapped \in BOOLEAN /\ stuck \in BOOLEAN
    /\ mishaps \subseteq {"crash", "disk error", "damage"}
    /\ Cardinality(mishaps) <= MaxMishaps

\* What the next scan to open the database will find in it.
Recoverable ==
    IF Whole("data") /\ Whole("meta") THEN stored["data"]
    ELSE IF stored["old data"] = Absent THEN {BuiltIn}
    ELSE IF Whole("old data") /\ Whole("old meta") THEN stored["old data"]
    ELSE {}

\* A confirmed batch is there for the next scan, through every crash, failed write
\* and rollback, unless another process wrote over it without having seen it.
UpdatesDurable ==
    "damage" \notin mishaps =>
        /\ confirmed \subseteq Recoverable \cup excused
        /\ excused = {} \/ overlapped

\* As long as no two processes had it open at once, the database can be opened,
\* whatever a crash has left half copied.
AlwaysOpens == "damage" \notin mishaps /\ ~overlapped => ~stuck

\* A scan that works on the database has all the built-in advisories, and if it had
\* it to itself what the metadata count, unless a crash came between the two files.
WorksOnWhole ==
    \A p \in DbProcesses : handle[p].at = "ready" =>
        /\ BuiltIn \in handle[p].advisories
        /\ handle[p].counted = handle[p].advisories \/ mishaps # {} \/ overlapped

\* The promise of advisory_db.py, "atomic updates, rollback, and corruption checks",
\* as far as one process after the other, or side by side, can rely on it.
DatabaseKept == UpdatesDurable /\ AlwaysOpens /\ WorksOnWhole
=============================================================================
