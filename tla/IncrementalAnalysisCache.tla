---------------------- MODULE IncrementalAnalysisCache ----------------------
(***************************************************************************)
(* The dependency-scoped invalidation cache of the analysis engine         *)
(* (src/src/analysis/incremental-cache.js).                                *)
(*                                                                         *)
(* Every analysed file has a record: its version, the fingerprints of the  *)
(* summaries of the functions it declares, and the functions it depends    *)
(* on (the callees its calls were resolved to).  A reverse index maps a    *)
(* function to the files that depend on it; a change walks that index to   *)
(* find the files whose results may be stale.                              *)
(*                                                                         *)
(* The operations are pure operators on the two maps, so that a module     *)
(* that owns a cache can run several of them in one step; the actions of   *)
(* this module run one at a time.                                          *)
(***************************************************************************)
EXTENDS Integers, FiniteSets

CONSTANTS
    File,         \* normalised absolute paths (fileKey)
    FunctionId,   \* ids of functions, whichever file declares them
    Version,      \* content versions of a file
    Fingerprint   \* structural digests of function summaries

ASSUME FileIsFinite == IsFiniteSet(File)

VARIABLES
    files,               \* [present files -> FileRecord]
    dependentsByFunction,\* [function ids depended on -> set of files]
    result               \* what the last call returned

vars == <<files, dependentsByFunction, result>>

(* The summaries of a file: the functions it declares, each with the       *)
(* digest of its summary.  Ids are unique within a file.                   *)
Summaries == UNION {[ids -> Fingerprint] : ids \in SUBSET FunctionId}

FileRecord == [version : Version,
               functionSummaries : Summaries,
               dependencyFunctionIds : SUBSET FunctionId]

NoResult == [kind |-> "none"]
CacheHit == [kind |-> "hit"]
Invalidation(file, changed, invalidated) ==
    [kind |-> "invalidation", file |-> file,
     changedFunctionIds |-> changed, invalidatedFiles |-> invalidated]

-----------------------------------------------------------------------------
(* Helpers on the two maps.                                                *)

Declared(fs, file) ==
    IF file \in DOMAIN fs THEN DOMAIN fs[file].functionSummaries ELSE {}

DependsOn(fs, file) ==
    IF file \in DOMAIN fs THEN fs[file].dependencyFunctionIds ELSE {}

Dependents(index, id) == IF id \in DOMAIN index THEN index[id] ELSE {}

Without(fs, file) == [f \in DOMAIN fs \ {file} |-> fs[f]]

With(fs, file, record) ==
    [f \in DOMAIN fs \union {file} |-> IF f = file THEN record ELSE fs[f]]

(* _addReverse *)
AddReverse(index, file, ids) ==
    [id \in DOMAIN index \union ids |->
        Dependents(index, id) \union (IF id \in ids THEN {file} ELSE {})]

(* A removal that leaves the emptied sets behind.                          *)
RemoveReverseKeepsEmpty(index, file, ids) ==
    [id \in DOMAIN index |-> index[id] \ (IF id \in ids THEN {file} ELSE {})]

(* _removeReverse: an emptied set is dropped from the index.   *)
RemoveReverse(index, file, ids) ==
    [id \in {i \in DOMAIN index : i \in ids => index[i] \ {file} /= {}} |->
        IF id \in ids THEN index[id] \ {file} ELSE index[id]]

(* changedFunctions: added, dropped, or with another digest.               *)
ChangedFunctions(before, after) ==
    {id \in DOMAIN before \union DOMAIN after :
        \/ id \notin DOMAIN before \intersect DOMAIN after
        \/ before[id] /= after[id]}

(* One level of callers only: a plausible shortcut of the walk.            *)
DirectlyAffectedFiles(fs, index, changedFile, changed) ==
    {changedFile} \union UNION {Dependents(index, id) : id \in changed}

(* affectedFiles: breadth-first over the reverse index.  A file is         *)
(* expanded once, when it is first found; the changed file is in the       *)
(* result from the start, so it is never expanded: only the functions      *)
(* given as changed are followed out of it.  Round n holds what a queue    *)
(* of n levels has found; a level that finds no file is the last.          *)
AffectedFiles(fs, index, changedFile, changed) ==
    LET Found(s) == UNION {Dependents(index, id) : id \in s.functions} \ s.affected
        round[n \in 0..Cardinality(File)] ==
            IF n = 0
            THEN [affected |-> {changedFile}, functions |-> changed]
            ELSE LET s == round[n - 1]
                 IN  [affected |-> s.affected \union Found(s),
                      functions |-> s.functions \union
                          UNION {Declared(fs, f) : f \in Found(s)}]
    IN  round[Cardinality(File)].affected

-----------------------------------------------------------------------------
(* The operations as functions of the state: the files and the index after *)
(* the call, and what it returns.                                          *)

FilesAfterUpdate(fs, file, version, summaries, deps) ==
    With(fs, file, [version |-> version, functionSummaries |-> summaries,
                    dependencyFunctionIds |-> deps])

IndexAfterUpdate(fs, index, file, deps) ==
    AddReverse(RemoveReverse(index, file, DependsOn(fs, file)), file, deps)

SummariesOf(fs, file) ==
    IF file \in DOMAIN fs THEN fs[file].functionSummaries ELSE [id \in {} |-> {}]

-----------------------------------------------------------------------------
Init ==
    /\ files = [f \in {} |-> {}]
    /\ dependentsByFunction = [id \in {} |-> {}]
    /\ result = NoResult

(* updateFile: an unforced call with the version already held is a hit and *)
(* changes nothing.  The walk runs after the record and the index are      *)
(* replaced.                                                               *)
UpdateFile(file, version, summaries, deps, force) ==
    IF file \in DOMAIN files /\ files[file].version = version /\ ~force
    THEN /\ result' = CacheHit
         /\ UNCHANGED <<files, dependentsByFunction>>
    ELSE LET changed == ChangedFunctions(SummariesOf(files, file), summaries)
         IN  /\ files' = FilesAfterUpdate(files, file, version, summaries, deps)
             /\ dependentsByFunction' =
                    IndexAfterUpdate(files, dependentsByFunction, file, deps)
             /\ result' = Invalidation(file, changed,
                    AffectedFiles(files', dependentsByFunction', file, changed))

(* removeFile: every function of the file counts as changed.               *)
RemoveFile(file) ==
    IF file \notin DOMAIN files
    THEN /\ result' = NoResult
         /\ UNCHANGED <<files, dependentsByFunction>>
    ELSE /\ files' = Without(files, file)
         /\ dependentsByFunction' =
                RemoveReverse(dependentsByFunction, file, DependsOn(files, file))
         /\ result' = Invalidation(file, Declared(files, file),
                AffectedFiles(files', dependentsByFunction', file, Declared(files, file)))

(* replaceDependencies: the call graph was resolved again.                 *)
ReplaceDependencies(file, deps) ==
    /\ file \in DOMAIN files
    /\ files' = [files EXCEPT ![file].dependencyFunctionIds = deps]
    /\ dependentsByFunction' =
           IndexAfterUpdate(files, dependentsByFunction, file, deps)
    /\ result' = NoResult

Clear ==
    /\ files' = [f \in {} |-> {}]
    /\ dependentsByFunction' = [id \in {} |-> {}]
    /\ result' = NoResult

Next ==
    \/ \E file \in File, version \in Version, summaries \in Summaries,
          deps \in SUBSET FunctionId, force \in BOOLEAN :
            UpdateFile(file, version, summaries, deps, force)
    \/ \E file \in File : RemoveFile(file)
    \/ \E file \in File, deps \in SUBSET FunctionId : ReplaceDependencies(file, deps)
    \/ Clear

Spec == Init /\ [][Next]_vars
-----------------------------------------------------------------------------
TypeOK ==
    /\ DOMAIN files \subseteq File
    /\ \A f \in DOMAIN files : files[f] \in FileRecord
    /\ DOMAIN dependentsByFunction \subseteq FunctionId
    /\ \A id \in DOMAIN dependentsByFunction : dependentsByFunction[id] \subseteq File

(* index is the inverse of the dependencies held in fs, with no emptied    *)
(* entry left behind.                                                      *)
InverseOf(index, fs) ==
    /\ DOMAIN index = UNION {fs[f].dependencyFunctionIds : f \in DOMAIN fs}
    /\ \A id \in DOMAIN index :
           index[id] = {f \in DOMAIN fs : id \in fs[f].dependencyFunctionIds}

(* The reverse index is the exact inverse of the dependencies the records  *)
(* hold, whatever the order of updates, replacements and removals: a stale *)
(* entry would re-run files for nothing (and keep a removed file alive in  *)
(* every later walk), a missing one would leave a dependent with stale     *)
(* results.                                                                *)
ReverseIndexExact == InverseOf(dependentsByFunction, files)

(* A chain of files, each depending on a function of the one before it,    *)
(* the first on a changed function, none of them the changed file.         *)
DependentByChain(fs, changedFile, changed, file) ==
    \E n \in 1..Cardinality(DOMAIN fs) :
        \E chain \in [1..n -> DOMAIN fs \ {changedFile}] :
            /\ chain[n] = file
            /\ DependsOn(fs, chain[1]) \intersect changed /= {}
            /\ \A i \in 1..n - 1 :
                   DependsOn(fs, chain[i + 1]) \intersect Declared(fs, chain[i]) /= {}

(* A call that changes a file returns the file and exactly the files that  *)
(* depend on a function whose summary really differs between the state     *)
(* before and after the call, directly or through a chain of files: none   *)
(* is missed and none is re-analysed for nothing.                          *)
InvalidationExact ==
    [][\A file \in File :
         (files' /= files /\ result'.kind = "invalidation" /\ result'.file = file) =>
            LET before == SummariesOf(files, file)
                after == SummariesOf(files', file)
                changed == {id \in FunctionId :
                    \/ (id \in DOMAIN before) /= (id \in DOMAIN after)
                    \/ id \in DOMAIN before /\ id \in DOMAIN after /\ before[id] /= after[id]}
            IN  result'.invalidatedFiles =
                   {file} \union {f \in DOMAIN files' :
                                     DependentByChain(files', file, changed, f)}]_vars
=============================================================================
