----------------------------- MODULE ProjectScopes ----------------------------
(* Which root answers for a file: the worker searches a workspace root by   *)
(* root, each with the settings of its folder (dataflow/pipeline.js), the   *)
(* types and rules of its configuration root (dataflow/ir-adapter.js,       *)
(* config/configuration-scope.js). A request carries the folders open when  *)
(* it is made, and the configuration roots of the last reload               *)
(* (audit-session.js, _flowOptions). A path is the sequence of its names.   *)
EXTENDS Integers, Sequences, FiniteSets, SequencesExt

CONSTANTS
    Folders,    \* what may be opened in the workspace: paths, some nested
    Sources     \* the files, in the order of the analyses, a function in each

ASSUME FoldersArePaths == Folders \subseteq Seq(STRING) \ {<<>>}
ASSUME SourcesArePaths == Sources \in Seq(Seq(STRING))

VARIABLES
    open,       \* the folders of the workspace, in their order
    rooted,     \* projectConfigurationsByRoot: the roots, in their order
    searches,   \* of a request just answered: each group, its functions and its settings
    scopes      \* of that request: of each function, its types and rules
scopeVars == <<open, rooted, searches, scopes>>

None == <<>>
Within(root, path) == IsPrefix(root, path)

(* workspaceRootForAbsolutePath, rootFor: the longest root around the path; *)
(* a slip takes the first.                                                  *)
Earliest(indexes) == CHOOSE i \in indexes : \A j \in indexes : i <= j
EarliestRoot(roots, path) ==
    LET around == {i \in DOMAIN roots : Within(roots[i], path)}
    IN  IF around = {} THEN None ELSE roots[Earliest(around)]
RootFor(roots, path) ==
    LET around == {r \in ToSet(roots) : Within(r, path)}
    IN  IF around = {} THEN None ELSE CHOOSE r \in around : \A s \in around : Len(s) <= Len(r)

(* analysisSettingsForAbsolutePath: settings are named by their folder,     *)
(* those of the request itself by None.                                     *)
SettingsFor(path) == RootFor(open, path)

(* functionsFromAnalyses: a function sees the types of its root.            *)
WorkspaceRoot(path) == RootFor(rooted, path)
TypesOf(path) == {i \in DOMAIN Sources : WorkspaceRoot(Sources[i]) = WorkspaceRoot(path)}

(* scopedPathResults: functions are grouped by their configuration root, or *)
(* by folder where there is none; a group has the settings of its first.    *)
GroupOf(path) == IF WorkspaceRoot(path) # None THEN WorkspaceRoot(path) ELSE RootFor(open, path)
Group(path) == {i \in DOMAIN Sources : GroupOf(Sources[i]) = GroupOf(path)}
ScopedPathResults ==
    IF open = <<>> THEN {[functions |-> DOMAIN Sources, settings |-> None]}
    ELSE {[functions |-> g, settings |-> SettingsFor(Sources[Earliest(g)])] : g \in {Group(p) : p \in ToSet(Sources)}}

ScopesInit == open = <<>> /\ rooted = <<>> /\ searches = {} /\ scopes = <<>>

Unanswered == searches' = {} /\ scopes' = <<>>

OpenFolder ==
    /\ \E f \in Folders \ ToSet(open), i \in 1..Len(open) + 1 : open' = InsertAt(open, i, f)
    /\ Unanswered /\ UNCHANGED rooted
CloseFolder ==
    /\ \E i \in DOMAIN open : open' = RemoveAt(open, i)
    /\ Unanswered /\ UNCHANGED rooted
(* reloadProjectConfiguration                                               *)
ReloadRoots == rooted' = open /\ Unanswered /\ UNCHANGED open

(* runDataflowAnalysis, with the options of the request; rules are those of *)
(* the root of the sink (configurationForAbsolutePath).                     *)
RunDataflowAnalysis ==
    /\ searches' = ScopedPathResults
    /\ scopes' = [i \in DOMAIN Sources |-> [types |-> TypesOf(Sources[i]), rules |-> RootFor(rooted, Sources[i])]]
    /\ UNCHANGED <<open, rooted>>

ScopesNext == OpenFolder \/ CloseFolder \/ ReloadRoots \/ RunDataflowAnalysis
ScopesSpec == ScopesInit /\ [][ScopesNext]_scopeVars

(* The folder whose settings the user reads for a file.                     *)
Answers(folder, path) ==
    IF folder = None THEN \A f \in ToSet(open) : ~Within(f, path)
    ELSE /\ folder \in ToSet(open) /\ Within(folder, path)
         /\ \A f \in ToSet(open) : Within(f, path) => Within(f, folder)

(* Every function is searched once, and with the settings of the innermost  *)
(* folder around its file, though groups are made by the roots of the last  *)
(* reload and folders opened or closed since; a folder opened since, inside *)
(* a root, is the exception. Its rules and types are those of its root as   *)
(* reloaded, which no file of another root shares.                          *)
EachFunctionInItsScope ==
    [][RunDataflowAnalysis =>
        \A i \in DOMAIN Sources :
            LET found == {s \in searches' : i \in s.functions}
            IN  /\ Cardinality(found) = 1
                /\ ToSet(open) \subseteq ToSet(rooted) => \A s \in found : Answers(s.settings, Sources[i])
                /\ open = rooted => Answers(scopes'[i].rules, Sources[i])
                /\ open = rooted =>
                    \A j \in scopes'[i].types : \A f \in ToSet(open) : Within(f, Sources[i]) <=> Within(f, Sources[j])]_scopeVars
===============================================================================
