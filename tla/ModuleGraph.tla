---------------------------- MODULE ModuleGraph ----------------------------
(***************************************************************************)
(* The module graph of the TypeScript project                              *)
(* (src/src/frontends/typescript-compiler.js): which file each import of a *)
(* file resolves to, kept for every file of the project, with the reverse  *)
(* map from which the consumers of a changed file are found.               *)
(*                                                                         *)
(* A project is [files, dependencies, dependents]: the text of each file   *)
(* of the project, with the specifiers it imports, the files these resolve *)
(* to, and the reverse.                                                    *)
(* The compiled programs are a cache of what the checker computes from the *)
(* files, emptied whenever a file changes, and hold no state of their own. *)
(***************************************************************************)
EXTENDS Integers, FiniteSets, Sequences

CONSTANTS
    File,        \* files of JavaScript and TypeScript
    Candidates   \* [specifiers -> the files a specifier may mean, best first]

NoFile == [f \in {} |-> {}]
EmptyProject == [files |-> NoFile, dependencies |-> NoFile, dependents |-> NoFile]

Lookup(map, key) == IF key \in DOMAIN map THEN map[key] ELSE {}

(* resolveVirtualModule: the first candidate that the project has.         *)
ResolveVirtualModule(present, specifier) ==
    LET hits == {i \in DOMAIN Candidates[specifier] : Candidates[specifier][i] \in present}
    IN  {Candidates[specifier][i] : i \in {n \in hits : \A m \in hits : n <= m}}

DependenciesOf(files, f) ==
    UNION {ResolveVirtualModule(DOMAIN files, s) : s \in files[f].imports} \ {f}

(* _removeModuleDependencies and what _replaceModuleDependencies adds for  *)
(* one file, the others' entries left as they are.                         *)
ReplaceModuleDependencies(project, f) ==
    LET old == Lookup(project.dependencies, f)
        new == DependenciesOf(project.files, f)
        keys == DOMAIN project.dependents \union new
        reverse == [g \in keys |->
            (IF g \in old THEN Lookup(project.dependents, g) \ {f} ELSE Lookup(project.dependents, g))
                \union (IF g \in new THEN {f} ELSE {})]
    IN  [project EXCEPT
            !.dependencies = [g \in DOMAIN @ \union {f} |-> IF g = f THEN new ELSE @[g]],
            !.dependents = [g \in {k \in keys : reverse[k] /= {}} |-> reverse[g]]]

(* _rebuildModuleDependencies: every file of the project, from nothing.    *)
RebuildModuleDependencies(files) ==
    LET dependencies == [f \in DOMAIN files |-> DependenciesOf(files, f)]
    IN  [files |-> files,
         dependencies |-> dependencies,
         dependents |-> [g \in UNION {dependencies[f] : f \in DOMAIN files} |->
                            {f \in DOMAIN files : g \in dependencies[f]}]]


(* update: a file new to the project may be what an import of any other    *)
(* file means from now on.                                                 *)
UpdateProject(project, f, text) ==
    LET stored == [g \in DOMAIN project.files \union {f} |->
                      IF g = f THEN text ELSE project.files[g]]
    IN  IF f \in DOMAIN project.files
        THEN ReplaceModuleDependencies([project EXCEPT !.files = stored], f)
        ELSE RebuildModuleDependencies(stored)

RemoveFromProject(project, f) ==
    IF f \in DOMAIN project.files
    THEN RebuildModuleDependencies([g \in DOMAIN project.files \ {f} |-> project.files[g]])
    ELSE project

(* dependentsOf: all consumers, through any number of re-exports.          *)
DependentsOf(project, f) ==
    LET round[n \in 0..Cardinality(File)] ==
            IF n = 0 THEN Lookup(project.dependents, f)
            ELSE round[n - 1] \union UNION {Lookup(project.dependents, g) : g \in round[n - 1] \ {f}}
    IN  round[Cardinality(File)] \ {f}

(* canAnalyzeIsolated: a file the project knows, which imports nothing and *)
(* which nothing imports, before the update and in the new text.           *)
CanAnalyzeIsolated(project, f, text) ==
    /\ f \in DOMAIN project.files
    /\ Lookup(project.dependencies, f) = {}
    /\ Lookup(project.dependents, f) = {}
    /\ text.imports = {}
=============================================================================
