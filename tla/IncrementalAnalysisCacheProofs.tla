------------------- MODULE IncrementalAnalysisCacheProofs -------------------
(***************************************************************************)
(* Type correctness and exactness of the reverse index, for every set of   *)
(* files, functions, versions and digests, and every sequence of calls.    *)
(***************************************************************************)
EXTENDS IncrementalAnalysisCache, TLAPS

(* Dropping a file's old dependencies from an exact index leaves the exact *)
(* index of the other files.                                               *)
LEMMA RemoveReverseExact ==
    ASSUME NEW fs, NEW index, NEW file, InverseOf(index, fs)
    PROVE  InverseOf(RemoveReverse(index, file, DependsOn(fs, file)), Without(fs, file))
<1> DEFINE old == DependsOn(fs, file)
           left == RemoveReverse(index, file, old)
           rest == Without(fs, file)
<1>1. DOMAIN left = {i \in DOMAIN index : i \in old => index[i] \ {file} /= {}}
  BY DEF RemoveReverse
<1>2. \A i \in DOMAIN left : left[i] = IF i \in old THEN index[i] \ {file} ELSE index[i]
  BY DEF RemoveReverse
<1>3. DOMAIN rest = DOMAIN fs \ {file} /\ \A f \in DOMAIN rest : rest[f] = fs[f]
  BY DEF Without
<1>4. \A i \in DOMAIN index : i \notin old => file \notin index[i]
  BY DEF DependsOn, InverseOf
<1>5. \A i \in DOMAIN left :
        left[i] = {f \in DOMAIN rest : i \in rest[f].dependencyFunctionIds}
  <2> SUFFICES ASSUME NEW i \in DOMAIN left
               PROVE  left[i] = {f \in DOMAIN rest : i \in rest[f].dependencyFunctionIds}
    OBVIOUS
  <2>1. left[i] = index[i] \ {file}
    BY <1>1, <1>2, <1>4
  <2>2. index[i] = {f \in DOMAIN fs : i \in fs[f].dependencyFunctionIds}
    BY <1>1 DEF InverseOf
  <2> QED
    BY <2>1, <2>2, <1>3
<1>6. DOMAIN left = UNION {rest[f].dependencyFunctionIds : f \in DOMAIN rest}
  <2>1. \A i \in DOMAIN left : left[i] /= {}
    <3> TAKE i \in DOMAIN left
    <3>1. CASE i \in old
      BY <3>1, <1>1, <1>2
    <3>2. CASE i \notin old
      <4>1. i \in DOMAIN index /\ left[i] = index[i]
        BY <3>2, <1>1, <1>2
      <4>2. PICK f \in DOMAIN fs : i \in fs[f].dependencyFunctionIds
        BY <4>1 DEF InverseOf
      <4> QED
        BY <4>1, <4>2 DEF InverseOf
    <3> QED
      BY <3>1, <3>2
  <2>2. DOMAIN left \subseteq UNION {rest[f].dependencyFunctionIds : f \in DOMAIN rest}
    BY <2>1, <1>5
  <2>3. ASSUME NEW f \in DOMAIN rest, NEW i \in rest[f].dependencyFunctionIds
        PROVE  i \in DOMAIN left
    <3>1. f \in DOMAIN fs /\ f /= file /\ i \in fs[f].dependencyFunctionIds
      BY <1>3
    <3>2. i \in DOMAIN index /\ f \in index[i]
      BY <3>1 DEF InverseOf
    <3> QED
      BY <3>1, <3>2, <1>1
  <2> QED
    BY <2>2, <2>3
<1> QED
  BY <1>5, <1>6 DEF InverseOf

(* Adding a file's dependencies to the exact index of the other files      *)
(* gives the exact index of all of them.                                   *)
LEMMA AddReverseExact ==
    ASSUME NEW fs, NEW rest, NEW index, NEW file \in DOMAIN fs,
           InverseOf(index, rest),
           DOMAIN rest = DOMAIN fs \ {file},
           \A f \in DOMAIN rest : rest[f] = fs[f]
    PROVE  InverseOf(AddReverse(index, file, fs[file].dependencyFunctionIds), fs)
<1> DEFINE deps == fs[file].dependencyFunctionIds
           all == AddReverse(index, file, deps)
<1>1. DOMAIN all = DOMAIN index \union deps
  BY DEF AddReverse
<1>2. \A i \in DOMAIN all :
        all[i] = Dependents(index, i) \union (IF i \in deps THEN {file} ELSE {})
  BY DEF AddReverse
<1>3. \A i : Dependents(index, i) = {f \in DOMAIN rest : i \in rest[f].dependencyFunctionIds}
  BY DEF Dependents, InverseOf
<1>4. \A i \in DOMAIN all : all[i] = {f \in DOMAIN fs : i \in fs[f].dependencyFunctionIds}
  BY <1>2, <1>3
<1>5. DOMAIN all = UNION {fs[f].dependencyFunctionIds : f \in DOMAIN fs}
  <2>1. DOMAIN index = UNION {rest[f].dependencyFunctionIds : f \in DOMAIN rest}
    BY DEF InverseOf
  <2>2. ASSUME NEW i \in DOMAIN all
        PROVE  i \in UNION {fs[f].dependencyFunctionIds : f \in DOMAIN fs}
    BY <1>1, <2>1
  <2>3. ASSUME NEW f \in DOMAIN fs, NEW i \in fs[f].dependencyFunctionIds
        PROVE  i \in DOMAIN all
    BY <1>1, <2>1
  <2> QED
    BY <2>2, <2>3
<1> QED
  BY <1>4, <1>5 DEF InverseOf

(* What an update, or a replacement of dependencies, does to the index.    *)
LEMMA UpdateExact ==
    ASSUME NEW fs, NEW next, NEW index, NEW file \in DOMAIN next,
           InverseOf(index, fs),
           DOMAIN next = DOMAIN fs \union {file},
           \A f \in DOMAIN next \ {file} : next[f] = fs[f]
    PROVE  InverseOf(IndexAfterUpdate(fs, index, file, next[file].dependencyFunctionIds), next)
<1> DEFINE rest == Without(fs, file)
<1>1. DOMAIN rest = DOMAIN next \ {file} /\ \A f \in DOMAIN rest : rest[f] = next[f]
  BY DEF Without
<1>2. InverseOf(RemoveReverse(index, file, DependsOn(fs, file)), rest)
  BY RemoveReverseExact
<1> QED
  BY <1>1, <1>2, AddReverseExact DEF IndexAfterUpdate

-----------------------------------------------------------------------------
(* Type correctness: every call leaves well-formed records and an index    *)
(* from known functions to known files.                                    *)
THEOREM TypeCorrect == Spec => []TypeOK
<1>1. Init => TypeOK
  BY DEF Init, TypeOK
<1>2. TypeOK /\ [Next]_vars => TypeOK'
  <2> SUFFICES ASSUME TypeOK, [Next]_vars PROVE TypeOK'
    OBVIOUS
  <2>1. ASSUME NEW file \in File, NEW version \in Version, NEW summaries \in Summaries,
               NEW deps \in SUBSET FunctionId, NEW force \in BOOLEAN,
               UpdateFile(file, version, summaries, deps, force)
        PROVE  TypeOK'
    <3>1. CASE UNCHANGED <<files, dependentsByFunction>>
      BY <3>1 DEF TypeOK
    <3>2. CASE ~ UNCHANGED <<files, dependentsByFunction>>
      <4>1. /\ files' = FilesAfterUpdate(files, file, version, summaries, deps)
            /\ dependentsByFunction' = IndexAfterUpdate(files, dependentsByFunction, file, deps)
        BY <2>1, <3>2 DEF UpdateFile
      <4>2. \A f \in DOMAIN files' : f \in File /\ files'[f] \in FileRecord
        BY <4>1 DEF TypeOK, FilesAfterUpdate, With, FileRecord
      <4>3. \A id \in DOMAIN dependentsByFunction' :
              id \in FunctionId /\ dependentsByFunction'[id] \subseteq File
        BY <4>1 DEF TypeOK, IndexAfterUpdate, AddReverse, RemoveReverse, Dependents
      <4> QED
        BY <4>2, <4>3 DEF TypeOK
    <3> QED
      BY <3>1, <3>2
  <2>2. ASSUME NEW file \in File, RemoveFile(file)
        PROVE  TypeOK'
    BY <2>2 DEF TypeOK, RemoveFile, Without, RemoveReverse
  <2>3. ASSUME NEW file \in File, NEW deps \in SUBSET FunctionId,
               ReplaceDependencies(file, deps)
        PROVE  TypeOK'
    <3>1. \A f \in DOMAIN files' : f \in File /\ files'[f] \in FileRecord
      BY <2>3 DEF TypeOK, ReplaceDependencies, FileRecord
    <3>2. \A id \in DOMAIN dependentsByFunction' :
            id \in FunctionId /\ dependentsByFunction'[id] \subseteq File
      BY <2>3 DEF TypeOK, ReplaceDependencies, IndexAfterUpdate, AddReverse,
                  RemoveReverse, Dependents
    <3> QED
      BY <3>1, <3>2 DEF TypeOK
  <2>4. CASE Clear
    BY <2>4 DEF TypeOK, Clear
  <2>5. CASE UNCHANGED vars
    BY <2>5 DEF TypeOK, vars
  <2> QED
    BY <2>1, <2>2, <2>3, <2>4, <2>5 DEF Next
<1> QED
  BY <1>1, <1>2, PTL DEF Spec

(* The reverse index stays the exact inverse of the dependencies, whatever *)
(* the order of updates, removals, replacements and clears.  Inductive     *)
(* relative to TypeOK, which says that every record has its dependencies.  *)
THEOREM ReverseIndexIsExact == Spec => []ReverseIndexExact
<1>1. Init => ReverseIndexExact
  BY DEF Init, ReverseIndexExact, InverseOf
<1>2. TypeOK /\ ReverseIndexExact /\ [Next]_vars => ReverseIndexExact'
  <2> SUFFICES ASSUME TypeOK, ReverseIndexExact, [Next]_vars PROVE ReverseIndexExact'
    OBVIOUS
  <2>1. ASSUME NEW file \in File, NEW version \in Version, NEW summaries \in Summaries,
               NEW deps \in SUBSET FunctionId, NEW force \in BOOLEAN,
               UpdateFile(file, version, summaries, deps, force)
        PROVE  ReverseIndexExact'
    <3>1. CASE UNCHANGED <<files, dependentsByFunction>>
      BY <3>1 DEF ReverseIndexExact
    <3>2. CASE ~ UNCHANGED <<files, dependentsByFunction>>
      <4> DEFINE next == FilesAfterUpdate(files, file, version, summaries, deps)
      <4>1. /\ files' = next
            /\ dependentsByFunction' = IndexAfterUpdate(files, dependentsByFunction, file, deps)
        BY <2>1, <3>2 DEF UpdateFile
      <4>2. /\ DOMAIN next = DOMAIN files \union {file}
            /\ \A f \in DOMAIN next \ {file} : next[f] = files[f]
            /\ next[file].dependencyFunctionIds = deps
        BY DEF FilesAfterUpdate, With
      <4>3. InverseOf(IndexAfterUpdate(files, dependentsByFunction, file, deps), next)
        <5> HIDE DEF next
        <5> QED
          BY <4>2, UpdateExact DEF ReverseIndexExact
      <4> QED
        BY <4>1, <4>3 DEF ReverseIndexExact
    <3> QED
      BY <3>1, <3>2
  <2>2. ASSUME NEW file \in File, RemoveFile(file)
        PROVE  ReverseIndexExact'
    <3>1. CASE file \notin DOMAIN files
      BY <2>2, <3>1 DEF RemoveFile, ReverseIndexExact
    <3>2. CASE file \in DOMAIN files
      <4>1. /\ files' = Without(files, file)
            /\ dependentsByFunction' =
                   RemoveReverse(dependentsByFunction, file, DependsOn(files, file))
        BY <2>2, <3>2 DEF RemoveFile
      <4> QED
        BY <4>1, RemoveReverseExact DEF ReverseIndexExact
    <3> QED
      BY <3>1, <3>2
  <2>3. ASSUME NEW file \in File, NEW deps \in SUBSET FunctionId,
               ReplaceDependencies(file, deps)
        PROVE  ReverseIndexExact'
    <3> DEFINE next == [files EXCEPT ![file].dependencyFunctionIds = deps]
    <3>1. /\ file \in DOMAIN files
          /\ files' = next
          /\ dependentsByFunction' = IndexAfterUpdate(files, dependentsByFunction, file, deps)
      BY <2>3 DEF ReplaceDependencies
    <3>2. /\ DOMAIN next = DOMAIN files \union {file}
          /\ \A f \in DOMAIN next \ {file} : next[f] = files[f]
      BY <3>1
    <3>3. next[file].dependencyFunctionIds = deps
      BY <3>1 DEF TypeOK, FileRecord
    <3>4. InverseOf(IndexAfterUpdate(files, dependentsByFunction, file, deps), next)
      <4> HIDE DEF next
      <4> QED
        BY <3>1, <3>2, <3>3, UpdateExact DEF ReverseIndexExact
    <3> QED
      BY <3>1, <3>4 DEF ReverseIndexExact
  <2>4. CASE Clear
    BY <2>4 DEF Clear, ReverseIndexExact, InverseOf
  <2>5. CASE UNCHANGED vars
    BY <2>5 DEF vars, ReverseIndexExact
  <2> QED
    BY <2>1, <2>2, <2>3, <2>4, <2>5 DEF Next
<1> QED
  BY <1>1, <1>2, TypeCorrect, PTL DEF Spec
=============================================================================
