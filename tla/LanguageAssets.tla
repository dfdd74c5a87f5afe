--------------------------- MODULE LanguageAssets ---------------------------
(***************************************************************************)
(* The grammar packs of src/assets/language-assets.js and the parsers of   *)
(* src/frontends/tree-sitter-runtime.js built from them: one asset in a    *)
(* cache directory that the workers of several windows share.              *)
(*                                                                         *)
(* A worker asks for the asset when a file of the language is to be        *)
(* parsed.  The asset is served from the directory when its marker and     *)
(* every file have the digests of the worker's manifest; otherwise the     *)
(* pack is fetched, unpacked into a temporary directory of the worker's    *)
(* own, the shared directory is removed name by name and the temporary     *)
(* one renamed into its place.  A worker may be terminated between any two *)
(* steps.                                                                  *)
(***************************************************************************)
EXTENDS Naturals, FiniteSets

CONSTANTS Workers,      \* workers, of windows that share the global storage
          Files,        \* files of the asset
          Grammar,      \* the one of them the parser is built from
          Marker,       \* .installed.json
          Packs,        \* packs: the digests a manifest may name
          ManifestOf,   \* the pack the manifest of a worker names
          Damaged,      \* content no manifest names
          Missing,      \* no file
          MaxFailures,  \* bound: fetches that fail
          MaxCrashes    \* bound: workers terminated

Names == Files \union {Marker}
Contents == Packs \union {Damaged, Missing}

VARIABLES
  made,      \* the directory of the asset exists
  on,        \* its content: what is under each name
  at,        \* where each worker is
  todo,      \* names still to be verified or removed
  ready,     \* LanguageAssetManager.ready has the asset
  failure,   \* LanguageAssetManager.failures has a recent failure
  parser,    \* the grammar in TreeSitterRuntime.parsers
  failures, crashes

disk == <<made, on>>
vars == <<made, on, at, todo, ready, failure, parser, failures, crashes>>

Installing == {"listing", "removing", "renaming", "materializing"}
Steps == {"idle", "reading", "verifying", "fetching", "loading"} \union Installing

(* What is left of earlier sessions may be any directory: a pack of        *)
(* another version, one removed halfway, a damaged one.                    *)
Init ==
  /\ on \in [Names -> Contents]
  /\ made \in {m \in BOOLEAN : m \/ on = [n \in Names |-> Missing]}
  /\ at = [w \in Workers |-> "idle"]
  /\ todo = [w \in Workers |-> {}]
  /\ ready = [w \in Workers |-> FALSE]
  /\ failure = [w \in Workers |-> FALSE]
  /\ parser = [w \in Workers |-> Missing]
  /\ failures = 0 /\ crashes = 0

Go(w, step, names) ==
  /\ at' = [at EXCEPT ![w] = step]
  /\ todo' = [todo EXCEPT ![w] = names]

(* ensure() rejects: the file is parsed by the pattern frontend, and no    *)
(* attempt is made before the backoff is over.                             *)
Fail(w) ==
  /\ Go(w, "idle", {})
  /\ failure' = [failure EXCEPT ![w] = TRUE]
  /\ UNCHANGED ready

(* ensure() resolves: the runtime goes on to load the grammar.             *)
Serve(w) ==
  /\ Go(w, "loading", {})
  /\ ready' = [ready EXCEPT ![w] = TRUE]
  /\ failure' = [failure EXCEPT ![w] = FALSE]

Whole == \A f \in Files : on[f] # Missing

(* A slip: the files are taken to be there whole because the marker is.     *)
VerifiedPresent(w, name) ==
  IF name = Marker THEN on[name] = ManifestOf[w] ELSE on[name] # Missing

Verified(w, name) == on[name] = ManifestOf[w]

-----------------------------------------------------------------------------
(* A file is parsed and there is no parser of its language yet.  A recent  *)
(* failure is checked before the asset that is ready.                      *)
Ask(w) ==
  /\ at[w] = "idle" /\ parser[w] = Missing /\ ~failure[w]
  /\ Go(w, IF ready[w] THEN "loading" ELSE "reading", {})
  /\ UNCHANGED <<disk, ready, failure, parser, failures, crashes>>

ReadMarker(w) ==
  /\ at[w] = "reading"
  /\ IF Verified(w, Marker) THEN Go(w, "verifying", Files) ELSE Go(w, "fetching", {})
  /\ UNCHANGED <<disk, ready, failure, parser, failures, crashes>>

VerifyFile(w) ==
  /\ at[w] = "verifying"
  /\ \E f \in todo[w] :
       IF Verified(w, f) THEN Go(w, "verifying", todo[w] \ {f}) ELSE Go(w, "fetching", {})
  /\ UNCHANGED <<disk, ready, failure, parser, failures, crashes>>

ServeCached(w) ==
  /\ at[w] = "verifying" /\ todo[w] = {}
  /\ IF Whole THEN Serve(w) ELSE Go(w, "fetching", {}) /\ UNCHANGED <<ready, failure>>
  /\ UNCHANGED <<disk, parser, failures, crashes>>

(* The pack is read or downloaded; one whose digest is not the manifest's  *)
(* is refused before anything is written.                                  *)
Fetch(w) ==
  /\ at[w] = "fetching"
  /\ Go(w, "listing", {})
  /\ UNCHANGED <<disk, ready, failure, parser, failures, crashes>>

FetchFails(w) ==
  /\ at[w] = "fetching" /\ failures < MaxFailures
  /\ failures' = failures + 1
  /\ Fail(w)
  /\ UNCHANGED <<disk, parser, crashes>>

(* fs.rm lists the directory, removes each name it has listed, and then    *)
(* the directory, which must be empty by then.                             *)
ListTarget(w) ==
  /\ at[w] = "listing"
  /\ IF made THEN Go(w, "removing", {n \in Names : on[n] # Missing}) ELSE Go(w, "renaming", {})
  /\ UNCHANGED <<disk, ready, failure, parser, failures, crashes>>

RemoveName(w) ==
  /\ at[w] = "removing"
  /\ \E n \in todo[w] :
       /\ on' = [on EXCEPT ![n] = Missing]
       /\ Go(w, "removing", todo[w] \ {n})
  /\ UNCHANGED <<made, ready, failure, parser, failures, crashes>>

Emptied == \A n \in Names : on[n] = Missing

RemoveTarget(w) ==
  /\ at[w] = "removing" /\ todo[w] = {}
  /\ IF Emptied
       THEN made' = FALSE /\ Go(w, "renaming", {}) /\ UNCHANGED <<ready, failure>>
       ELSE UNCHANGED made /\ Fail(w)
  /\ UNCHANGED <<on, parser, failures, crashes>>

(* The temporary directory holds the whole pack and its marker.  It cannot *)
(* take the place of a directory that is not empty.                        *)
RenameTemporary(w) ==
  /\ at[w] = "renaming"
  /\ IF Emptied
       THEN /\ made' = TRUE
            /\ on' = [n \in Names |-> ManifestOf[w]]
            /\ Go(w, "materializing", {})
            /\ UNCHANGED <<ready, failure>>
       ELSE UNCHANGED disk /\ Fail(w)
  /\ UNCHANGED <<parser, failures, crashes>>

ServeInstalled(w) ==
  /\ at[w] = "materializing"
  /\ IF Whole THEN Serve(w) ELSE Fail(w)
  /\ UNCHANGED <<disk, parser, failures, crashes>>

(* The grammar is read again from its path.  What is no grammar fails to   *)
(* load, and the asset stays ready.                                        *)
LoadGrammar(w) ==
  /\ at[w] = "loading"
  /\ parser' = [parser EXCEPT ![w] = IF on[Grammar] = Damaged THEN Missing ELSE on[Grammar]]
  /\ Go(w, "idle", {})
  /\ UNCHANGED <<disk, ready, failure, failures, crashes>>

BackoffEnds(w) ==
  /\ failure[w]
  /\ failure' = [failure EXCEPT ![w] = FALSE]
  /\ UNCHANGED <<disk, at, todo, ready, parser, failures, crashes>>

(* The worker is terminated; the next request starts another one, which    *)
(* knows nothing but the disk.                                             *)
Crash(w) ==
  /\ crashes < MaxCrashes
  /\ crashes' = crashes + 1
  /\ Go(w, "idle", {})
  /\ ready' = [ready EXCEPT ![w] = FALSE]
  /\ failure' = [failure EXCEPT ![w] = FALSE]
  /\ parser' = [parser EXCEPT ![w] = Missing]
  /\ UNCHANGED <<disk, failures>>

Step(w) ==
  \/ Ask(w) \/ ReadMarker(w) \/ VerifyFile(w) \/ ServeCached(w) \/ Fetch(w) \/ FetchFails(w)
  \/ ListTarget(w) \/ RemoveName(w) \/ RemoveTarget(w) \/ RenameTemporary(w)
  \/ ServeInstalled(w) \/ LoadGrammar(w) \/ BackoffEnds(w)

Next == \E w \in Workers : Step(w) \/ Crash(w)

Spec == Init /\ [][Next]_vars /\ \A w \in Workers : WF_vars(Step(w))

-----------------------------------------------------------------------------
TypeOK ==
  /\ made \in BOOLEAN /\ on \in [Names -> Contents]
  /\ at \in [Workers -> Steps] /\ todo \in [Workers -> SUBSET Names]
  /\ ready \in [Workers -> BOOLEAN] /\ failure \in [Workers -> BOOLEAN]
  /\ parser \in [Workers -> Packs \union {Missing}]
  /\ failures \in 0 .. MaxFailures /\ crashes \in 0 .. MaxCrashes

(* A grammar that was loaded is the one of the worker's manifest, whatever *)
(* an earlier session or a worker that was terminated left on the disk,    *)
(* and whoever removed or replaced the directory between the check of its  *)
(* files and the load.                                                     *)
LoadedFromOwnPack == \A w \in Workers : parser[w] \in {Missing, ManifestOf[w]}

(* Workers whose installations do not for ever fall together, as those     *)
(* that wait half a minute after a failure will not, all end up with their *)
(* parser, from any disk.                                                  *)
InstallsApart == Cardinality({w \in Workers : at[w] \in Installing}) =< 1

EveryWorkerParses ==
  <>[]InstallsApart => <>[](\A w \in Workers : parser[w] # Missing)

=============================================================================
