---------------------------- MODULE VersionShelf ----------------------------
(***************************************************************************)
(* What Core promises about the versions of artifacts (docs/adr/0002 and   *)
(* docs/development/artifact.md): a version that was confirmed stays until *)
(* its artifact is purged from the trash, what was aborted or has expired  *)
(* never comes back, and of an artifact one can see the version one gets   *)
(* is the last that was confirmed.                                         *)
(***************************************************************************)
CONSTANTS
  Versions,
  Artifacts,
  ArtifactOf,
  NoVersion

VARIABLES
  fate,       \* of a version: "none", "open", "failed", "ended", "kept" or "purged"
  shelf,      \* of an artifact: "none", "shown", "trashed" or "purged"
  current     \* the version one gets of an artifact on the shelf

shelfVars == <<fate, shelf, current>>

VersionsOf(a) == {v \in Versions : ArtifactOf[v] = a}

ShelfInit ==
  /\ fate = [v \in Versions |-> "none"]
  /\ shelf = [a \in Artifacts |-> "none"]
  /\ current = [a \in Artifacts |-> NoVersion]

\* The first version of an artifact, or one more of an artifact on the shelf.
Wanted(v) ==
  /\ fate[v] = "none"
  /\ \/ \A w \in VersionsOf(ArtifactOf[v]) : fate[w] = "none"
     \/ shelf[ArtifactOf[v]] = "shown"

Begin(v) ==
  /\ Wanted(v)
  /\ fate' = [fate EXCEPT ![v] = "open"]
  /\ UNCHANGED <<shelf, current>>

Keep(v) ==
  /\ Wanted(v) \/ fate[v] = "open"
  /\ shelf[ArtifactOf[v]] \in {"none", "shown"}
  /\ fate' = [fate EXCEPT ![v] = "kept"]
  /\ shelf' = [shelf EXCEPT ![ArtifactOf[v]] = "shown"]
  /\ current' = [current EXCEPT ![ArtifactOf[v]] = v]

\* A failed version may be tried again.
Fail(v) ==
  /\ fate[v] = "open"
  /\ fate' = [fate EXCEPT ![v] = "failed"]
  /\ UNCHANGED <<shelf, current>>

Retry(v) ==
  /\ fate[v] = "failed"
  /\ fate' = [fate EXCEPT ![v] = "open"]
  /\ UNCHANGED <<shelf, current>>

End(ended) ==
  /\ \A v \in ended : fate[v] \in {"open", "failed"}
  /\ fate' = [v \in Versions |-> IF v \in ended THEN "ended" ELSE fate[v]]
  /\ UNCHANGED <<shelf, current>>

\* Nothing is thrown away while a version of it is on its way.
Trash(a) ==
  /\ shelf[a] = "shown"
  /\ \A v \in VersionsOf(a) : fate[v] # "open"
  /\ shelf' = [shelf EXCEPT ![a] = "trashed"]
  /\ UNCHANGED <<fate, current>>

TakeBack(a) ==
  /\ shelf[a] = "trashed"
  /\ shelf' = [shelf EXCEPT ![a] = "shown"]
  /\ UNCHANGED <<fate, current>>

Purge(a) ==
  /\ shelf[a] = "trashed"
  /\ shelf' = [shelf EXCEPT ![a] = "purged"]
  /\ current' = [current EXCEPT ![a] = NoVersion]
  /\ fate' = [v \in Versions |-> IF v \in VersionsOf(a) /\ fate[v] # "none" THEN "purged" ELSE fate[v]]

ShelfNext ==
  \/ \E v \in Versions : Begin(v) \/ Keep(v) \/ Fail(v) \/ Retry(v)
  \/ \E ended \in SUBSET Versions : End(ended)
  \/ \E a \in Artifacts : Trash(a) \/ TakeBack(a) \/ Purge(a)

ShelfSpec == ShelfInit /\ [][ShelfNext]_shelfVars
=============================================================================
