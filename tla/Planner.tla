------------------------------- MODULE Planner -------------------------------
(***************************************************************************)
(* The planner (ttsync-core/src/plan.rs): the difference of two manifests. *)
(* A manifest is a function from the paths it lists to their size and      *)
(* modification time; validate_manifest_scope rejects duplicate paths and  *)
(* paths outside the selection, so a function over a subset of the scope   *)
(* is every manifest that reaches compute_plan.                            *)
(***************************************************************************)
EXTENDS Naturals

CONSTANTS
  Paths,        \* paths of synced files (SyncPath)
  Namespaces,   \* database namespace directories
  NamespaceOf,  \* namespace_directory: a path's namespace, or Plain
  Plain         \* an ordinary file

ASSUME PlannerAssumption ==
  /\ Plain \notin Namespaces
  /\ NamespaceOf \in [Paths -> Namespaces \cup {Plain}]

Modes == {"incremental", "mirror"}
Policies == {"exact", "prefer_newer"}

Entry == [size : Nat, mtime : Nat]

Listed(manifest) == DOMAIN manifest

(* Mutant: any newer file keeps the namespace from being replaced. *)
PreservedByAny(source, target, overwrite, n) ==
  /\ overwrite = "prefer_newer"
  /\ \E p \in Listed(target), q \in Listed(source) :
       NamespaceOf[p] = n /\ NamespaceOf[q] = n /\ target[p].mtime > source[q].mtime

(* preserved_databases: both sides have the namespace, and the maximum of  *)
(* database_mtimes is strictly greater on the target.                      *)
Preserved(source, target, overwrite, n) ==
  /\ overwrite = "prefer_newer"
  /\ \E p \in Listed(source) : NamespaceOf[p] = n
  /\ \E p \in Listed(target) :
       /\ NamespaceOf[p] = n
       /\ \A q \in Listed(source) :
            NamespaceOf[q] = n => target[p].mtime > source[q].mtime

KeepsNamespace(source, target, overwrite, p) ==
  NamespaceOf[p] # Plain /\ Preserved(source, target, overwrite, NamespaceOf[p])

(* Mutant: files of the same time but different sizes count as unchanged. *)
OutdatedUnlessTie(source, target, overwrite, p) ==
  /\ source[p].size # target[p].size \/ source[p].mtime # target[p].mtime
  /\ overwrite = "prefer_newer" => target[p].mtime < source[p].mtime

(* Mutant: the overwrite policy is ignored. *)
OutdatedExact(source, target, overwrite, p) ==
  source[p].size # target[p].size \/ source[p].mtime # target[p].mtime

(* transfer_needed, for an ordinary file both sides have. *)
Outdated(source, target, overwrite, p) ==
  /\ source[p].size # target[p].size \/ source[p].mtime # target[p].mtime
  /\ overwrite = "prefer_newer" => target[p].mtime <= source[p].mtime

(* transfer_needed *)
TransferNeeded(source, target, overwrite, p) ==
  IF NamespaceOf[p] # Plain
    THEN ~KeepsNamespace(source, target, overwrite, p)
    ELSE p \in Listed(target) => Outdated(source, target, overwrite, p)

(* compute_plan: SyncPlan.transfer and SyncPlan.delete.  Deletions in the  *)
(* scope of the manifests always pass allows_delete.                       *)
Transfer(source, target, overwrite) ==
  {p \in Listed(source) : TransferNeeded(source, target, overwrite, p)}

Delete(source, target, mode, overwrite) ==
  {p \in Listed(target) \ Listed(source) :
     mode = "mirror" /\ ~KeepsNamespace(source, target, overwrite, p)}
=============================================================================
