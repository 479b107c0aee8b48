--------------------------- MODULE DatasetPolicy ---------------------------
(***************************************************************************)
(* Which files a selection of datasets covers (ttsync-core/src/dataset):   *)
(* the catalog, the rules that match a file and those that decide whether  *)
(* a directory is worth entering, the profiles, and the boundary at which  *)
(* pruning stops.                                                          *)
(*                                                                         *)
(* A path is the sequence of its components.  The catalog has one or two   *)
(* datasets of every shape; the other ones differ in their names only.     *)
(***************************************************************************)
EXTENDS SequencesExt

IsSameOrUnder(path, prefix) == IsPrefix(prefix, path)

(* Names that start with ".tmp-" or end with ".ttsync.tmp", and ".staging". *)
ExcludedComponents == {".staging", ".tmp-write", "chat.jsonl.ttsync.tmp"}

GlobalExcludedPrefixes ==
  {<<"default-user", "user", "lan-sync">>, <<"_tauritavern", "prompt-cache">>,
   <<"_tauritavern", ".ios-policy.json">>, <<"_cache">>}

IsGloballyExcluded(path) ==
  \/ \E prefix \in GlobalExcludedPrefixes : IsSameOrUnder(path, prefix)
  \/ \E i \in DOMAIN path : path[i] \in ExcludedComponents

-----------------------------------------------------------------------------
(* Databases: db-<name>/database.tdb and its companions, but not the lock  *)
(* and not a temporary file.                                               *)

DatabaseRoot == <<"_tauritavern", "databases">>

NamespaceNames == {"db-a"}

DatabaseFiles == {"database.tdb", "database.tdb.wal"}

IsDatabaseFile(path) ==
  /\ Len(path) = 4 /\ IsPrefix(DatabaseRoot, path)
  /\ path[3] \in NamespaceNames /\ path[4] \in DatabaseFiles

-----------------------------------------------------------------------------
(* Agent workspaces: chats/<workspace>/<component>/..., where the          *)
(* component "runs" holds a directory per run.                             *)

Chats == <<"_tauritavern", "agent-workspaces", "chats">>

RunIndex == <<"_tauritavern", "agent-workspaces", "index", "runs">>

IsAgentRunRootDir(path) == Len(path) = 6 /\ IsPrefix(Chats, path) /\ path[5] = "runs"

(* Names that end with ".json". *)
JsonNames == {"run-1.json", "run-2.json"}

IsAgentRunIndexFile(path) ==
  Len(path) = 5 /\ IsPrefix(RunIndex, path) /\ path[5] \in JsonNames

IsAgentWorkspacePath(path) == Len(path) > 4 /\ IsPrefix(Chats, path)

IsAgentRunPath(path) == IsAgentWorkspacePath(path) /\ path[5] = "runs"

MatchesWorkspacePrefix(dir) == IsPrefix(dir, Chats) \/ IsPrefix(Chats, dir)

-----------------------------------------------------------------------------
(* Rules. *)

Prefix(dir) == [rule |-> "Prefix", dir |-> dir]
Database == [rule |-> "Database"]
AgentWorkspaceComponent(name) == [rule |-> "AgentWorkspaceComponent", name |-> name]
AgentRunFile(name) == [rule |-> "AgentRunFile", name |-> name]
AgentRunComponent(name) == [rule |-> "AgentRunComponent", name |-> name]

Matches(r, path) ==
  CASE r.rule = "Database" -> IsDatabaseFile(path)
    [] r.rule = "Prefix" -> IsSameOrUnder(path, r.dir)
    [] r.rule = "AgentWorkspaceComponent" ->
         IsAgentWorkspacePath(path) /\ Len(path) > 5 /\ path[5] = r.name
    [] r.rule = "AgentRunFile" ->
         IsAgentRunPath(path) /\ Len(path) = 7 /\ path[7] = r.name
    [] r.rule = "AgentRunComponent" ->
         IsAgentRunPath(path) /\ Len(path) > 6 /\ path[7] = r.name

AgentWorkspaceComponentMayContain(dir, component) ==
  MatchesWorkspacePrefix(dir) /\ (Len(dir) > 4 => dir[5] = component)

(* Mutant: the directory of a run is taken for one of its subdirectories. *)
AgentRunFileMayContainAbove(dir) ==
  MatchesWorkspacePrefix(dir) /\ Len(dir) <= 5 /\ (Len(dir) > 4 => dir[5] = "runs")

AgentRunFileMayContain(dir) ==
  MatchesWorkspacePrefix(dir) /\ Len(dir) <= 6 /\ (Len(dir) > 4 => dir[5] = "runs")

AgentRunComponentMayContain(dir, component) ==
  /\ MatchesWorkspacePrefix(dir)
  /\ Len(dir) > 4 => dir[5] = "runs"
  /\ Len(dir) > 6 => dir[7] = component

(* may_match_descendant *)
MayMatchDescendant(r, dir) ==
  CASE r.rule = "Database" ->
         IsSameOrUnder(DatabaseRoot, dir) \/ IsDatabaseFile(Append(dir, "database.tdb"))
    [] r.rule = "Prefix" -> IsSameOrUnder(dir, r.dir) \/ IsSameOrUnder(r.dir, dir)
    [] r.rule = "AgentWorkspaceComponent" -> AgentWorkspaceComponentMayContain(dir, r.name)
    [] r.rule = "AgentRunFile" -> AgentRunFileMayContain(dir)
    [] r.rule = "AgentRunComponent" -> AgentRunComponentMayContain(dir, r.name)

-----------------------------------------------------------------------------
(* The catalog; "User Avatars" is written without its space, for the sake  *)
(* of the provers.                                                         *)

Dataset(roots, files, rules) == [scan_roots |-> roots, files |-> files, rules |-> rules]

Dirs(roots, files) == Dataset(roots, files, {Prefix(root) : root \in ToSet(roots)})

DATASETS == [
  settings_core |-> Dirs(<< >>, {<<"default-user", "settings.json">>}),
  secrets_api_keys |-> Dirs(<< >>, {<<"default-user", "secrets.json">>}),
  chat_character_history |-> Dirs(<<<<"default-user", "chats">>>>, {}),
  character_avatars |-> Dirs(<<<<"default-user", "UserAvatars">>>>,
                             {<<"default-user", "settings", "persona-state.json">>}),
  user_files |-> Dirs(<<<<"default-user", "user", "files">>>>, {}),
  extensions_third_party |-> Dirs(<<<<"extensions", "third-party">>>>, {}),
  extensions_sources |-> Dirs(<<<<"_tauritavern", "extension-sources", "local">>,
                                <<"_tauritavern", "extension-sources", "global">>>>, {}),
  extensions_databases |-> Dataset(<<DatabaseRoot>>, {}, {Database}),
  agent_persistent_state |->
    Dataset(<<Chats>>, {}, {AgentWorkspaceComponent("persistent-states")}),
  agent_run_journal |->
    Dataset(<<RunIndex, Chats>>, {},
            {Prefix(RunIndex), AgentRunFile("run.json"), AgentRunFile("events.jsonl")}),
  agent_run_context |->
    Dataset(<<Chats>>, {}, {AgentRunFile("manifest.json"), AgentRunComponent("input")}),
  agent_model_responses |->
    Dataset(<<Chats>>, {}, {AgentRunComponent("model-responses")})]

DefaultDatasets ==
  <<"settings_core", "chat_character_history", "character_avatars", "user_files",
    "extensions_third_party", "extensions_sources", "agent_persistent_state",
    "agent_run_journal">>

FullExtraDatasets ==
  <<"secrets_api_keys", "extensions_databases", "agent_run_context",
    "agent_model_responses">>

PROFILES == [
  tauritavern_default |-> DefaultDatasets,
  tauritavern_full |-> DefaultDatasets \o FullExtraDatasets,
  agent_run_history_full |->
    <<"agent_run_journal", "agent_run_context", "agent_model_responses">>]

-----------------------------------------------------------------------------
(* Policies. *)

(* expand_dataset_ids: profiles by their datasets, each dataset once. *)
PushUnique(expanded, id) == IF Contains(expanded, id) THEN expanded ELSE Append(expanded, id)

Expansion(id) == IF id \in DOMAIN PROFILES THEN PROFILES[id] ELSE <<id>>

PushExpanded(expanded, id) == FoldLeft(PushUnique, expanded, Expansion(id))

ExpandDatasetIds(ids) == FoldLeft(PushExpanded, << >>, ids)

(* from_selection refuses an unknown name and an empty selection. *)
ValidSelection(ids) ==
  /\ ToSet(ids) \subseteq DOMAIN PROFILES \cup DOMAIN DATASETS
  /\ ids # << >>

(* Mutant: a root that is already there is taken again. *)
PushEveryRoot(roots, root) == Append(roots, root)

RetainRoot(kept, existing, root) ==
  IF IsStrictPrefix(root, existing) THEN kept ELSE Append(kept, existing)

Retain(roots, root) ==
  FoldLeft(LAMBDA kept, existing : RetainRoot(kept, existing, root), << >>, roots)

PushCompactRoot(roots, root) ==
  IF \E i \in DOMAIN roots : IsSameOrUnder(root, roots[i]) THEN roots
  ELSE Append(Retain(roots, root), root)

PushRoots(roots, id) == FoldLeft(PushCompactRoot, roots, DATASETS[id].scan_roots)

ScanRoots(ids) == FoldLeft(PushRoots, << >>, ids)

FromSelection(ids) ==
  LET selected == ExpandDatasetIds(ids)
      chosen == {DATASETS[id] : id \in ToSet(selected)}
  IN [scan_roots |-> ScanRoots(selected),
      files |-> UNION {d.files : d \in chosen},
      rules |-> UNION {d.rules : d \in chosen}]

ContainsPath(policy, path) ==
  /\ ~IsGloballyExcluded(path)
  /\ path \in policy.files \/ \E r \in policy.rules : Matches(r, path)

ShouldDescendDir(policy, dir) ==
  ~IsGloballyExcluded(dir) /\ \E r \in policy.rules : MayMatchDescendant(r, dir)

(* prune_boundary_for_path: whether it answers, and with which directory   *)
(* (none for a dataset of single files).  Of several roots it takes the    *)
(* one with the longest name; roots above one path are ordered by prefix.  *)
SingleFiles == UNION {DATASETS[id].files : id \in DOMAIN DATASETS}

Owners(path) == {id \in DOMAIN DATASETS : \E r \in DATASETS[id].rules : Matches(r, path)}

RootsAbove(id, path) == {root \in ToSet(DATASETS[id].scan_roots) : IsSameOrUnder(path, root)}

Prunable(path) ==
  /\ ~IsGloballyExcluded(path)
  /\ \/ path \in SingleFiles
     \/ Owners(path) # {} /\ \A id \in Owners(path) : RootsAbove(id, path) # {}

PruneBoundary(path) ==
  LET roots == UNION {RootsAbove(id, path) : id \in Owners(path)}
  IN CHOOSE root \in roots : \A other \in roots : Len(other) <= Len(root)
=============================================================================
