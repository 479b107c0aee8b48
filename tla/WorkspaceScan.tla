--------------------------- MODULE WorkspaceScan ---------------------------
(***************************************************************************)
(* A scan of the workspace (ttsync-fs/src/manifest.rs) on the directories  *)
(* of one layout (layout.rs), while the application goes on working and    *)
(* other plans delete files and prune the directories that leaves empty    *)
(* (writer.rs, delete_file).                                               *)
(*                                                                         *)
(* The tree is given by canonical names; where the application keeps them  *)
(* on disk is what the README says of each layout (`Place'), and where the *)
(* code looks for them is derived from the configured workspace path.      *)
(***************************************************************************)
EXTENDS DatasetPolicy, Bags, Naturals

CONSTANTS
  Files,       \* canonical names of the files there may be
  Spare,       \* canonical names of directories without files
  Links,       \* those of the files that are symbolic links
  Volatile,    \* bound: the files the application creates and removes
  Deletable,   \* canonical names given to delete_file
  Deleters,    \* calls of delete_file
  Cases        \* what is scanned, and who else works meanwhile:
               \*   layout [mode, workspace, data, user, extensions],
               \*   ids the datasets and profiles a plan asks for,
               \*   missing the files that are not there at first,
               \*   unlistable the files no manifest entry can be made for
               \*     (a time before 1970, a name SyncPath refuses, an I/O error),
               \*   closed the directories read_dir cannot list,
               \*   undecodable the entries whose names are not UTF-8,
               \*   runs (bound) what the run files may say at first,
               \*   edits (bound) steps of the application,
               \*   deleters (bound) calls of delete_file

Names == Seq(STRING) \ {<< >>}

(* The components the code names are strings (the prover has no such rule). *)
ASSUME LiteralsAssumption ==
  {"default-user", "chats", "UserAvatars", "user", "files", "extensions", "third-party",
   "_tauritavern", "extension-sources", "local", "global", "databases", "agent-workspaces",
   "index", "runs", "run.json", "settings", "settings.json", "secrets.json",
   "persona-state.json", "database.tdb", "data", "public", "scripts"} \subseteq STRING

(* No name is the name of a file and of something above another one. *)
ASSUME NamesAssumption ==
  /\ IsFiniteSet(Files) /\ IsFiniteSet(Spare)
  /\ Files \subseteq Names /\ Spare \subseteq Names
  /\ \A file \in Files : \A name \in (Files \ {file}) \cup Spare : ~IsPrefix(file, name)
  /\ Links \subseteq Files /\ Volatile \subseteq Files /\ Deletable \subseteq Files

(* A layout of README_EN.md, and what the workspace path may name in it.   *)
(* The code tells these paths apart by their last component, so that the   *)
(* directories above must not be called like the ones below.               *)
IsLayout(l) ==
  /\ l.data \in Names
  /\ l.user = Append(l.data, "default-user")
  /\ \/ /\ l.mode = "tauri-tavern"
        /\ l.extensions = l.data \o <<"extensions", "third-party">>
        /\ l.workspace \in {l.data, l.user}
        /\ Last(l.data) # "default-user"
     \/ /\ l.mode \in {"silly-tavern", "silly-tavern-docker"}
        /\ Len(l.data) > 1 /\ Last(l.data) = "data"
        /\ l.extensions = Front(l.data) \o
             IF l.mode = "silly-tavern" THEN <<"public", "scripts", "extensions", "third-party">>
             ELSE <<"extensions">>
        /\ l.workspace \in {Front(l.data), l.data, l.user}
        /\ Last(Front(l.data)) \notin {"data", "default-user"}

ASSUME CasesAssumption ==
  \A case \in Cases :
    /\ IsLayout(case.layout)
    /\ case.ids \in Seq(STRING)
    /\ case.runs \subseteq {"active", "terminal", "broken"}
    /\ case.unlistable \subseteq Files /\ case.closed \subseteq Names
    /\ case.undecodable \subseteq Names \ SingleFiles
    /\ case.edits \in Nat /\ case.deleters \subseteq Deleters

VARIABLES
  input,    \* the case
  policy,   \* resolved selection
  files,    \* local paths of the files there are
  dirs,     \* local paths of the directories there are
  status,   \* what is in the run files
  at,       \* where the scan is
  roots,    \* scan roots to be visited
  root,     \* the one being visited
  stack,    \* directories being read, with the entries to be visited
  exact,    \* single files to be looked at
  entries,  \* the manifest
  del,      \* the calls of delete_file
  edits,    \* steps of the application so far
  stable,   \* history: files that were there all the time since the scan began
  settled,  \* history: run files that were terminal when it began
  seen,     \* history: files that were there at some time since
  lost      \* history: something was removed since

tree == <<files, dirs, status>>
scan == <<at, roots, root, stack, exact, entries>>
history == <<stable, settled, seen, lost>>
vars == <<input, policy, tree, scan, del, edits, history>>

-----------------------------------------------------------------------------
(* Layout. *)

layout == input.layout

(* Where the application keeps a canonical name. *)
Place(name) ==
  CASE name[1] = "default-user" -> layout.user \o Tail(name)
    [] IsPrefix(<<"extensions", "third-party">>, name) ->
         layout.extensions \o SubSeq(name, 3, Len(name))
    [] OTHER -> layout.data \o name

(* WorkspaceMounts::derive: the workspace path may name the data directory *)
(* or the user's directory in it, and for SillyTavern the one above.       *)
DataRoot ==
  IF Last(layout.workspace) = "default-user" THEN Front(layout.workspace)
  ELSE IF layout.mode # "tauri-tavern" /\ Last(layout.workspace) # "data"
       THEN Append(layout.workspace, "data")
       ELSE layout.workspace

DefaultUserRoot ==
  IF Last(layout.workspace) = "default-user" THEN layout.workspace
  ELSE Append(DataRoot, "default-user")

ExtensionsRoot ==
  CASE layout.mode = "tauri-tavern" -> DataRoot \o <<"extensions", "third-party">>
    [] layout.mode = "silly-tavern" ->
         Front(DataRoot) \o <<"public", "scripts", "extensions", "third-party">>
    [] layout.mode = "silly-tavern-docker" -> Append(Front(DataRoot), "extensions")

(* resolve_canonical_to_local *)
ResolveToLocal(name) ==
  CASE IsStrictPrefix(<<"default-user">>, name) -> DefaultUserRoot \o Tail(name)
    [] IsPrefix(<<"extensions", "third-party">>, name) ->
         ExtensionsRoot \o SubSeq(name, 3, Len(name))
    [] OTHER -> DataRoot \o name

-----------------------------------------------------------------------------
(* The tree. *)

Ancestors(path) == {SubSeq(path, 1, n) : n \in 1 .. Len(path) - 1}

FilesIn(dir) == {path \in files : Len(path) = Len(dir) + 1 /\ Front(path) = dir}

DirsIn(dir) == {path \in dirs : Len(path) = Len(dir) + 1 /\ Front(path) = dir}

IsEmpty(dir) == FilesIn(dir) = {} /\ DirsIn(dir) = {}

RunFiles == {name \in Files : \/ IsAgentRunIndexFile(name)
                              \/ IsAgentRunRootDir(Front(name)) /\ Last(name) = "run.json"}

(* agent_run_json_is_terminal reads the status of a run; "broken" is one   *)
(* that cannot be parsed.                                                  *)
Statuses == {"active", "terminal", "broken"}

Idle == [at |-> "idle", boundary |-> << >>, current |-> << >>,
         pending |-> << >>, directories |-> << >>]

EmptyPolicy == [scan_roots |-> << >>, files |-> {}, rules |-> {}]

Init ==
  /\ input \in Cases
  /\ policy = EmptyPolicy
  /\ files = {Place(name) : name \in Files \ input.missing}
  /\ dirs = UNION ({Ancestors(path) : path \in files}
                  \cup {Ancestors(Place(d)) \cup {Place(d)} : d \in Spare})
  /\ status \in [RunFiles -> input.runs]
  /\ at = "idle" /\ roots = << >> /\ root = << >> /\ stack = << >> /\ exact = {}
  /\ entries = EmptyBag
  /\ del = [d \in Deleters |-> Idle]
  /\ edits = 0
  /\ stable = {} /\ settled = {} /\ seen = {} /\ lost = FALSE

-----------------------------------------------------------------------------
(* The application. *)

Scanning == at \notin {"idle", "ok", "failed", "refused"}

Edit == edits < input.edits /\ Scanning /\ edits' = edits + 1

(* A file appears, with the directories above it; a run starts active. *)
CreateFile(name) ==
  /\ Edit
  /\ Place(name) \notin files \cup seen
  /\ files' = files \cup {Place(name)}
  /\ dirs' = dirs \cup Ancestors(Place(name))
  /\ status' = IF name \in RunFiles THEN [status EXCEPT ![name] = "active"] ELSE status
  /\ seen' = seen \cup {Place(name)}
  /\ UNCHANGED <<input, policy, scan, del, stable, settled, lost>>

RemoveFile(name) ==
  /\ Edit
  /\ Place(name) \in files
  /\ files' = files \ {Place(name)}
  /\ stable' = stable \ {Place(name)}
  /\ lost' = TRUE
  /\ UNCHANGED <<input, policy, dirs, status, scan, del, settled, seen>>

(* A run ends; it does not start again. *)
EndRun(name) ==
  /\ Edit
  /\ Place(name) \in files /\ status[name] = "active"
  /\ status' = [status EXCEPT ![name] = "terminal"]
  /\ UNCHANGED <<input, policy, files, dirs, scan, del, history>>

-----------------------------------------------------------------------------
(* The scan. *)

StartScan ==
  /\ at = "idle"
  /\ \/ /\ ValidSelection(input.ids)
        /\ policy' = FromSelection(input.ids)
        /\ at' = "roots"
        /\ roots' = policy'.scan_roots
        /\ exact' = policy'.files
     \/ /\ ~ValidSelection(input.ids)
        /\ at' = "refused"
        /\ UNCHANGED <<policy, roots, exact>>
  /\ stable' = files /\ seen' = files
  /\ settled' = {name \in RunFiles : status[name] = "terminal"}
  /\ lost' = FALSE
  /\ UNCHANGED <<input, tree, root, stack, entries, del, edits>>

Fail == at' = "failed"

Unopened(dir) == [dir |-> dir, opened |-> FALSE, files |-> {}, dirs |-> {}]

(* scan_manifest_sync: the next scan root, if it is there; it must be a    *)
(* directory.                                                              *)
NextRoot ==
  /\ at = "roots" /\ roots # << >>
  /\ LET local == ResolveToLocal(Head(roots))
     IN \/ /\ local \in dirs
           /\ at' = "reading"
           /\ root' = Head(roots)
           /\ stack' = <<Unopened(local)>>
        \/ /\ local \notin dirs \cup files
           /\ UNCHANGED <<at, root, stack>>
        \/ local \in files /\ Fail /\ UNCHANGED <<root, stack>>
  /\ roots' = Tail(roots)
  /\ UNCHANGED <<input, policy, tree, exact, entries, del, edits, history>>

Top == Last(stack)

Closed(dir) == \E name \in input.closed : dir = Place(name)

(* scan_dir_recursive_inner: read_dir, which a directory that has gone, or *)
(* that may not be listed, fails ...                                       *)
OpenDir ==
  /\ at = "reading" /\ stack # << >> /\ ~Top.opened
  /\ \/ /\ Top.dir \in dirs /\ ~Closed(Top.dir)
        /\ stack' = Append(Front(stack),
                           [dir |-> Top.dir, opened |-> TRUE,
                            files |-> FilesIn(Top.dir), dirs |-> DirsIn(Top.dir)])
        /\ UNCHANGED at
     \/ (Top.dir \notin dirs \/ Closed(Top.dir)) /\ Fail /\ UNCHANGED stack
  /\ UNCHANGED <<input, policy, tree, roots, root, exact, entries, del, edits, history>>

(* The canonical name of an entry: the root's, and the path within it. *)
WirePath(local) == root \o SubSeq(local, Len(ResolveToLocal(root)) + 1, Len(local))

(* Mutant: a run without run.json is an error. *)
TerminalMustExist(local, name) == IF local \notin files THEN "broken" ELSE status[name]

(* agent_run_file_is_terminal *)
Terminal(local, name) == IF local \notin files THEN "active" ELSE status[name]

(* The state of the run an entry belongs to, if it has to be asked for. *)
RunStatus(local, wire, isDir) ==
  CASE isDir /\ IsAgentRunRootDir(wire) ->
         Terminal(Append(local, "run.json"), Append(wire, "run.json"))
    [] ~isDir /\ IsAgentRunIndexFile(wire) -> Terminal(local, wire)
    [] OTHER -> "terminal"

(* ... and one of its entries, in any order.  What is no link must have a  *)
(* name in UTF-8, be it excluded or not, and a wanted file an entry: it    *)
(* must still be there, with a time and a name the protocol can express.   *)
VisitEntry ==
  /\ at = "reading" /\ stack # << >> /\ Top.opened
  /\ \E local \in Top.files \cup Top.dirs :
       LET wire == WirePath(local)
           isFile == local \in Top.files
           isLink == \E link \in Links : local = Place(link)
           named == wire \notin input.undecodable
           rest == Append(Front(stack),
                          [Top EXCEPT !.files = @ \ {local}, !.dirs = @ \ {local}])
           skipped == isLink \/ (named /\ IsGloballyExcluded(wire))
           run == RunStatus(local, wire, ~isFile)
           listable == local \in files /\ wire \notin input.unlistable
       IN \/ /\ \/ skipped
                \/ named /\ run = "active"
                \/ named /\ run = "terminal" /\ ~isFile /\ ~ShouldDescendDir(policy, wire)
                \/ named /\ run = "terminal" /\ isFile /\ ~ContainsPath(policy, wire)
             /\ stack' = rest
             /\ UNCHANGED <<at, entries>>
          \/ /\ ~skipped /\ named /\ run = "terminal"
             /\ ~isFile /\ ShouldDescendDir(policy, wire)
             /\ stack' = Append(rest, Unopened(local))
             /\ UNCHANGED <<at, entries>>
          \/ /\ ~skipped /\ named /\ run = "terminal"
             /\ isFile /\ ContainsPath(policy, wire) /\ listable
             /\ entries' = entries (+) SetToBag({wire})
             /\ stack' = rest
             /\ UNCHANGED at
          \/ /\ ~skipped
             /\ \/ ~named \/ run = "broken"
                \/ run = "terminal" /\ isFile /\ ContainsPath(policy, wire) /\ ~listable
             /\ Fail
             /\ UNCHANGED <<stack, entries>>
  /\ UNCHANGED <<input, policy, tree, roots, root, exact, del, edits, history>>

LeaveDir ==
  /\ at = "reading" /\ stack # << >> /\ Top.opened /\ Top.files \cup Top.dirs = {}
  /\ stack' = Front(stack)
  /\ at' = IF stack' = << >> THEN "roots" ELSE at
  /\ UNCHANGED <<input, policy, tree, roots, root, exact, entries, del, edits, history>>

(* The single files of the selection, links to files included. *)
ScanFile ==
  /\ at = "roots" /\ roots = << >>
  /\ \E file \in exact :
       LET wanted == ContainsPath(policy, file) /\ ResolveToLocal(file) \in files
       IN /\ exact' = exact \ {file}
          /\ \/ ~wanted /\ UNCHANGED <<at, entries>>
             \/ /\ wanted /\ file \notin input.unlistable
                /\ entries' = entries (+) SetToBag({file})
                /\ UNCHANGED at
             \/ wanted /\ file \in input.unlistable /\ Fail /\ UNCHANGED entries
  /\ UNCHANGED <<input, policy, tree, roots, root, stack, del, edits, history>>

FinishScan ==
  /\ at = "roots" /\ roots = << >> /\ exact = {}
  /\ at' = "ok"
  /\ UNCHANGED <<input, policy, tree, roots, root, stack, exact, entries, del, edits, history>>

-----------------------------------------------------------------------------
(* delete_file. *)

End(d, result) == del' = [del EXCEPT ![d] = [Idle EXCEPT !.at = result]]

RemoveDir(dir) == dirs' = dirs \ {dir} /\ lost' = TRUE

(* The boundary is looked up and must be above the file, which is then     *)
(* removed; that it was not there any more is no error.                    *)
DeleteFile(d) ==
  /\ del[d].at = "idle" /\ d \in input.deleters
  /\ \E name \in Deletable :
       LET local == ResolveToLocal(name)
           single == name \in SingleFiles
           boundary == ResolveToLocal(PruneBoundary(name))
           allowed == Prunable(name) /\ (~single => IsPrefix(boundary, Front(local)))
       IN \/ ~allowed /\ End(d, "failed") /\ UNCHANGED <<files, stable, lost>>
          \/ /\ allowed
             /\ files' = files \ {local}
             /\ stable' = stable \ {local}
             /\ lost' = (lost \/ local \in files)
             /\ IF single THEN End(d, "ok")
                ELSE del' = [del EXCEPT ![d] =
                       [Idle EXCEPT !.at = "pruning", !.boundary = boundary,
                                    !.current = Front(local)]]
  /\ UNCHANGED <<input, policy, dirs, status, scan, edits, settled, seen>>

Above(d) == del' = [del EXCEPT ![d].at = "pruning", ![d].current = Front(@)]

(* Mutant: the boundary is compared after the removal. *)
PruneStepPastBoundary(d) ==
  /\ del[d].at = "pruning"
  /\ LET current == del[d].current
     IN /\ current \in dirs /\ IsEmpty(current)
        /\ RemoveDir(current)
        /\ IF current = del[d].boundary THEN End(d, "ok") ELSE Above(d)
  /\ UNCHANGED <<input, policy, files, status, scan, edits, stable, settled, seen>>

(* prune_fileless_ancestors: one directory up to the boundary, which stays. *)
PruneStep(d) ==
  /\ del[d].at = "pruning"
  /\ LET current == del[d].current
     IN \/ /\ current = del[d].boundary
           /\ End(d, "ok") /\ UNCHANGED <<dirs, lost>>
        \/ /\ current # del[d].boundary /\ current \notin dirs
           /\ Above(d) /\ UNCHANGED <<dirs, lost>>
        \/ /\ current # del[d].boundary /\ current \in dirs /\ IsEmpty(current)
           /\ Above(d) /\ RemoveDir(current)
        \/ /\ current # del[d].boundary /\ ~IsEmpty(current)
           /\ del' = [del EXCEPT ![d].at = "collecting", ![d].pending = <<current>>]
           /\ UNCHANGED <<dirs, lost>>
  /\ UNCHANGED <<input, policy, files, status, scan, edits, stable, settled, seen>>

(* collect_fileless_tree: a directory that is not empty may still hold     *)
(* nothing but directories.                                                *)
CollectDir(d) ==
  /\ del[d].at = "collecting"
  /\ LET dir == Last(del[d].pending)
     IN \/ (dir \notin dirs \/ Closed(dir)) /\ End(d, "failed")
        \/ dir \in dirs /\ ~Closed(dir) /\ FilesIn(dir) # {} /\ End(d, "ok")
        \/ /\ dir \in dirs /\ ~Closed(dir) /\ FilesIn(dir) = {}
           /\ \E order \in SetToSeqs(DirsIn(dir)) :
                LET pending == Front(del[d].pending) \o order
                IN del' = [del EXCEPT ![d].pending = pending,
                                      ![d].directories = Append(@, dir),
                                      ![d].at = IF pending = << >> THEN "emptying" ELSE @]
  /\ UNCHANGED <<input, policy, tree, scan, edits, history>>

(* Mutant: the collected tree is removed whatever is in it by now. *)
EmptyDirAll(d) ==
  /\ del[d].at = "emptying"
  /\ dirs' = dirs \ ToSet(del[d].directories)
  /\ lost' = TRUE
  /\ Above(d)
  /\ UNCHANGED <<input, policy, files, status, scan, edits, stable, settled, seen>>

Forget(d) == del' = [del EXCEPT ![d].directories = Front(@)]

(* The collected directories, the innermost first; one that was filled     *)
(* meanwhile ends the pruning.                                             *)
EmptyDir(d) ==
  /\ del[d].at = "emptying"
  /\ LET directories == del[d].directories
         dir == Last(directories)
     IN \/ directories = << >> /\ Above(d) /\ UNCHANGED <<dirs, lost>>
        \/ directories # << >> /\ dir \notin dirs /\ Forget(d) /\ UNCHANGED <<dirs, lost>>
        \/ directories # << >> /\ dir \in dirs /\ IsEmpty(dir) /\ Forget(d) /\ RemoveDir(dir)
        \/ directories # << >> /\ ~IsEmpty(dir) /\ End(d, "ok") /\ UNCHANGED <<dirs, lost>>
  /\ UNCHANGED <<input, policy, files, status, scan, edits, stable, settled, seen>>

Next ==
  \/ \E name \in Volatile : CreateFile(name) \/ RemoveFile(name)
  \/ \E name \in RunFiles : EndRun(name)
  \/ StartScan \/ NextRoot \/ OpenDir \/ VisitEntry \/ LeaveDir \/ ScanFile \/ FinishScan
  \/ \E d \in Deleters : DeleteFile(d) \/ PruneStep(d) \/ CollectDir(d) \/ EmptyDir(d)

Spec == Init /\ [][Next]_vars

-----------------------------------------------------------------------------
(* Properties.                                                             *)

(* The types of the variables; the manifest has canonical names only, and  *)
(* every file is in directories that are there.                            *)
TypeOK ==
  /\ input \in Cases
  /\ files \subseteq {Place(name) : name \in Files}
  /\ \A path \in files \cup dirs : Len(path) > 1 => Front(path) \in dirs
  /\ status \in [RunFiles -> Statuses]
  /\ at \in {"idle", "roots", "reading", "ok", "failed", "refused"}
  /\ BagToSet(entries) \subseteq Files
  /\ \A d \in Deleters :
       del[d].at \in {"idle", "pruning", "collecting", "emptying", "ok", "failed"}
  /\ edits \in 0 .. input.edits

(* The run a file belongs to has ended, as far as `ended' knows. *)
RunEnded(name, ended) ==
  /\ IsAgentRunIndexFile(name) => name \in ended
  /\ IsAgentRunPath(name) /\ Len(name) > 6 =>
       Append(SubSeq(name, 1, 6), "run.json") \in ended

(* A finished scan lists every selected file that was there all the time   *)
(* and that belongs to no run, or to one that had ended before: no         *)
(* directory that holds such a file is skipped, in no layout.              *)
ManifestComplete ==
  at = "ok" =>
    \A name \in Files :
      /\ ContainsPath(policy, name)
      /\ name \in policy.files \/ name \notin Links
      /\ Place(name) \in stable
      /\ RunEnded(name, {run \in settled : Place(run) \in stable})
      => name \in BagToSet(entries)

(* Nothing else is listed, and nothing twice: each entry is a selected     *)
(* file that was there during the scan, and of a run that has ended.       *)
ManifestSound ==
  \A name \in BagToSet(entries) :
    /\ ContainsPath(policy, name)
    /\ Place(name) \in seen
    /\ RunEnded(name, {run \in RunFiles : status[run] = "terminal"})
    /\ entries[name] = 1

(* The directories the scan looks into: the roots, and what the rules of   *)
(* the selection may match something in.                                   *)
Walked(dir) == dir \in ToSet(policy.scan_roots) \/ ShouldDescendDir(policy, dir)

(* A scan fails over what it has to read: something was removed under it,  *)
(* a run file cannot be read, a file is where a scan root should be, no    *)
(* entry can be made for a selected file, or a directory that it looks     *)
(* into cannot be listed or holds a name that is not UTF-8.  What lies     *)
(* outside the selection, or behind a link, does not stop it.              *)
FailureExplained ==
  at = "failed" =>
    \/ lost
    \/ \E run \in RunFiles : Place(run) \in seen /\ status[run] = "broken"
    \/ \E i \in DOMAIN policy.scan_roots : Place(policy.scan_roots[i]) \in seen
    \/ \E name \in input.unlistable :
         /\ ContainsPath(policy, name) /\ Place(name) \in seen
         /\ name \in policy.files \/ name \notin Links
    \/ \E dir \in input.closed : Walked(dir)
    \/ \E name \in input.undecodable : name \notin Links /\ Walked(Front(name))

(* Pruning removes directories below a scan root, never the root itself    *)
(* or anything above: "The boundary itself must never be removed".         *)
PruneStopsAtRoot ==
  [][\A dir \in dirs \ dirs' :
       \E id \in DOMAIN DATASETS : \E i \in DOMAIN DATASETS[id].scan_roots :
         IsStrictPrefix(Place(DATASETS[id].scan_roots[i]), dir)]_vars
=============================================================================
