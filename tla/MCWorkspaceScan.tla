-------------------------- MODULE MCWorkspaceScan --------------------------
(* A small instance of WorkspaceScan for TLC: a tree with a file of every  *)
(* kind, and every way to configure a workspace.                           *)
EXTENDS WorkspaceScan

CONSTANTS d1, d2

Workspace == Append(Chats, "ws")
Run == Workspace \o <<"runs", "run-1">>

Chat == <<"default-user", "chats", "alice", "1.jsonl">>
Draft == <<"default-user", "chats", "alice", "drafts", "1.jsonl">>
Misplaced == <<"default-user", "user", "files">>
Temporary == <<"default-user", "chats", "chat.jsonl.ttsync.tmp">>
Setting == <<"default-user", "settings.json">>
Extension == <<"extensions", "third-party", "ext", "index.js">>
RunFile == Append(Run, "run.json")
Response == Run \o <<"model-responses", "round-1", "r.json">>

MCLink == <<"default-user", "chats", "link">>

MCLinks == {Setting, MCLink}

MCFiles == MCLinks \cup
  {Chat, Draft, Misplaced, Extension, RunFile, Response,
   Temporary,
   DatabaseRoot \o <<"db-a", "database.tdb">>,
   DatabaseRoot \o <<"db-a", "database.tdb.lock">>,
   Append(Run, "events.jsonl"),
   Workspace \o <<"persistent-states", "run-1", "state.json">>,
   Append(RunIndex, "run-1.json")}

MCSpare == {Front(Draft)}

MCVolatile == {RunFile, Draft, Misplaced}

MCDeletable == {Chat, Setting, Extension, Response, Misplaced, Temporary}

Symmetry == Permutations(Deleters)

TauriTavern(workspace) ==
  [mode |-> "tauri-tavern", workspace |-> workspace, data |-> <<"/", "d">>,
   user |-> <<"/", "d", "default-user">>, extensions |-> <<"/", "d", "extensions", "third-party">>]

SillyTavern(workspace) ==
  [mode |-> "silly-tavern", workspace |-> workspace, data |-> <<"/", "r", "data">>,
   user |-> <<"/", "r", "data", "default-user">>,
   extensions |-> <<"/", "r", "public", "scripts", "extensions", "third-party">>]

Docker(workspace) ==
  [mode |-> "silly-tavern-docker", workspace |-> workspace, data |-> <<"/", "r", "data">>,
   user |-> <<"/", "r", "data", "default-user">>, extensions |-> <<"/", "r", "extensions">>]

AllLayouts ==
  {TauriTavern(w) : w \in {<<"/", "d">>, <<"/", "d", "default-user">>}} \cup
  UNION {{SillyTavern(w), Docker(w)} :
     w \in {<<"/", "r">>, <<"/", "r", "data">>, <<"/", "r", "data", "default-user">>}}

AllSelections ==
  {<<"tauritavern_full">>, <<"secrets_api_keys", "tauritavern_default">>,
   <<"agent_run_history_full">>, <<"extensions_databases", "missing">>, << >>}

Case(place, ids, missing, runs, steps, deleters) ==
  [layout |-> place, ids |-> ids, missing |-> missing, runs |-> runs, edits |-> steps,
   deleters |-> deleters, unlistable |-> {}, closed |-> {}, undecodable |-> {}]

(* Something that cannot be read, in and outside of what is selected. *)
MCFaults ==
  {[unlistable |-> {file}, closed |-> {}, undecodable |-> {}] :
     file \in {Chat, Setting, Temporary, Response, Extension}} \cup
  {[unlistable |-> {}, closed |-> {dir}, undecodable |-> {}] :
     dir \in {Chats, Front(Draft), Front(Response), DatabaseRoot}} \cup
  {[unlistable |-> {}, closed |-> {}, undecodable |-> {name}] :
     name \in {Chat, Temporary, Response, Front(Response), MCLink}}

Faulty(case, fault) ==
  [case EXCEPT !.unlistable = fault.unlistable, !.closed = fault.closed,
               !.undecodable = fault.undecodable]

(* Every layout; every selection, with a root that is no directory too; a  *)
(* run that starts or ends, and files that come and go; two deletions in   *)
(* the tree that is scanned, or one while the application works there; one *)
(* in the tree of the runs.                                                *)
MCCases ==
  {Case(place, <<"tauritavern_full">>, {Misplaced}, {"terminal"}, 0, {}) :
     place \in AllLayouts} \cup
  {Case(TauriTavern(<<"/", "d">>), ids, missing, Statuses, 0, {}) :
     ids \in AllSelections, missing \in {{Misplaced}, {Draft}}} \cup
  {Case(SillyTavern(<<"/", "r">>), <<"agent_persistent_state", "agent_run_history_full">>,
        missing, Statuses, 2, {}) : missing \in {{}, {RunFile}}} \cup
  {Case(SillyTavern(<<"/", "r">>), <<"chat_character_history", "user_files", "settings_core">>,
        missing, {"terminal"}, IF deleters = Deleters THEN 0 ELSE 1, deleters) :
     missing \in {{}, {Draft, Misplaced}}, deleters \in {{d1}, Deleters}} \cup
  {Faulty(Case(Docker(<<"/", "r">>), ids, {Draft}, {"terminal"}, 0, {}), fault) :
     ids \in {<<"chat_character_history", "settings_core">>, <<"agent_model_responses">>},
     fault \in MCFaults} \cup
  {Faulty(Case(SillyTavern(<<"/", "r">>), <<"chat_character_history">>, {Draft}, {"terminal"},
               0, {d1}), fault) : fault \in {f \in MCFaults : f.closed # {}}} \cup
  {Case(Docker(<<"/", "r">>), <<"agent_model_responses", "agent_run_journal">>,
        {RunFile}, {"active", "terminal"}, 2, {d1})}
=============================================================================
