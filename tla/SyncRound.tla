------------------------------ MODULE SyncRound ------------------------------
(***************************************************************************)
(* Synchronization rounds between a client and a server, one after the     *)
(* other, while both sides go on being edited: scan, plan, transfer file   *)
(* by file, delete, publish the databases (ttsync-client/src/engine.rs     *)
(* pull, direct_push and what they apply; ttsync-http/src/server/          *)
(* handlers.rs; ttsync-fs/src/writer.rs).  A round can fail or be          *)
(* interrupted anywhere and leaves what it did; a write or a deletion that *)
(* was under way can still take effect, at any time.                       *)
(*                                                                         *)
(* A file is its size, its modification time and, what the planner does    *)
(* not see, its bytes: those of the edit that made them, or a torn mixture *)
(* when the source was edited while it was read.                           *)
(***************************************************************************)
EXTENDS Planner, FiniteSets

CONSTANTS
  Sizes,       \* file sizes
  Selections,  \* the scopes of dataset selections, as sets of paths
  MaxClock,    \* bound on the clock: how many edits there are
  NoFile

ASSUME RoundAssumption ==
  /\ Sizes \subseteq Nat
  /\ Selections \subseteq SUBSET Paths
  /\ \A scope \in Selections : \A p, q \in Paths :
       p \in scope /\ NamespaceOf[p] = NamespaceOf[q] /\ NamespaceOf[p] # Plain => q \in scope
  /\ MaxClock \in Nat \ {0}

Sides == {"client", "server"}
Times == 0 .. MaxClock

File == [size : Sizes, mtime : Times, edit : Times, torn : BOOLEAN]

ASSUME NoFileAssumption == NoFile \notin File

VARIABLES
  disk,      \* the files of each side
  clock,
  options,   \* the round: direction, mode, overwrite policy and scope
  at,        \* how far the round is
  manifest,  \* what the scans found
  transfer,  \* planned transfers that are still to come
  delete,    \* planned deletions that are still to come
  inflight,  \* bytes read from the source and not yet written
  staged,    \* received database files
  publish,   \* namespaces to publish
  touched,   \* files edited since the round began (history)
  late,      \* changes of rounds that are over which may still take effect
  unstamped, \* paths with a write that never got its time stamp (history)
  overlapped \* paths of rounds that began with such a change to come (history)

vars == <<disk, clock, options, at, manifest, transfer, delete, inflight,
          staged, publish, touched, late, unstamped, overlapped>>

Options == [direction : {"pull", "push"}, mode : Modes, overwrite : Policies, scope : Selections]

(* A write, or a deletion (NoFile), of an ordinary file. *)
Change == [side : Sides, path : Paths, file : File \cup {NoFile}]

Manifests == UNION {[listed -> [size : Sizes, mtime : Times]] : listed \in SUBSET Paths}

(* The types of files, manifests and plans; database namespaces are the    *)
(* only groups that are published.                                         *)
TypeOK ==
  /\ disk \in [Sides -> [Paths -> File \cup {NoFile}]]
  /\ clock \in Times
  /\ options \in Options
  /\ at \in {"idle", "scanned", "applying", "done"}
  /\ manifest \in [Sides -> Manifests]
  /\ transfer \subseteq Paths /\ delete \subseteq Paths
  /\ inflight \in [Paths -> File \cup {NoFile}]
  /\ staged \in [Paths -> File \cup {NoFile}]
  /\ publish \subseteq Namespaces
  /\ touched \subseteq Sides \X Paths
  /\ late \subseteq Change
  /\ unstamped \subseteq Paths /\ overlapped \subseteq Paths

Source == IF options.direction = "pull" THEN "server" ELSE "client"
Target == IF options.direction = "pull" THEN "client" ELSE "server"

Nothing == [p \in Paths |-> NoFile]
NoManifest == [s \in Sides |-> [p \in {} |-> NoFile]]

(* Each side starts with any files, of one modification time. *)
Init ==
  /\ clock = 1
  /\ disk \in [Sides -> [Paths -> {NoFile} \cup
       {[size |-> z, mtime |-> 1, edit |-> 1, torn |-> FALSE] : z \in Sizes}]]
  /\ options \in Options
  /\ at = "idle"
  /\ manifest = NoManifest
  /\ transfer = {} /\ delete = {} /\ publish = {} /\ touched = {}
  /\ late = {} /\ unstamped = {} /\ overlapped = {}
  /\ inflight = Nothing /\ staged = Nothing

-----------------------------------------------------------------------------
(* The users of the two sides.                                             *)

Running == at \in {"scanned", "applying"}

(* Ordinary files are edited at any time; database files only outside of   *)
(* rounds that select them (exclusive maintenance on both sides).          *)
MayEdit(p) == Running /\ p \in options.scope => NamespaceOf[p] = Plain

Edit(s, p, z) ==
  /\ clock < MaxClock
  /\ MayEdit(p)
  /\ clock' = clock + 1
  /\ disk' = [disk EXCEPT ![s][p] =
       [size |-> z, mtime |-> clock + 1, edit |-> clock + 1, torn |-> FALSE]]
  /\ touched' = touched \cup {<<s, p>>}
  /\ UNCHANGED <<options, at, manifest, transfer, delete, inflight, staged, publish, late,
                 unstamped, overlapped>>

Discard(s, p) ==
  /\ MayEdit(p)
  /\ disk[s][p] # NoFile
  /\ disk' = [disk EXCEPT ![s][p] = NoFile]
  /\ touched' = touched \cup {<<s, p>>}
  /\ UNCHANGED <<clock, options, at, manifest, transfer, delete, inflight, staged, publish,
                 late, unstamped, overlapped>>

-----------------------------------------------------------------------------
(* The round.                                                              *)

(* scan: the files there are, in the scope of the selection. *)
Scan(s, scope) ==
  [p \in {q \in scope : disk[s][q] # NoFile} |->
     [size |-> disk[s][p].size, mtime |-> disk[s][p].mtime]]

(* The client scans first and sends its manifest with the plan request ... *)
ScanClient(o) ==
  /\ ~Running
  /\ options' = o
  /\ manifest' = [s \in Sides |-> IF s = "client" THEN Scan(s, o.scope) ELSE NoManifest[s]]
  /\ at' = "scanned"
  /\ touched' = {}
  /\ overlapped' = overlapped \cup ({change.path : change \in late} \cap o.scope)
  /\ UNCHANGED <<disk, clock, transfer, delete, inflight, staged, publish, late, unstamped>>

(* Mutant: ordinary files are grouped as well. *)
ScanServerGroupsAll ==
  /\ at = "scanned"
  /\ manifest' = [manifest EXCEPT !["server"] = Scan("server", options.scope)]
  /\ transfer' = Transfer(manifest'[Source], manifest'[Target], options.overwrite)
  /\ delete' = Delete(manifest'[Source], manifest'[Target], options.mode, options.overwrite)
  /\ publish' = {NamespaceOf[p] : p \in transfer' \cup delete'}
  /\ at' = "applying"
  /\ UNCHANGED <<disk, clock, options, inflight, staged, touched, late, unstamped, overlapped>>

(* ... and the server scans when it computes the plan, which set_plan      *)
(* groups by namespace.                                                    *)
ScanServer ==
  /\ at = "scanned"
  /\ manifest' = [manifest EXCEPT !["server"] = Scan("server", options.scope)]
  /\ transfer' = Transfer(manifest'[Source], manifest'[Target], options.overwrite)
  /\ delete' = Delete(manifest'[Source], manifest'[Target], options.mode, options.overwrite)
  /\ publish' = {NamespaceOf[p] : p \in transfer' \cup delete'} \ {Plain}
  /\ at' = "applying"
  /\ UNCHANGED <<disk, clock, options, inflight, staged, touched, late, unstamped, overlapped>>

(* Mutant: the file gets the time it has now, not the planned one. *)
ReadableRestamped(p) ==
  LET file == disk[Source][p]
      entry == manifest[Source][p]
      bytes(torn) == [size |-> entry.size, mtime |-> file.mtime, edit |-> file.edit, torn |-> torn]
  IN IF file = NoFile \/ file.size < entry.size THEN {}
     ELSE IF file.size > entry.size \/ file.mtime # entry.mtime THEN {bytes(TRUE)}
     ELSE {bytes(file.torn)}

(* What reading a planned file can yield: exactly the planned number of    *)
(* bytes.  A file that became shorter cannot be read to the end; of one    *)
(* that grew, the rest is cut off; one that changed otherwise is read as   *)
(* it is now or partly as it was.                                          *)
Readable(p) ==
  LET file == disk[Source][p]
      entry == manifest[Source][p]
      bytes(torn) == [size |-> entry.size, mtime |-> entry.mtime, edit |-> file.edit, torn |-> torn]
  IN IF file = NoFile \/ file.size < entry.size THEN {}
     ELSE IF file.size > entry.size THEN {bytes(TRUE)}
     ELSE IF file.mtime = entry.mtime THEN {bytes(file.torn)}
     ELSE {bytes(file.torn), bytes(TRUE)}

Read(p) ==
  /\ at = "applying"
  /\ p \in transfer
  /\ inflight[p] = NoFile
  /\ \E bytes \in Readable(p) : inflight' = [inflight EXCEPT ![p] = bytes]
  /\ UNCHANGED <<disk, clock, options, at, manifest, transfer, delete, staged, publish,
                 touched, late, unstamped, overlapped>>

Received(p) ==
  /\ at = "applying"
  /\ inflight[p] # NoFile
  /\ inflight' = [inflight EXCEPT ![p] = NoFile]

(* Mutant: the modification time is not preserved. *)
WriteFileNow(p) ==
  /\ Received(p)
  /\ NamespaceOf[p] = Plain
  /\ disk' = [disk EXCEPT ![Target][p] =
       [size |-> inflight[p].size, mtime |-> clock, edit |-> inflight[p].edit, torn |-> inflight[p].torn]]
  /\ transfer' = transfer \ {p}
  /\ UNCHANGED <<clock, options, at, manifest, delete, staged, publish, touched, late,
                 unstamped, overlapped>>

(* write_file on an ordinary file: rename and time stamp. *)
WriteFile(p) ==
  /\ Received(p)
  /\ NamespaceOf[p] = Plain
  /\ disk' = [disk EXCEPT ![Target][p] = inflight[p]]
  /\ transfer' = transfer \ {p}
  /\ UNCHANGED <<clock, options, at, manifest, delete, staged, publish, touched, late,
                 unstamped, overlapped>>

(* write_file on a database file: the same, in the staging directory. *)
StageFile(p) ==
  /\ Received(p)
  /\ NamespaceOf[p] # Plain
  /\ staged' = [staged EXCEPT ![p] = inflight[p]]
  /\ transfer' = transfer \ {p}
  /\ UNCHANGED <<disk, clock, options, at, manifest, delete, publish, touched, late,
                 unstamped, overlapped>>

(* Deletions follow the last transfer; delete_file leaves database files   *)
(* to the publication.                                                     *)
DeleteFile(p) ==
  /\ at = "applying"
  /\ transfer = {}
  /\ p \in delete
  /\ disk' = IF NamespaceOf[p] = Plain THEN [disk EXCEPT ![Target][p] = NoFile] ELSE disk
  /\ delete' = delete \ {p}
  /\ UNCHANGED <<clock, options, at, manifest, transfer, inflight, staged, publish,
                 touched, late, unstamped, overlapped>>

(* Mutant: a namespace without received files is left alone. *)
PublishReceived(n) ==
  /\ at = "applying"
  /\ transfer = {} /\ delete = {}
  /\ n \in publish
  /\ disk' = IF \A p \in Paths : NamespaceOf[p] = n => staged[p] = NoFile THEN disk
             ELSE [disk EXCEPT ![Target] =
                     [p \in Paths |-> IF NamespaceOf[p] = n THEN staged[p] ELSE disk[Target][p]]]
  /\ publish' = publish \ {n}
  /\ UNCHANGED <<clock, options, at, manifest, transfer, delete, inflight, staged, touched,
                 late, unstamped, overlapped>>

(* The commit replaces whole namespaces, as DatabaseTransfer shows. *)
PublishNamespace(n) ==
  /\ at = "applying"
  /\ transfer = {} /\ delete = {}
  /\ n \in publish
  /\ disk' = [disk EXCEPT ![Target] =
       [p \in Paths |-> IF NamespaceOf[p] = n THEN staged[p] ELSE disk[Target][p]]]
  /\ publish' = publish \ {n}
  /\ UNCHANGED <<clock, options, at, manifest, transfer, delete, inflight, staged, touched,
                 late, unstamped, overlapped>>

Clear(next) ==
  /\ at' = next
  /\ transfer' = {} /\ delete' = {} /\ publish' = {}
  /\ inflight' = Nothing /\ staged' = Nothing
  /\ UNCHANGED <<options, manifest, touched>>

Complete ==
  /\ at = "applying"
  /\ transfer = {} /\ delete = {} /\ publish = {}
  /\ Clear("done")
  /\ UNCHANGED <<disk, clock, late, unstamped, overlapped>>

(* What the round has asked for and does not know the end of: writes whose *)
(* bytes were read, and once the commit has begun the deletions.  (The     *)
(* publication goes on as well, but it keeps the database lock: no round   *)
(* of the databases starts before it has ended.)                           *)
Outstanding ==
  {[side |-> Target, path |-> p, file |-> inflight[p]] :
     p \in {q \in Paths : inflight[q] # NoFile /\ NamespaceOf[q] = Plain}}
  \cup {[side |-> Target, path |-> p, file |-> NoFile] :
     p \in {q \in delete : at = "applying" /\ transfer = {} /\ NamespaceOf[q] = Plain}}

(* The round ends; some of it may take effect later. *)
GiveUp(pending) ==
  /\ Clear("idle")
  /\ \E kept \in SUBSET pending : late' = late \cup kept
  /\ UNCHANGED overlapped

(* An error, a cancellation or a crash ends the round where it is. *)
Interrupt ==
  /\ Running
  /\ GiveUp(Outstanding)
  /\ UNCHANGED <<disk, clock, unstamped>>

(* A write that ends after its rename and before set_file_modified_ms: the *)
(* file keeps the time it was written at.                                  *)
WriteUnstamped(p) ==
  /\ clock < MaxClock
  /\ at = "applying"
  /\ inflight[p] # NoFile
  /\ NamespaceOf[p] = Plain
  /\ clock' = clock + 1
  /\ disk' = [disk EXCEPT ![Target][p] =
       [size |-> inflight[p].size, mtime |-> clock + 1,
        edit |-> inflight[p].edit, torn |-> inflight[p].torn]]
  /\ unstamped' = unstamped \cup {p}
  /\ GiveUp({change \in Outstanding : change.path # p})

(* An upload or a commit whose client has gone, or a file operation whose  *)
(* caller was cancelled, takes effect after all ...                        *)
LateChange(change) ==
  /\ late' = late \ {change}
  /\ disk' = [disk EXCEPT ![change.side][change.path] = change.file]
  /\ touched' = touched \cup {<<change.side, change.path>>}
  /\ UNCHANGED <<clock, options, at, manifest, transfer, delete, inflight, staged, publish,
                 unstamped, overlapped>>

(* ... or without its time stamp, if it is then dropped. *)
LateUnstamped(change) ==
  /\ clock < MaxClock
  /\ change.file # NoFile
  /\ late' = late \ {change}
  /\ clock' = clock + 1
  /\ disk' = [disk EXCEPT ![change.side][change.path] =
       [size |-> change.file.size, mtime |-> clock + 1,
        edit |-> change.file.edit, torn |-> change.file.torn]]
  /\ touched' = touched \cup {<<change.side, change.path>>}
  /\ unstamped' = unstamped \cup {change.path}
  /\ UNCHANGED <<options, at, manifest, transfer, delete, inflight, staged, publish, overlapped>>

Next ==
  \/ \E s \in Sides, p \in Paths : Discard(s, p) \/ \E z \in Sizes : Edit(s, p, z)
  \/ \E o \in Options : ScanClient(o)
  \/ ScanServer
  \/ \E p \in Paths :
       \/ Read(p) \/ WriteFile(p) \/ StageFile(p) \/ DeleteFile(p) \/ WriteUnstamped(p)
  \/ \E n \in Namespaces : PublishNamespace(n)
  \/ Complete
  \/ Interrupt
  \/ \E change \in late : LateChange(change) \/ LateUnstamped(change)

Spec == Init /\ [][Next]_vars
-----------------------------------------------------------------------------
(* Properties.                                                             *)

Stamp(file) == <<file.size, file.mtime>>

(* The planner's notion of "unchanged" is sound: files with the same size  *)
(* and modification time on both sides have the same bytes, whatever was   *)
(* interrupted or edited during a transfer before, and whenever what an    *)
(* earlier round left behind took effect, unless a round of that path had  *)
(* begun before it did.                                                    *)
SameStampSameBytes ==
  \A p \in Paths \ overlapped :
    LET c == disk["client"][p]
        s == disk["server"][p]
    IN c # NoFile /\ s # NoFile /\ Stamp(c) = Stamp(s) => c = s

Undisturbed == at = "done" /\ touched = {}

S == manifest[Source]
T == manifest[Target]

Newest(m, n) ==
  CHOOSE t \in {m[p].mtime : p \in {q \in Listed(m) : NamespaceOf[q] = n}} :
    \A p \in Listed(m) : NamespaceOf[p] = n => m[p].mtime <= t

Has(m, n) == \E p \in Listed(m) : NamespaceOf[p] = n

(* Which side a path is to come from, in the words of docs/Architecture.md: *)
(* Exact takes the source, PreferNewer keeps a target that is strictly     *)
(* newer (a namespace by its maximum time); what only the target has is    *)
(* retained by Incremental and removed by Mirror.                          *)
Winner(inSource, inTarget, newerTarget) ==
  CASE inSource /\ inTarget ->
         IF options.overwrite = "prefer_newer" /\ newerTarget THEN "target" ELSE "source"
    [] inSource /\ ~inTarget -> "source"
    [] ~inSource -> IF options.mode = "mirror" THEN "source" ELSE "target"

WinnerOf(p) ==
  LET n == NamespaceOf[p] IN
  IF n = Plain
    THEN Winner(p \in Listed(S), p \in Listed(T),
                p \in Listed(S) \cap Listed(T) /\ T[p].mtime > S[p].mtime)
    ELSE Winner(Has(S, n), Has(T, n),
                Has(S, n) /\ Has(T, n) /\ Newest(T, n) > Newest(S, n))

(* The two sides have the same file; where a round began with a change of  *)
(* an earlier one to come, only its size and time are the same.            *)
Alike(p) ==
  \/ disk[Target][p] = disk[Source][p]
  \/ /\ p \in overlapped
     /\ disk[Target][p] # NoFile /\ disk[Source][p] # NoFile
     /\ Stamp(disk[Target][p]) = Stamp(disk[Source][p])

(* A completed round that no edit and no late change disturbed leaves, for *)
(* every selected path, the file of the side that wins: its size, time and *)
(* bytes.                                                                  *)
RoundDoesWhatItSays ==
  Undisturbed =>
    \A p \in options.scope :
      IF WinnerOf(p) = "source"
        THEN Alike(p)
        ELSE /\ p \in Listed(T) <=> disk[Target][p] # NoFile
             /\ p \in Listed(T) => Stamp(disk[Target][p]) = <<T[p].size, T[p].mtime>>

(* Repeating such a round finds no ordinary file to transfer and nothing   *)
(* to delete.                                                              *)
RoundSettles ==
  Undisturbed =>
    LET again == Scan(Target, options.scope) IN
    /\ \A p \in Transfer(S, again, options.overwrite) : NamespaceOf[p] # Plain
    /\ Delete(S, again, options.mode, options.overwrite) = {}

(* What a step during a PreferNewer round does to a file of the target:    *)
(* unless it was changed after the scan, it is only replaced by bytes that *)
(* were edited later or are the same.                                      *)
NotReverted(p) ==
  LET old == disk[Target][p]
      new == disk'[Target][p]
  IN /\ options.overwrite = "prefer_newer" /\ at = "applying"
     /\ NamespaceOf[p] = Plain
     /\ old # NoFile /\ new # NoFile
     /\ <<Target, p>> \notin touched'
     => new.edit >= old.edit

(* PreferNewer never replaces a file by bytes of an earlier edit, in any   *)
(* sequence of rounds and edits in which every write got its time stamp    *)
(* and no round began while a write of an earlier one was still to come.   *)
NoRegression == [][\A p \in Paths \ (unstamped \cup overlapped) : NotReverted(p)]_vars
=============================================================================
