--------------------------- MODULE SyncRoundProofs ---------------------------
(***************************************************************************)
(* Proofs about SyncRound, for any set of paths, namespaces, sizes and     *)
(* selections, and any number of edits.                                    *)
(*                                                                         *)
(* The argument rests on the clock: an edit stamps a file with a time that *)
(* nothing else has, so that a file which was edited after a scan differs  *)
(* in its stamp from everything the manifests name.  What the round writes *)
(* has the stamp of the source's manifest; the target had another stamp    *)
(* there (or the file would not be in the plan), and the source has either *)
(* still the file that was scanned or one with another stamp.  The same is *)
(* true of a write that takes effect after its round, as long as no other  *)
(* round of the path has begun.                                            *)
(***************************************************************************)
EXTENDS SyncRound, WellFoundedInduction, TLAPS

Stamped(file, entry) == file.size = entry.size /\ file.mtime = entry.mtime

(* The file is what the scan of the side has found, or as absent. *)
AsScanned(s, p) ==
  IF p \in Listed(manifest[s])
    THEN disk[s][p] # NoFile /\ Stamped(disk[s][p], manifest[s][p])
    ELSE disk[s][p] = NoFile

PlannedTransfer == Transfer(S, T, options.overwrite)
PlannedDelete == Delete(S, T, options.mode, options.overwrite)
PlannedPublish == {NamespaceOf[p] : p \in PlannedTransfer \cup PlannedDelete} \ {Plain}

-----------------------------------------------------------------------------
(* The inductive invariant.                                                *)

(* Nothing is from the future. *)
Past ==
  /\ \A s \in Sides, p \in Paths : disk[s][p] # NoFile =>
       disk[s][p].mtime <= clock /\ disk[s][p].edit <= clock
  /\ \A p \in Paths : inflight[p] # NoFile => inflight[p].edit <= clock
  /\ \A s \in Sides : \A p \in Listed(manifest[s]) : manifest[s][p].mtime <= clock
  /\ \A c \in late : c.file # NoFile => c.file.mtime <= clock /\ c.file.edit <= clock

(* The manifests keep to the selection, and nobody edits a selected        *)
(* database during a round.                                                *)
Scoped ==
  /\ \A s \in Sides : Listed(manifest[s]) \subseteq options.scope
  /\ Running => \A s \in Sides, p \in options.scope :
       NamespaceOf[p] # Plain => <<s, p>> \notin touched

(* A side whose files only its user has changed since it was scanned.      *)
ScannedSide(s) ==
  \A p \in options.scope :
    /\ <<s, p>> \notin touched => AsScanned(s, p)
    /\ p \in Listed(manifest[s]) /\ disk[s][p] # NoFile /\ p \notin overlapped =>
         manifest[s][p].mtime <= disk[s][p].mtime

(* Between the two scans: what the client edits has a time of its own.     *)
ClientSide ==
  at = "scanned" =>
    /\ ScannedSide("client")
    /\ \A p \in options.scope \ overlapped :
         /\ <<"client", p>> \in touched
         /\ disk["client"][p] # NoFile /\ disk["server"][p] # NoFile
         => disk["client"][p].mtime # disk["server"][p].mtime

(* The round writes nothing on the source. *)
SourceSide == at \in {"applying", "done"} => ScannedSide(Source)

(* What is left of the plan; and a file that is still to be transferred    *)
(* does not have the stamp it will get.                                    *)
Planned ==
  at = "applying" =>
    /\ transfer \subseteq PlannedTransfer
    /\ delete \subseteq PlannedDelete
    /\ publish \subseteq PlannedPublish
    /\ publish # PlannedPublish => transfer = {}
    /\ \A p \in transfer \ overlapped :
         NamespaceOf[p] = Plain /\ disk[Target][p] # NoFile => ~Stamped(disk[Target][p], S[p])

(* The later edit has the later time. *)
InOrder(a, b) ==
  /\ a.mtime <= b.mtime => a.edit <= b.edit
  /\ b.mtime <= a.mtime => b.edit <= a.edit

EditsInOrder ==
  \A p \in Paths \ (unstamped \cup overlapped) :
    disk["client"][p] # NoFile /\ disk["server"][p] # NoFile =>
      InOrder(disk["client"][p], disk["server"][p])

(* Wherever a file has the stamp of these bytes it has these bytes. *)
Agrees(file, p) ==
  \A s \in Sides : disk[s][p] # NoFile /\ Stamped(disk[s][p], file) => disk[s][p] = file

(* What the target's user left alone is not later than bytes read for it. *)
NotLater(p) ==
  /\ options.overwrite = "prefer_newer" /\ NamespaceOf[p] = Plain
  /\ <<Target, p>> \notin touched /\ disk[Target][p] # NoFile
  => disk[Target][p].edit <= inflight[p].edit

(* Bytes that were read carry the planned stamp.                           *)
InFlight ==
  \A p \in Paths : inflight[p] # NoFile =>
    /\ at = "applying" /\ p \in transfer
    /\ Stamped(inflight[p], S[p])
    /\ <<Source, p>> \notin touched => inflight[p] = disk[Source][p]
    /\ p \notin overlapped => Agrees(inflight[p], p)
    /\ p \notin unstamped \cup overlapped =>
         /\ disk[Source][p] # NoFile => InOrder(inflight[p], disk[Source][p])
         /\ NotLater(p)

(* What the rounds before have left to come: in the scope of a round its   *)
(* path is overlapped, and elsewhere it is as it was when its round ended. *)
ToCome ==
  \A c \in late :
    /\ NamespaceOf[c.path] = Plain
    /\ at # "idle" /\ c.path \in options.scope => c.path \in overlapped
    /\ c.path \notin overlapped =>
         /\ \A d \in late : d.path = c.path => d = c
         /\ c.file # NoFile =>
              /\ Agrees(c.file, c.path)
              /\ c.path \notin unstamped =>
                   \A s \in Sides \ {c.side} :
                     disk[s][c.path] # NoFile => InOrder(c.file, disk[s][c.path])

(* The staging area holds the database files that have arrived.            *)
Staging ==
  \A p \in Paths :
    staged[p] = IF at = "applying" /\ NamespaceOf[p] # Plain /\ p \in PlannedTransfer \ transfer
                  THEN disk[Source][p] ELSE NoFile

(* What the round has done so far to the files of the target that its user *)
(* has left alone.                                                         *)
Progress(p) ==
  IF NamespaceOf[p] = Plain
    THEN IF p \in PlannedTransfer \ transfer
           THEN <<Source, p>> \notin touched => disk[Target][p] = disk[Source][p]
         ELSE IF p \in PlannedDelete \ delete THEN disk[Target][p] = NoFile
         ELSE AsScanned(Target, p)
    ELSE IF NamespaceOf[p] \in PlannedPublish \ publish
           THEN disk[Target][p] = staged[p]
           ELSE AsScanned(Target, p)

TargetSide ==
  at = "applying" => \A p \in options.scope : <<Target, p>> \notin touched => Progress(p)

Replaced(p) ==
  IF NamespaceOf[p] = Plain THEN p \in PlannedTransfer \cup PlannedDelete
  ELSE NamespaceOf[p] \in PlannedPublish

(* What a round that nobody disturbed has done. *)
Outcome ==
  Undisturbed => \A p \in options.scope :
    IF Replaced(p) THEN disk[Target][p] = disk[Source][p] ELSE AsScanned(Target, p)

IInv ==
  /\ TypeOK
  /\ Past
  /\ Scoped
  /\ SameStampSameBytes
  /\ ClientSide
  /\ SourceSide
  /\ Planned
  /\ EditsInOrder
  /\ InFlight
  /\ ToCome
  /\ Staging
  /\ TargetSide
  /\ Outcome

-----------------------------------------------------------------------------
(* What the proofs of the steps have in common.                            *)

Disks == [Sides -> [Paths -> File \cup {NoFile}]]

(* One file of one side is replaced. *)
Overwrite(s, p, v) == disk' = [disk EXCEPT ![s][p] = v]

(* That file is the new one, and the others are as before. *)
LEMMA Overwritten ==
  ASSUME disk \in Disks, NEW s \in Sides, NEW p \in Paths, NEW v \in File \cup {NoFile},
         Overwrite(s, p, v)
  PROVE  /\ disk' \in Disks
         /\ disk'[s][p] = v
         /\ \A r \in Sides, q \in Paths : r # s \/ q # p => disk'[r][q] = disk[r][q]
<1>1. \A r \in Sides : r # s => disk'[r] = disk[r]  BY DEF Disks, Overwrite
<1>2. disk'[s] = [disk[s] EXCEPT ![p] = v]  BY DEF Disks, Overwrite
<1>3. disk[s] \in [Paths -> File \cup {NoFile}]  BY DEF Disks
<1>4. /\ disk'[s] \in [Paths -> File \cup {NoFile}] /\ disk'[s][p] = v
      /\ \A q \in Paths : q # p => disk'[s][q] = disk[s][q]
  BY <1>2, <1>3
<1>5. \A r \in Sides : disk'[r] \in [Paths -> File \cup {NoFile}]  BY <1>1, <1>4 DEF Disks
<1>6. disk' = [r \in Sides |-> disk'[r]]  BY DEF Disks, Overwrite
<1>7. disk' \in Disks  BY <1>5, <1>6 DEF Disks
<1> QED  BY <1>1, <1>4, <1>7

(* The plan is a matter of the options and the manifests.                  *)
LEMMA SamePlan ==
  ASSUME UNCHANGED <<options, manifest>>
  PROVE  /\ Source' = Source /\ Target' = Target /\ S' = S /\ T' = T
         /\ PlannedTransfer' = PlannedTransfer
         /\ PlannedDelete' = PlannedDelete
         /\ PlannedPublish' = PlannedPublish
BY DEF Source, Target, S, T, PlannedTransfer, PlannedDelete, PlannedPublish

(* The two sides of a round. *)
LEMMA TwoSides ==
  /\ Source \in Sides /\ Target \in Sides /\ Source # Target
  /\ Sides = {"client", "server"}
  /\ \A s \in Sides : s # Target => s = Source
BY DEF Source, Target, Sides

(* Sizes and times are numbers. *)
LEMMA Numbers == Sizes \subseteq Nat /\ Times \subseteq Nat /\ \A t \in Times : t <= MaxClock
<1>1. MaxClock \in Nat /\ Sizes \subseteq Nat  BY RoundAssumption
<1> QED  BY <1>1 DEF Times

(* What a type-correct state gives the other proofs.                       *)
LEMMA Types ==
  ASSUME TypeOK
  PROVE  /\ disk \in Disks
         /\ clock \in Nat /\ clock <= MaxClock
         /\ options.scope \subseteq Paths
         /\ \A s \in Sides, p \in Paths : disk[s][p] # NoFile =>
              /\ disk[s][p] \in File
              /\ disk[s][p].mtime \in Nat /\ disk[s][p].edit \in Nat /\ disk[s][p].size \in Nat
         /\ \A p \in Paths : inflight[p] # NoFile =>
              inflight[p].mtime \in Nat /\ inflight[p].edit \in Nat /\ inflight[p].size \in Nat
         /\ \A s \in Sides : \A p \in Listed(manifest[s]) :
              manifest[s][p].mtime \in Nat /\ manifest[s][p].size \in Nat
         /\ \A c \in late :
              /\ c.side \in Sides /\ c.path \in Paths /\ c.file \in File \cup {NoFile}
              /\ c.file # NoFile => c.file.mtime \in Nat /\ c.file.edit \in Nat
<1>1. disk \in Disks  BY DEF TypeOK, Disks
<1>2. clock \in Nat /\ clock <= MaxClock  BY Numbers DEF TypeOK
<1>3. options.scope \subseteq Paths  BY RoundAssumption DEF TypeOK, Options
<1>4. \A f \in File : f.mtime \in Nat /\ f.edit \in Nat /\ f.size \in Nat
  BY Numbers DEF File
<1>5. \A s \in Sides, p \in Paths : disk[s][p] # NoFile => disk[s][p] \in File
  BY <1>1 DEF Disks
<1>6. \A p \in Paths : inflight[p] # NoFile => inflight[p] \in File  BY DEF TypeOK
<1>7. ASSUME NEW s \in Sides, NEW p \in Listed(manifest[s])
      PROVE  manifest[s][p].mtime \in Nat /\ manifest[s][p].size \in Nat
  <2>1. PICK listed \in SUBSET Paths : manifest[s] \in [listed -> [size : Sizes, mtime : Times]]
    BY DEF TypeOK, Manifests
  <2>2. manifest[s][p] \in [size : Sizes, mtime : Times]  BY <2>1 DEF Listed
  <2> QED  BY <2>2, Numbers
<1>8. \A c \in late : c.side \in Sides /\ c.path \in Paths /\ c.file \in File \cup {NoFile}
  BY DEF TypeOK, Change
<1> QED  BY <1>1, <1>2, <1>3, <1>4, <1>5, <1>6, <1>7, <1>8

(* The plan names selected paths; it transfers what the source has and     *)
(* deletes what it does not have.                                          *)
LEMMA PlanInScope ==
  ASSUME TypeOK, Scoped
  PROVE  /\ PlannedTransfer \subseteq options.scope /\ PlannedDelete \subseteq options.scope
         /\ PlannedTransfer \subseteq Listed(S) /\ PlannedDelete \cap Listed(S) = {}
         /\ PlannedTransfer \cap PlannedDelete = {}
         /\ Listed(S) \subseteq options.scope /\ Listed(T) \subseteq options.scope
BY TwoSides DEF Scoped, PlannedTransfer, PlannedDelete, Transfer, Delete, S, T

(* A step of a round leaves what is late as it is: the ordinary files it   *)
(* changes are in its scope, where what is late is overlapped.             *)
LEMMA QuietLate ==
  ASSUME TypeOK, ToCome, at # "idle", UNCHANGED <<options, late, unstamped, overlapped>>,
         \A s \in Sides, q \in Paths :
           NamespaceOf[q] = Plain /\ q \notin options.scope => disk'[s][q] = disk[s][q]
  PROVE  ToCome'
<1> SUFFICES ASSUME NEW c \in late
             PROVE  /\ NamespaceOf[c.path] = Plain
                    /\ at' # "idle" /\ c.path \in options.scope => c.path \in overlapped
                    /\ c.path \notin overlapped =>
                         /\ \A d \in late : d.path = c.path => d = c
                         /\ c.file # NoFile =>
                              /\ Agrees(c.file, c.path)'
                              /\ c.path \notin unstamped =>
                                   \A s \in Sides \ {c.side} :
                                     disk'[s][c.path] # NoFile => InOrder(c.file, disk'[s][c.path])
  BY DEF ToCome, Agrees, InOrder, Stamped
<1>1. c.path \in Paths  BY Types
<1>2. /\ NamespaceOf[c.path] = Plain
      /\ c.path \in options.scope => c.path \in overlapped
  BY DEF ToCome
<1>3. CASE c.path \in overlapped  BY <1>2, <1>3
<1>4. CASE c.path \notin overlapped
  <2>1. \A s \in Sides : disk'[s][c.path] = disk[s][c.path]  BY <1>1, <1>2, <1>4
  <2> QED  BY <1>2, <1>4, <2>1 DEF ToCome, Agrees
<1> QED  BY <1>3, <1>4

-----------------------------------------------------------------------------
(* The users of the two sides.                                             *)

(* An edit puts a file of the next moment on a side, a removal none.       *)
UserChange(s, p, v) ==
  /\ v \in File \cup {NoFile}
  /\ v # NoFile => clock' = clock + 1 /\ v.mtime = clock' /\ v.edit = clock'
  /\ clock' \in Times /\ clock <= clock'
  /\ MayEdit(p)
  /\ disk' \in Disks
  /\ disk'[s][p] = v
  /\ \A r \in Sides, q \in Paths : r # s \/ q # p => disk'[r][q] = disk[r][q]
  /\ touched' = touched \cup {<<s, p>>}
  /\ UNCHANGED <<options, at, manifest, transfer, delete, inflight, staged, publish, late,
                 unstamped, overlapped>>

(* Edit and Discard are such changes. *)
LEMMA UserChanges ==
  ASSUME TypeOK, NEW s \in Sides, NEW p \in Paths, Discard(s, p) \/ \E z \in Sizes : Edit(s, p, z)
  PROVE  \E v : UserChange(s, p, v)
<1>1. disk \in Disks /\ clock \in Nat /\ clock \in Times  BY Types DEF TypeOK
<1>2. CASE Discard(s, p)
  <2>1. NoFile \in File \cup {NoFile}  OBVIOUS
  <2>2. Overwrite(s, p, NoFile)  BY <1>2 DEF Discard, Overwrite
  <2>3. /\ disk' \in Disks /\ disk'[s][p] = NoFile
        /\ \A r \in Sides, q \in Paths : r # s \/ q # p => disk'[r][q] = disk[r][q]
    BY <1>1, <2>1, <2>2, Overwritten
  <2>4. UserChange(s, p, NoFile)  BY <1>1, <1>2, <2>3 DEF UserChange, Discard
  <2> QED  BY <2>4
<1>3. ASSUME NEW z \in Sizes, Edit(s, p, z) PROVE \E v : UserChange(s, p, v)
  <2> DEFINE v == [size |-> z, mtime |-> clock + 1, edit |-> clock + 1, torn |-> FALSE]
  <2>1. MaxClock \in Nat  BY RoundAssumption
  <2>2. clock + 1 \in Times /\ clock <= clock + 1  BY <1>1, <1>3, <2>1 DEF Edit, Times
  <2>3. v \in File /\ v.mtime = clock + 1 /\ v.edit = clock + 1  BY <2>2 DEF File
  <2>4. Overwrite(s, p, v)  BY <1>3 DEF Edit, Overwrite
  <2> HIDE DEF v
  <2>5. /\ disk' \in Disks /\ disk'[s][p] = v
        /\ \A r \in Sides, q \in Paths : r # s \/ q # p => disk'[r][q] = disk[r][q]
    BY <1>1, <2>3, <2>4, Overwritten
  <2>6. UserChange(s, p, v)  BY <1>3, <2>2, <2>3, <2>5 DEF UserChange, Edit
  <2> QED  BY <2>6
<1> QED  BY <1>2, <1>3

(* A user's change keeps the invariant: the file has a stamp of its own,   *)
(* and the round claims nothing of it any more.                            *)
LEMMA UserKeeps ==
  ASSUME IInv, NEW s \in Sides, NEW p \in Paths, NEW v, UserChange(s, p, v)
  PROVE  IInv'
<1>1. /\ UNCHANGED <<options, at, manifest, transfer, delete, inflight, staged, publish, late,
                     unstamped, overlapped>>
      /\ touched' = touched \cup {<<s, p>>}
      /\ clock' \in Nat /\ clock \in Nat /\ clock <= clock'
      /\ disk'[s][p] = v /\ disk' \in Disks
  BY Numbers, Types DEF UserChange, IInv
<1>2. \A r \in Sides, q \in Paths : r # s \/ q # p => disk'[r][q] = disk[r][q]
  BY DEF UserChange
<1>3. v # NoFile => v.mtime = clock' /\ v.edit = clock' /\ clock' = clock + 1
  BY DEF UserChange
<1>4. TypeOK /\ Past /\ Scoped /\ SameStampSameBytes /\ ToCome  BY DEF IInv
<1>5. /\ Source' = Source /\ Target' = Target /\ S' = S /\ T' = T
      /\ PlannedTransfer' = PlannedTransfer
      /\ PlannedDelete' = PlannedDelete /\ PlannedPublish' = PlannedPublish
      /\ Running' = Running /\ Source \in Sides /\ Target \in Sides /\ Source # Target
  BY <1>1, SamePlan, TwoSides DEF Running
<1>6. TypeOK'
  BY <1>1, <1>4 DEF TypeOK, Disks, UserChange
<1>7. Past'
  <2>1. \A r \in Sides, q \in Paths : disk'[r][q] # NoFile =>
          disk'[r][q].mtime <= clock' /\ disk'[r][q].edit <= clock'
    BY <1>1, <1>2, <1>3, <1>4, Types DEF Past
  <2>2. \A q \in Paths : inflight'[q] # NoFile => inflight'[q].edit <= clock'
    BY <1>1, <1>4, Types DEF Past
  <2>3. \A r \in Sides : \A q \in Listed(manifest'[r]) : manifest'[r][q].mtime <= clock'
    BY <1>1, <1>4, Types DEF Past
  <2>4. \A c \in late' : c.file # NoFile => c.file.mtime <= clock' /\ c.file.edit <= clock'
    BY <1>1, <1>4, Types DEF Past
  <2> QED  BY <2>1, <2>2, <2>3, <2>4 DEF Past
<1>8. Scoped'
  BY <1>1, <1>4, <1>5 DEF Scoped, UserChange, MayEdit
<1>9. \A r \in Sides, q \in Paths : disk[r][q] # NoFile => disk[r][q].mtime < clock' \/ clock' = clock
  BY <1>1, <1>4, Types DEF Past
<1>10. ASSUME NEW r \in Sides, r # s, v # NoFile, disk[r][p] # NoFile
       PROVE  disk[r][p].mtime < v.mtime /\ disk[r][p].edit < v.edit
  BY <1>1, <1>3, <1>4, <1>10, Types DEF Past
<1>11. SameStampSameBytes'
  <2> SUFFICES ASSUME NEW q \in Paths \ overlapped,
                      disk'["client"][q] # NoFile, disk'["server"][q] # NoFile,
                      Stamp(disk'["client"][q]) = Stamp(disk'["server"][q])
               PROVE  disk'["client"][q] = disk'["server"][q]
    BY <1>1 DEF SameStampSameBytes, Stamp
  <2>1. CASE q # p
    <3>1. disk'["client"][q] = disk["client"][q] /\ disk'["server"][q] = disk["server"][q]
      BY <1>2, <2>1 DEF Sides
    <3> QED  BY <1>4, <3>1 DEF SameStampSameBytes
  <2>2. CASE q = p
    <3>1. PICK r \in Sides : r # s  BY DEF Sides
    <3>2. disk'[r][p] = disk[r][p] /\ v # NoFile /\ disk[r][p] # NoFile
      BY <1>1, <1>2, <2>2, <3>1 DEF Sides
    <3>3. disk[r][p].mtime < v.mtime /\ disk[r][p].mtime \in Nat  BY <1>4, <1>10, <3>1, <3>2, Types
    <3>4. disk'["client"][q].mtime = disk'["server"][q].mtime  BY DEF Stamp
    <3>5. v.mtime = disk[r][p].mtime  BY <1>1, <2>2, <3>1, <3>2, <3>4 DEF Sides
    <3> QED  BY <1>1, <1>3, <3>2, <3>3, <3>5
  <2> QED  BY <2>1, <2>2
<1>12. ASSUME NEW r \in Sides, ScannedSide(r) PROVE ScannedSide(r)'
  <2> SUFFICES ASSUME NEW q \in options.scope
               PROVE  /\ <<r, q>> \notin touched' => AsScanned(r, q)'
                      /\ q \in Listed(manifest[r]) /\ disk'[r][q] # NoFile /\ q \notin overlapped =>
                           manifest[r][q].mtime <= disk'[r][q].mtime
    BY <1>1 DEF ScannedSide
  <2>1. q \in Paths  BY <1>4, Types
  <2>2. CASE r # s \/ q # p
    <3>1. disk'[r][q] = disk[r][q]  BY <1>2, <2>1, <2>2
    <3> QED  BY <1>1, <1>12, <3>1 DEF ScannedSide, AsScanned
  <2>3. CASE r = s /\ q = p
    <3>1. <<r, q>> \in touched'  BY <1>1, <2>3
    <3>2. q \in Listed(manifest[r]) /\ v # NoFile => manifest[r][q].mtime <= v.mtime
      BY <1>1, <1>3, <1>4, Types DEF Past
    <3> QED  BY <1>1, <2>3, <3>1, <3>2
  <2> QED  BY <2>2, <2>3
<1>13. ClientSide'
  <2> SUFFICES ASSUME at = "scanned"
               PROVE  /\ ScannedSide("client")'
                      /\ \A q \in options.scope \ overlapped :
                           /\ <<"client", q>> \in touched'
                           /\ disk'["client"][q] # NoFile /\ disk'["server"][q] # NoFile
                           => disk'["client"][q].mtime # disk'["server"][q].mtime
    BY <1>1 DEF ClientSide
  <2>1. ScannedSide("client")'  BY <1>12 DEF IInv, ClientSide, Sides
  <2> SUFFICES ASSUME NEW q \in options.scope \ overlapped, <<"client", q>> \in touched',
                      disk'["client"][q] # NoFile, disk'["server"][q] # NoFile
               PROVE  disk'["client"][q].mtime # disk'["server"][q].mtime
    BY <2>1
  <2>2. CASE q # p
    <3>1. disk'["client"][q] = disk["client"][q] /\ disk'["server"][q] = disk["server"][q]
      BY <1>2, <1>4, <2>2, Types DEF Sides
    <3> QED  BY <1>1, <2>2, <3>1 DEF IInv, ClientSide
  <2>3. CASE q = p
    <3>1. PICK r \in Sides : r # s  BY DEF Sides
    <3>2. disk'[r][p] = disk[r][p] /\ v # NoFile /\ disk[r][p] # NoFile
      BY <1>1, <1>2, <2>3, <3>1 DEF Sides
    <3>3. disk[r][p].mtime < v.mtime /\ disk[r][p].mtime \in Nat  BY <1>4, <1>10, <3>1, <3>2, Types
    <3> QED  BY <1>1, <1>3, <2>3, <3>1, <3>2, <3>3 DEF Sides
  <2> QED  BY <2>2, <2>3
<1>14. SourceSide'  BY <1>1, <1>5, <1>12 DEF IInv, SourceSide
<1>15. ASSUME v # NoFile, NEW r \in Sides, NEW q \in Listed(manifest[r])
       PROVE  ~Stamped(v, manifest[r][q])
  BY <1>1, <1>3, <1>4, <1>15, Types DEF Past, Stamped
<1>16. Planned'
  <2> SUFFICES ASSUME at = "applying", NEW q \in transfer \ overlapped,
                      NamespaceOf[q] = Plain, disk'[Target][q] # NoFile
               PROVE  ~Stamped(disk'[Target][q], S[q])
    BY <1>1, <1>5 DEF IInv, Planned
  <2>1. q \in Listed(S) /\ q \in Paths  BY <1>4, PlanInScope, Types DEF IInv, Planned
  <2>2. CASE Target # s \/ q # p
    <3>1. disk'[Target][q] = disk[Target][q]  BY <1>2, <1>5, <2>1, <2>2
    <3> QED  BY <3>1 DEF IInv, Planned
  <2>3. CASE Target = s /\ q = p  BY <1>1, <1>5, <1>15, <2>1, <2>3 DEF S
  <2> QED  BY <2>2, <2>3
<1>17. EditsInOrder'
  <2> SUFFICES ASSUME NEW q \in Paths \ (unstamped \cup overlapped),
                      disk'["client"][q] # NoFile, disk'["server"][q] # NoFile
               PROVE  InOrder(disk'["client"][q], disk'["server"][q])
    BY <1>1 DEF EditsInOrder, InOrder
  <2>1. CASE q # p
    <3>1. disk'["client"][q] = disk["client"][q] /\ disk'["server"][q] = disk["server"][q]
      BY <1>2, <2>1 DEF Sides
    <3> QED  BY <3>1 DEF IInv, EditsInOrder
  <2>2. CASE q = p
    <3>1. PICK r \in Sides : r # s  BY DEF Sides
    <3>2. disk'[r][p] = disk[r][p] /\ v # NoFile /\ disk[r][p] # NoFile
      BY <1>1, <1>2, <2>2, <3>1 DEF Sides
    <3>3. disk[r][p].mtime < v.mtime /\ disk[r][p].edit < v.edit
      BY <1>10, <3>1, <3>2
    <3>4. /\ disk[r][p].mtime \in Nat /\ disk[r][p].edit \in Nat
          /\ v.mtime \in Nat /\ v.edit \in Nat
      BY <1>1, <1>3, <1>4, <3>2, Types
    <3>5. InOrder(disk[r][p], v) /\ InOrder(v, disk[r][p])  BY <3>3, <3>4 DEF InOrder
    <3> QED  BY <1>1, <2>2, <3>1, <3>2, <3>5 DEF Sides
  <2> QED  BY <2>1, <2>2
<1>18. InFlight'
  <2> SUFFICES ASSUME NEW q \in Paths, inflight[q] # NoFile
               PROVE  /\ at = "applying" /\ q \in transfer
                      /\ Stamped(inflight[q], S[q])
                      /\ <<Source, q>> \notin touched' => inflight[q] = disk'[Source][q]
                      /\ q \notin overlapped => Agrees(inflight[q], q)'
                      /\ q \notin unstamped \cup overlapped =>
                           /\ disk'[Source][q] # NoFile => InOrder(inflight[q], disk'[Source][q])
                           /\ NotLater(q)'
    <3> HIDE DEF IInv
    <3> QED BY <1>1, <1>5 DEF InFlight, Stamped, InOrder, Agrees
  <2>1. /\ at = "applying" /\ q \in transfer
        /\ Stamped(inflight[q], S[q])
        /\ <<Source, q>> \notin touched => inflight[q] = disk[Source][q]
        /\ q \notin overlapped => Agrees(inflight[q], q)
        /\ q \notin unstamped \cup overlapped =>
             /\ disk[Source][q] # NoFile => InOrder(inflight[q], disk[Source][q])
             /\ NotLater(q)
    BY DEF IInv, InFlight
  <2>2. CASE q # p
    <3>1. \A r \in Sides : disk'[r][q] = disk[r][q] /\ (<<r, q>> \in touched' <=> <<r, q>> \in touched)
      BY <1>1, <1>2, <2>2
    <3>2. Agrees(inflight[q], q) => Agrees(inflight[q], q)'  BY <1>1, <3>1 DEF Agrees, Stamped
    <3>3. NotLater(q) => NotLater(q)'  BY <1>1, <1>5, <3>1 DEF NotLater
    <3> QED  BY <1>5, <2>1, <3>1, <3>2, <3>3
  <2>3. CASE q = p
    <3>1. \A r \in Sides : r # s => disk'[r][q] = disk[r][q] /\ (<<r, q>> \in touched' <=> <<r, q>> \in touched)
      BY <1>1, <1>2
    <3>2. q \in Listed(S)  BY <1>4, <2>1, PlanInScope DEF IInv, Planned
    <3>3. v # NoFile => ~Stamped(v, S[q])  BY <1>5, <1>15, <3>2 DEF S
    <3>4. <<s, q>> \in touched'  BY <1>1, <2>3
    <3>5. v # NoFile => InOrder(inflight[q], v)
      <4>1. inflight[q].mtime \in Nat /\ inflight[q].edit \in Nat /\ inflight[q].edit <= clock
        BY <1>4, Types DEF Past
      <4>2. inflight[q].mtime <= clock
        BY <1>4, <1>5, <2>1, <3>2 DEF Past, Stamped, S
      <4> QED  BY <1>1, <1>3, <4>1, <4>2 DEF InOrder
    <3>6. Agrees(inflight[q], q) => Agrees(inflight[q], q)'
      <4>1. v # NoFile => ~Stamped(v, inflight[q])  BY <2>1, <3>3 DEF Stamped
      <4> QED  BY <1>1, <2>3, <3>1, <4>1 DEF Agrees, Stamped
    <3>7. NotLater(q) => NotLater(q)'  BY <1>1, <1>5, <2>3, <3>1, <3>4 DEF NotLater
    <3>8. <<Source, q>> \notin touched' => inflight[q] = disk'[Source][q]
      BY <1>5, <2>1, <2>3, <3>1, <3>4
    <3>9. ASSUME q \notin unstamped \cup overlapped, disk'[Source][q] # NoFile
          PROVE  InOrder(inflight[q], disk'[Source][q])
      BY <1>1, <1>5, <2>1, <2>3, <3>1, <3>5, <3>9
    <3> QED  BY <2>1, <3>6, <3>7, <3>8, <3>9
  <2> QED  BY <2>2, <2>3
<1>19. ASSUME at = "applying", NEW q \in options.scope, NamespaceOf[q] # Plain
       PROVE  q # p
  BY <1>4, <1>19 DEF UserChange, MayEdit, Running
<1>20. Staging'
  <2> SUFFICES ASSUME NEW q \in Paths, at = "applying", NamespaceOf[q] # Plain, q \in PlannedTransfer \ transfer
               PROVE  disk'[Source][q] = disk[Source][q]
    BY <1>1, <1>5 DEF IInv, Staging
  <2>1. q \in options.scope  BY <1>4, PlanInScope
  <2> QED  BY <1>2, <1>5, <1>19, <2>1
<1>21. TargetSide'
  <2> SUFFICES ASSUME at = "applying", NEW q \in options.scope, <<Target, q>> \notin touched'
               PROVE  Progress(q)'
    BY <1>1, <1>5 DEF TargetSide
  <2>1. Progress(q) /\ ~(Target = s /\ q = p) /\ q \in Paths
    BY <1>1, <1>4, Types DEF IInv, TargetSide
  <2>2. disk'[Target][q] = disk[Target][q] /\ AsScanned(Target, q)' = AsScanned(Target, q)
    BY <1>1, <1>2, <1>5, <2>1 DEF AsScanned
  <2>3. <<Source, q>> \notin touched' => <<Source, q>> \notin touched /\ disk'[Source][q] = disk[Source][q]
    BY <1>1, <1>2, <1>5, <2>1
  <2> QED  BY <1>1, <1>5, <2>1, <2>2, <2>3 DEF Progress
<1>22. Outcome'  BY <1>1 DEF Outcome, Undisturbed
<1>23. ToCome'
  <2> SUFFICES ASSUME NEW c \in late
               PROVE  /\ NamespaceOf[c.path] = Plain
                      /\ at # "idle" /\ c.path \in options.scope => c.path \in overlapped
                      /\ c.path \notin overlapped =>
                           /\ \A d \in late : d.path = c.path => d = c
                           /\ c.file # NoFile =>
                                /\ Agrees(c.file, c.path)'
                                /\ c.path \notin unstamped =>
                                     \A r \in Sides \ {c.side} :
                                       disk'[r][c.path] # NoFile => InOrder(c.file, disk'[r][c.path])
    BY <1>1 DEF ToCome, Agrees, InOrder, Stamped
  <2>1. /\ NamespaceOf[c.path] = Plain
        /\ at # "idle" /\ c.path \in options.scope => c.path \in overlapped
        /\ c.path \notin overlapped =>
             /\ \A d \in late : d.path = c.path => d = c
             /\ c.file # NoFile =>
                  /\ Agrees(c.file, c.path)
                  /\ c.path \notin unstamped =>
                       \A r \in Sides \ {c.side} :
                         disk[r][c.path] # NoFile => InOrder(c.file, disk[r][c.path])
    BY <1>4 DEF ToCome
  <2>2. c.path \in Paths /\ (c.file # NoFile => c.file.mtime \in Nat /\ c.file.edit \in Nat)
    BY <1>4, Types
  <2>3. ASSUME c.file # NoFile, NEW r \in Sides, disk'[r][c.path] # disk[r][c.path],
               disk'[r][c.path] # NoFile
        PROVE  ~Stamped(disk'[r][c.path], c.file) /\ InOrder(c.file, disk'[r][c.path])
    <3>1. r = s /\ c.path = p  BY <1>2, <2>2, <2>3
    <3>2. disk'[r][c.path].mtime = clock + 1 /\ disk'[r][c.path].edit = clock + 1
      BY <1>1, <1>3, <2>3, <3>1
    <3>3. c.file.mtime <= clock /\ c.file.edit <= clock  BY <1>4, <2>3 DEF Past
    <3> QED  BY <1>1, <2>2, <2>3, <3>2, <3>3 DEF Stamped, InOrder
  <2>4. c.file # NoFile /\ Agrees(c.file, c.path) => Agrees(c.file, c.path)'
    BY <2>3 DEF Agrees, Stamped
  <2> QED  BY <2>1, <2>3, <2>4
<1> QED
  BY <1>6, <1>7, <1>8, <1>11, <1>13, <1>14, <1>16, <1>17, <1>18, <1>20, <1>21, <1>22, <1>23
  DEF IInv

-----------------------------------------------------------------------------
(* The scans.                                                              *)

(* A scan lists the files of the scope with their stamps.                  *)
LEMMA ScanLists ==
  ASSUME TypeOK, NEW s \in Sides, NEW scope \in SUBSET Paths
  PROVE  /\ Scan(s, scope) \in Manifests
         /\ Listed(Scan(s, scope)) = {q \in scope : disk[s][q] # NoFile}
         /\ \A q \in Listed(Scan(s, scope)) : Stamped(disk[s][q], Scan(s, scope)[q])
<1> DEFINE listed == {q \in scope : disk[s][q] # NoFile}
<1>1. \A q \in listed : [size |-> disk[s][q].size, mtime |-> disk[s][q].mtime]
                          \in [size : Sizes, mtime : Times]
  <2>1. \A q \in listed : disk[s][q] \in File  BY Types
  <2> QED  BY <2>1 DEF File
<1>2. Scan(s, scope) = [q \in listed |-> [size |-> disk[s][q].size, mtime |-> disk[s][q].mtime]]
  BY DEF Scan
<1>3. Scan(s, scope) \in [listed -> [size : Sizes, mtime : Times]]  BY <1>1, <1>2
<1>4. listed \in SUBSET Paths  OBVIOUS
<1>5. Scan(s, scope) \in Manifests  BY <1>3, <1>4 DEF Manifests
<1>6. Listed(Scan(s, scope)) = listed  BY <1>2 DEF Listed
<1>7. \A q \in listed : Stamped(disk[s][q], Scan(s, scope)[q])  BY <1>2 DEF Stamped
<1> QED  BY <1>5, <1>6, <1>7

(* The first scan starts a round with nothing of the one before.           *)
LEMMA ScanClientKeeps ==
  ASSUME IInv, NEW o \in Options, ScanClient(o)
  PROVE  IInv'
<1>1. /\ ~Running /\ at' = "scanned" /\ touched' = {} /\ options' = o
      /\ UNCHANGED <<disk, clock, transfer, delete, inflight, staged, publish, late, unstamped>>
      /\ overlapped' = overlapped \cup ({c.path : c \in late} \cap o.scope)
      /\ manifest' = [s \in Sides |-> IF s = "client" THEN Scan(s, o.scope) ELSE NoManifest[s]]
  BY DEF ScanClient
<1>2. TypeOK /\ Past  BY DEF IInv
<1>3. o.scope \subseteq Paths  BY RoundAssumption DEF Options
<1> DEFINE listed == {q \in o.scope : disk["client"][q] # NoFile}
<1>4. /\ manifest'["client"] \in Manifests
      /\ Listed(manifest'["client"]) = listed
      /\ \A q \in listed : Stamped(disk["client"][q], manifest'["client"][q])
  BY <1>1, <1>2, <1>3, ScanLists DEF Sides
<1>5. manifest'["server"] \in Manifests /\ Listed(manifest'["server"]) = {}
  <2>1. manifest'["server"] = [p \in {} |-> NoFile]  BY <1>1 DEF NoManifest, Sides
  <2>2. manifest'["server"] \in [{} -> [size : Sizes, mtime : Times]]  BY <2>1
  <2> QED  BY <2>1, <2>2 DEF Manifests, Listed
<1>6. manifest' \in [Sides -> Manifests]
  <2>1. \A s \in Sides : manifest'[s] \in Manifests  BY <1>4, <1>5 DEF Sides
  <2>2. manifest' = [s \in Sides |-> manifest'[s]]  BY <1>1
  <2> QED  BY <2>1, <2>2
<1>7. TypeOK'
  <2>1. overlapped' \subseteq Paths  BY <1>1, <1>2, <1>3 DEF TypeOK
  <2> QED  BY <1>1, <1>2, <1>6, <2>1 DEF TypeOK
<1>8. Past'
  <2>1. \A q \in listed : manifest'["client"][q].mtime <= clock
    BY <1>2, <1>3, <1>4 DEF Past, Stamped, Sides
  <2> QED  BY <1>1, <1>2, <1>4, <1>5, <2>1 DEF Past, Sides
<1>9. Scoped'  BY <1>1, <1>4, <1>5 DEF Scoped, Sides
<1>10. SameStampSameBytes'  BY <1>1 DEF IInv, SameStampSameBytes, Stamp
<1>11. ClientSide'
  <2>1. ASSUME NEW q \in o.scope
        PROVE  /\ AsScanned("client", q)'
               /\ q \in Listed(manifest'["client"]) => manifest'["client"][q].mtime <= disk["client"][q].mtime
    <3>1. q \in Paths  BY <1>3, <2>1
    <3>2. AsScanned("client", q)'  BY <1>1, <1>4 DEF AsScanned
    <3>3. q \in listed => /\ disk["client"][q].mtime \in Nat
                          /\ manifest'["client"][q].mtime = disk["client"][q].mtime
      BY <1>2, <1>4, <3>1, Types DEF Stamped, Sides
    <3> QED  BY <1>4, <3>2, <3>3
  <2>2. ScannedSide("client")'  BY <1>1, <2>1 DEF ScannedSide
  <2> QED  BY <1>1, <2>2 DEF ClientSide
<1>12. SourceSide' /\ Planned' /\ TargetSide' /\ Outcome'
  BY <1>1 DEF SourceSide, Planned, TargetSide, Outcome, Undisturbed
<1>13. EditsInOrder'  BY <1>1 DEF IInv, EditsInOrder
<1>14. at # "applying"  BY <1>1 DEF Running
<1>15. InFlight'  BY <1>1, <1>14 DEF IInv, InFlight
<1>16. Staging'  BY <1>1, <1>14 DEF IInv, Staging
<1>17. ToCome'
  <2> SUFFICES ASSUME NEW c \in late
               PROVE  /\ NamespaceOf[c.path] = Plain
                      /\ c.path \in o.scope => c.path \in overlapped'
                      /\ c.path \notin overlapped' =>
                           /\ \A d \in late : d.path = c.path => d = c
                           /\ c.file # NoFile =>
                                /\ Agrees(c.file, c.path)
                                /\ c.path \notin unstamped =>
                                     \A s \in Sides \ {c.side} :
                                       disk[s][c.path] # NoFile => InOrder(c.file, disk[s][c.path])
    BY <1>1 DEF ToCome, Agrees, InOrder, Stamped
  <2>1. c.path \in o.scope => c.path \in overlapped'  BY <1>1
  <2>2. c.path \notin overlapped' => c.path \notin overlapped  BY <1>1
  <2> QED  BY <2>1, <2>2 DEF IInv, ToCome
<1> QED
  BY <1>7, <1>8, <1>9, <1>10, <1>11, <1>12, <1>13, <1>15, <1>16, <1>17 DEF IInv

(* The second scan makes the plan: what is in it differs in its stamp from *)
(* what the target has, also where the client has edited since its scan.   *)
LEMMA ScanServerKeeps ==
  ASSUME IInv, ScanServer
  PROVE  IInv'
<1>1. /\ at = "scanned" /\ at' = "applying"
      /\ UNCHANGED <<disk, clock, options, inflight, staged, touched, late, unstamped, overlapped>>
      /\ manifest' = [manifest EXCEPT !["server"] = Scan("server", options.scope)]
  BY DEF ScanServer
<1>2. TypeOK /\ Past /\ Scoped /\ ClientSide  BY DEF IInv
<1>3. options.scope \subseteq Paths /\ disk \in Disks  BY <1>2, Types
<1> DEFINE listed == {q \in options.scope : disk["server"][q] # NoFile}
<1>4. manifest'["client"] = manifest["client"] /\ manifest' = [s \in Sides |-> manifest'[s]]
  BY <1>1, <1>2 DEF TypeOK, Sides
<1>5. /\ manifest'["server"] \in Manifests
      /\ Listed(manifest'["server"]) = listed
      /\ \A q \in listed : Stamped(disk["server"][q], manifest'["server"][q])
  BY <1>1, <1>2, <1>3, ScanLists DEF TypeOK, Sides
<1>6. manifest' \in [Sides -> Manifests]
  <2>1. \A s \in Sides : manifest'[s] \in Manifests  BY <1>2, <1>4, <1>5 DEF Sides, TypeOK
  <2> QED  BY <1>4, <2>1
<1>7. Source' = Source /\ Target' = Target  BY <1>1 DEF Source, Target
<1>8. /\ transfer' = PlannedTransfer' /\ delete' = PlannedDelete'
      /\ publish' = PlannedPublish'
  BY <1>1, <1>7 DEF ScanServer, PlannedTransfer, PlannedDelete, PlannedPublish, S, T
<1>9. Scoped'
  BY <1>1, <1>2, <1>4, <1>5 DEF Scoped, Running, Sides
<1>10. transfer' \subseteq Paths /\ delete' \subseteq Paths /\ publish' \subseteq Namespaces
  <2>1. transfer' \subseteq options'.scope /\ delete' \subseteq options'.scope
    BY <1>8, <1>9, TwoSides DEF Scoped, PlannedTransfer, PlannedDelete, Transfer, Delete, S, T, Source, Target
  <2>2. transfer' \subseteq Paths /\ delete' \subseteq Paths  BY <1>1, <1>3, <2>1
  <2>3. \A q \in transfer' \cup delete' : NamespaceOf[q] \in Namespaces \cup {Plain}
    BY <2>2, PlannerAssumption
  <2> QED  BY <1>8, <2>2, <2>3 DEF PlannedPublish
<1>11. TypeOK'  BY <1>1, <1>2, <1>6, <1>10 DEF TypeOK
<1>12. Past'
  <2>1. \A q \in listed : manifest'["server"][q].mtime <= clock
    BY <1>2, <1>3, <1>5 DEF Past, Stamped, Sides
  <2>2. \A q \in Listed(manifest'["client"]) : manifest'["client"][q].mtime <= clock
    BY <1>2, <1>4 DEF Past, Sides
  <2> QED  BY <1>1, <1>2, <1>5, <2>1, <2>2 DEF Past, Sides
<1>13. SameStampSameBytes' /\ EditsInOrder'  BY <1>1 DEF IInv, SameStampSameBytes, EditsInOrder
<1>14. ScannedSide("client")'
  <2>1. /\ UNCHANGED <<disk, options, touched, overlapped>>
        /\ manifest'["client"] = manifest["client"]
    BY <1>1, <1>4
  <2>2. ScannedSide("client")  BY <1>1, <1>2 DEF ClientSide
  <2>3. ASSUME NEW s \in Sides, manifest'[s] = manifest[s], ScannedSide(s) PROVE ScannedSide(s)'
    BY <2>1, <2>3 DEF ScannedSide, AsScanned, Stamped
  <2> QED  BY <2>1, <2>2, <2>3 DEF Sides
<1>15. ScannedSide("server")' /\ \A q \in options.scope : AsScanned("server", q)'
  <2>1. ASSUME NEW q \in options.scope
        PROVE  /\ AsScanned("server", q)'
               /\ q \in Listed(manifest'["server"]) => manifest'["server"][q].mtime <= disk["server"][q].mtime
    <3>1. AsScanned("server", q)'  BY <1>1, <1>5 DEF AsScanned
    <3>2. q \in listed => /\ disk["server"][q].mtime \in Nat
                          /\ manifest'["server"][q].mtime = disk["server"][q].mtime
      BY <1>2, <1>3, <1>5, Types DEF Stamped, Sides
    <3> QED  BY <1>5, <3>1, <3>2
  <2> QED  BY <1>1, <2>1 DEF ScannedSide
<1>16. ClientSide' /\ Outcome'  BY <1>1 DEF ClientSide, Outcome, Undisturbed
<1>17. SourceSide'  BY <1>14, <1>15 DEF SourceSide, Source
<1>18. ASSUME NEW q \in options.scope, <<Target', q>> \notin touched' PROVE AsScanned(Target, q)'
  BY <1>1, <1>14, <1>15, <1>18 DEF Target, ScannedSide
<1>19. Planned'
  <2> SUFFICES ASSUME NEW q \in transfer' \ overlapped,
                      NamespaceOf[q] = Plain, disk'[Target'][q] # NoFile
               PROVE  ~Stamped(disk'[Target'][q], S'[q])
    BY <1>1, <1>8 DEF Planned
  <2>1. q \in Listed(S') /\ TransferNeeded(S', T', options'.overwrite, q)
    BY <1>8 DEF PlannedTransfer, Transfer
  <2>2. q \in Listed(T') => ~(S'[q].size = T'[q].size /\ S'[q].mtime = T'[q].mtime)
    BY <2>1 DEF TransferNeeded, Outdated
  <2>3. q \in options.scope /\ q \in Paths
    BY <1>1, <1>3, <1>9, <2>1, TwoSides DEF Scoped, S, Source
  <2>4. CASE <<Target', q>> \notin touched'
    <3>1. q \in Listed(T') /\ Stamped(disk'[Target'][q], T'[q])
      BY <1>18, <2>3, <2>4 DEF AsScanned, T
    <3> QED  BY <2>2, <3>1 DEF Stamped
  <2>5. CASE Target = "server"
    <3>1. q \in Listed(T') /\ Stamped(disk'[Target'][q], T'[q])
      BY <1>7, <1>15, <2>3, <2>5 DEF AsScanned, T
    <3> QED  BY <2>2, <3>1 DEF Stamped
  <2>6. CASE <<Target', q>> \in touched' /\ Target = "client"
    <3>1. Source = "server"  BY <2>6 DEF Source, Target
    <3>2. q \in listed /\ S' = manifest'["server"]  BY <1>5, <1>7, <2>1, <3>1 DEF S
    <3>3. disk["server"][q] # NoFile /\ Stamped(disk["server"][q], S'[q])  BY <1>5, <3>2
    <3>4. disk["client"][q] # NoFile /\ <<"client", q>> \in touched  BY <1>1, <1>7, <2>6
    <3>5. disk["client"][q].mtime # disk["server"][q].mtime
      BY <1>1, <1>2, <2>3, <3>3, <3>4 DEF ClientSide
    <3> QED  BY <1>1, <1>7, <2>6, <3>3, <3>5 DEF Stamped
  <2>7. Target \in {"client", "server"}  BY DEF Target
  <2> QED  BY <2>4, <2>5, <2>6, <2>7
<1>20. InFlight'  BY <1>1 DEF IInv, InFlight
<1>21. Staging'  BY <1>1, <1>8 DEF IInv, Staging
<1>22. TargetSide'
  BY <1>1, <1>8, <1>18 DEF TargetSide, Progress
<1>23. ToCome'  BY <1>1, <1>2, QuietLate DEF IInv
<1> QED
  BY <1>9, <1>11, <1>12, <1>13, <1>16, <1>17, <1>19, <1>20, <1>21, <1>22, <1>23 DEF IInv

-----------------------------------------------------------------------------
(* The transfers.                                                          *)

(* A planned file is still the file that was scanned, or it has a later    *)
(* time; the bytes of a read carry the planned stamp, and are the file's   *)
(* own when the file has this stamp.                                       *)
LEMMA ReadBytes ==
  ASSUME IInv, NEW p \in Paths, at = "applying", p \in Listed(S), NEW bytes \in Readable(p)
  PROVE  /\ bytes \in File
         /\ Stamped(bytes, S[p])
         /\ disk[Source][p] # NoFile
         /\ bytes.edit = disk[Source][p].edit
         /\ Stamped(disk[Source][p], S[p]) => bytes = disk[Source][p]
<1> DEFINE file == disk[Source][p]
           entry == S[p]
           read(torn) == [size |-> entry.size, mtime |-> entry.mtime, edit |-> file.edit, torn |-> torn]
<1>1. file # NoFile
  BY DEF Readable
<1>2. file \in File  BY <1>1, Types, TwoSides DEF IInv
<1>3. entry \in [size : Sizes, mtime : Times]
  <2>1. manifest[Source] \in Manifests  BY TwoSides DEF IInv, TypeOK
  <2>2. PICK listed \in SUBSET Paths : manifest[Source] \in [listed -> [size : Sizes, mtime : Times]]
    BY <2>1 DEF Manifests
  <2> QED  BY <2>2 DEF S, Listed
<1>4. bytes \in {read(file.torn), read(TRUE)}
  BY <1>1 DEF Readable, S
<1>5. ASSUME file.size = entry.size, file.mtime = entry.mtime PROVE bytes = read(file.torn)
  <2>1. file.size \in Nat  BY <1>2, Numbers DEF File
  <2>2. ~(file.size < entry.size) /\ ~(file.size > entry.size)  BY <1>5, <2>1
  <2> QED  BY <1>1, <1>5, <2>2 DEF Readable, S
<1>6. file.size = entry.size /\ file.mtime = entry.mtime => read(file.torn) = file
  BY <1>2 DEF File
<1>7. file.torn \in BOOLEAN /\ file.edit \in Times  BY <1>2 DEF File
<1>8. \A torn \in BOOLEAN : read(torn) \in File  BY <1>3, <1>7 DEF File
<1>9. bytes \in File  BY <1>4, <1>7, <1>8
<1>10. bytes.size = entry.size /\ bytes.mtime = entry.mtime /\ bytes.edit = file.edit  BY <1>4
<1> QED  BY <1>1, <1>5, <1>6, <1>9, <1>10 DEF Stamped

(* A planned file of a selected database is the file that was scanned.     *)
LEMMA DatabaseAsScanned ==
  ASSUME IInv, at = "applying", NEW p \in options.scope, NamespaceOf[p] # Plain
  PROVE  <<Source, p>> \notin touched /\ <<Target, p>> \notin touched /\ AsScanned(Source, p)
<1>1. <<Source, p>> \notin touched /\ <<Target, p>> \notin touched
  BY TwoSides DEF IInv, Scoped, Running
<1> QED  BY <1>1 DEF IInv, SourceSide, ScannedSide

(* Reading a file keeps the invariant. *)
LEMMA ReadKeeps ==
  ASSUME IInv, NEW p \in Paths, Read(p)
  PROVE  IInv'
<1>1. /\ at = "applying" /\ p \in transfer
      /\ UNCHANGED <<disk, clock, options, at, manifest, transfer, delete, staged, publish,
                     touched, late, unstamped, overlapped>>
  BY DEF Read
<1>2. PICK bytes \in Readable(p) : inflight' = [inflight EXCEPT ![p] = bytes]  BY DEF Read
<1>3. TypeOK /\ Past /\ Scoped /\ Planned  BY DEF IInv
<1>4. /\ p \in PlannedTransfer /\ p \in Listed(S) /\ p \in options.scope
      /\ p \notin PlannedDelete
  BY <1>1, <1>3, PlanInScope DEF Planned
<1>5. /\ bytes \in File /\ Stamped(bytes, S[p])
      /\ disk[Source][p] # NoFile
      /\ bytes.edit = disk[Source][p].edit
      /\ Stamped(disk[Source][p], S[p]) => bytes = disk[Source][p]
  BY <1>1, <1>4, ReadBytes
<1>6. inflight'[p] = bytes /\ \A q \in Paths : q # p => inflight'[q] = inflight[q]
  BY <1>2, <1>3 DEF TypeOK
<1>7. inflight' \in [Paths -> File \cup {NoFile}]  BY <1>2, <1>3, <1>5 DEF TypeOK
<1>8. TypeOK'  BY <1>1, <1>3, <1>7 DEF TypeOK
<1>9. Past'
  <2>1. bytes.edit <= clock  BY <1>3, <1>5, TwoSides DEF Past
  <2> QED  BY <1>1, <1>3, <1>6, <2>1 DEF Past
<1>10. Scoped'  BY <1>1, <1>3 DEF Scoped, Running
<1>11. /\ Source' = Source /\ Target' = Target /\ S' = S /\ T' = T
       /\ PlannedTransfer' = PlannedTransfer
       /\ PlannedDelete' = PlannedDelete /\ PlannedPublish' = PlannedPublish
  BY <1>1, SamePlan
<1>12. SameStampSameBytes' /\ EditsInOrder' /\ ClientSide' /\ Outcome'
  BY <1>1 DEF IInv, SameStampSameBytes, EditsInOrder, ClientSide, Outcome, Undisturbed
<1>13. SourceSide' /\ Planned'
  BY <1>1, <1>11 DEF IInv, SourceSide, ScannedSide, AsScanned, Planned
<1>14. Staging'  BY <1>1, <1>11 DEF IInv, Staging
<1>15. TargetSide'
  BY <1>1, <1>11 DEF IInv, TargetSide, Progress, AsScanned
<1>16. <<Source, p>> \notin touched => bytes = disk[Source][p]
  BY <1>1, <1>4, <1>5 DEF IInv, SourceSide, ScannedSide, AsScanned, S
<1>17. ASSUME p \notin overlapped, NEW s \in Sides, disk[s][p] # NoFile, Stamped(disk[s][p], bytes)
       PROVE  disk[s][p] = bytes
  <2> Stamped(disk[s][p], S[p])  BY <1>5, <1>17 DEF Stamped
  <2>1. CASE s = Source  BY <1>5, <1>17, <2>1
  <2>2. CASE s = Target
    <3>1. NamespaceOf[p] # Plain  BY <1>1, <1>3, <1>17, <2>2 DEF Planned
    <3>2. AsScanned(Source, p)  BY <1>1, <1>4, <3>1, DatabaseAsScanned
    <3>3. Stamped(disk[Source][p], S[p]) /\ bytes = disk[Source][p]
      BY <1>4, <1>5, <3>2 DEF AsScanned, S
    <3>4. Stamp(disk[Source][p]) = Stamp(disk[Target][p])
      BY <1>17, <2>2, <3>3 DEF Stamped, Stamp
    <3>5. disk[Source][p] = disk[Target][p]
      BY <1>5, <1>17, <2>2, <3>4, TwoSides DEF IInv, SameStampSameBytes
    <3> QED  BY <2>2, <3>3, <3>5
  <2> QED  BY <2>1, <2>2, TwoSides
<1>18. disk[Source][p].edit \in Nat  BY <1>3, <1>5, Types, TwoSides
<1>19. InOrder(bytes, disk[Source][p])  BY <1>5, <1>18 DEF InOrder
<1>20. ASSUME p \notin unstamped \cup overlapped,
              options.overwrite = "prefer_newer", NamespaceOf[p] = Plain,
              <<Target, p>> \notin touched, disk[Target][p] # NoFile
       PROVE  disk[Target][p].edit <= bytes.edit
  <2>1. Progress(p)  BY <1>1, <1>4, <1>20 DEF IInv, TargetSide
  <2>2. p \in Listed(T) /\ disk[Target][p].mtime = T[p].mtime
    BY <1>1, <1>4, <1>20, <2>1 DEF Progress, AsScanned, Stamped, T
  <2>3. T[p].mtime <= S[p].mtime
    BY <1>4, <1>20, <2>2 DEF PlannedTransfer, Transfer, TransferNeeded, Outdated
  <2>4. S[p].mtime <= disk[Source][p].mtime
    BY <1>1, <1>4, <1>5, <1>20 DEF IInv, SourceSide, ScannedSide, S
  <2>5. /\ disk[Target][p].mtime \in Nat /\ disk[Source][p].mtime \in Nat /\ S[p].mtime \in Nat
    BY <1>3, <1>4, <1>5, <1>20, Types, TwoSides DEF S
  <2>6. disk[Target][p].mtime <= disk[Source][p].mtime  BY <2>2, <2>3, <2>4, <2>5
  <2>7. disk[Target][p].edit <= disk[Source][p].edit
    BY <1>5, <1>20, <2>6, TwoSides DEF IInv, EditsInOrder, InOrder
  <2> QED  BY <1>5, <2>7
<1>21. InFlight'
  <2> SUFFICES ASSUME NEW q \in Paths, inflight'[q] # NoFile
               PROVE  /\ at = "applying" /\ q \in transfer
                      /\ Stamped(inflight'[q], S[q])
                      /\ <<Source, q>> \notin touched => inflight'[q] = disk[Source][q]
                      /\ q \notin overlapped => Agrees(inflight'[q], q)
                      /\ q \notin unstamped \cup overlapped =>
                           /\ disk[Source][q] # NoFile => InOrder(inflight'[q], disk[Source][q])
                           /\ NotLater(q)'
    BY <1>1, <1>11 DEF InFlight, Stamped, InOrder, Agrees
  <2>1. CASE q = p
    <3>1. p \notin overlapped => Agrees(bytes, p)  BY <1>17 DEF Agrees
    <3>2. p \notin unstamped \cup overlapped => NotLater(p)'
      BY <1>1, <1>6, <1>11, <1>20 DEF NotLater
    <3> QED  BY <1>1, <1>5, <1>6, <1>16, <1>19, <2>1, <3>1, <3>2
  <2>2. CASE q # p
    <3>1. inflight'[q] = inflight[q]  BY <1>6, <2>2
    <3>2. NotLater(q) => NotLater(q)'  BY <1>1, <1>11, <3>1 DEF NotLater
    <3> QED  BY <3>1, <3>2 DEF IInv, InFlight
  <2> QED  BY <2>1, <2>2
<1>22. ToCome'  BY <1>1, <1>3, QuietLate DEF IInv
<1> QED
  BY <1>8, <1>9, <1>10, <1>12, <1>13, <1>14, <1>15, <1>21, <1>22 DEF IInv

(* Writing an ordinary file keeps the invariant: wherever its stamp is     *)
(* found, there are its bytes.                                             *)
LEMMA WriteFileKeeps ==
  ASSUME IInv, NEW p \in Paths, WriteFile(p)
  PROVE  IInv'
<1>1. /\ at = "applying" /\ inflight[p] # NoFile /\ NamespaceOf[p] = Plain
      /\ inflight' = [inflight EXCEPT ![p] = NoFile]
      /\ transfer' = transfer \ {p}
      /\ Overwrite(Target, p, inflight[p])
      /\ UNCHANGED <<clock, options, at, manifest, delete, staged, publish, touched, late,
                     unstamped, overlapped>>
  BY DEF WriteFile, Received, Overwrite
<1>2. TypeOK /\ Past /\ Scoped /\ Planned  BY DEF IInv
<1>3. /\ p \in transfer
      /\ Stamped(inflight[p], S[p])
      /\ p \notin overlapped => Agrees(inflight[p], p)
      /\ <<Source, p>> \notin touched => inflight[p] = disk[Source][p]
      /\ p \notin unstamped \cup overlapped /\ disk[Source][p] # NoFile =>
           InOrder(inflight[p], disk[Source][p])
  BY <1>1 DEF IInv, InFlight
<1>4. p \in PlannedTransfer /\ p \in Listed(S) /\ p \in options.scope
  BY <1>1, <1>2, <1>3, PlanInScope DEF Planned
<1>5. inflight[p] \in File /\ inflight[p] \in File \cup {NoFile}  BY <1>1, <1>2 DEF TypeOK
<1>6. /\ disk' \in Disks /\ disk'[Target][p] = inflight[p]
      /\ \A s \in Sides, q \in Paths : s # Target \/ q # p => disk'[s][q] = disk[s][q]
  BY <1>1, <1>2, <1>5, Overwritten, Types, TwoSides
<1>7. inflight'[p] = NoFile /\ \A q \in Paths : q # p => inflight'[q] = inflight[q]
  BY <1>1, <1>2 DEF TypeOK
<1>8. TypeOK'  BY <1>1, <1>2, <1>6 DEF TypeOK, Disks
<1>9. /\ Source' = Source /\ Target' = Target /\ S' = S /\ T' = T
      /\ PlannedTransfer' = PlannedTransfer
      /\ PlannedDelete' = PlannedDelete /\ PlannedPublish' = PlannedPublish
  BY <1>1, SamePlan
<1>10. \A q \in Paths : disk'[Source][q] = disk[Source][q]  BY <1>6, TwoSides
<1>11. Past'
  <2>1. inflight[p].edit <= clock /\ inflight[p].mtime <= clock
    BY <1>1, <1>2, <1>3, <1>4, TwoSides DEF Past, Stamped, S
  <2>2. \A s \in Sides, q \in Paths : disk'[s][q] # NoFile =>
          disk'[s][q].mtime <= clock /\ disk'[s][q].edit <= clock
    BY <1>2, <1>6, <2>1 DEF Past
  <2> QED  BY <1>1, <1>2, <1>7, <2>2 DEF Past
<1>12. Scoped'  BY <1>1, <1>2 DEF Scoped, Running
<1>13. SameStampSameBytes'
  <2> SUFFICES ASSUME NEW q \in Paths \ overlapped,
                      disk'["client"][q] # NoFile, disk'["server"][q] # NoFile,
                      Stamp(disk'["client"][q]) = Stamp(disk'["server"][q])
               PROVE  disk'["client"][q] = disk'["server"][q]
    BY <1>1 DEF SameStampSameBytes, Stamp
  <2>1. CASE q # p
    <3>1. disk'["client"][q] = disk["client"][q] /\ disk'["server"][q] = disk["server"][q]
      BY <1>6, <2>1 DEF Sides
    <3> QED  BY <3>1 DEF IInv, SameStampSameBytes
  <2>2. CASE q = p
    <3>1. disk[Source][p] # NoFile /\ Stamp(disk[Source][p]) = Stamp(inflight[p])
      BY <1>6, <1>10, <2>2, TwoSides
    <3>2. disk[Source][p] = inflight[p]
      BY <1>3, <2>2, <3>1, TwoSides DEF Stamp, Stamped, Agrees
    <3> QED  BY <1>6, <1>10, <2>2, <3>2, TwoSides
  <2> QED  BY <2>1, <2>2
<1>14. ClientSide' /\ Outcome'  BY <1>1 DEF ClientSide, Outcome, Undisturbed
<1>15. SourceSide'
  <2>1. options.scope \subseteq Paths  BY <1>2, Types
  <2> QED  BY <1>1, <1>9, <1>10, <2>1 DEF IInv, SourceSide, ScannedSide, AsScanned
<1>16. publish = PlannedPublish  BY <1>1, <1>2, <1>3 DEF Planned
<1>17. \A q \in transfer' : q # p /\ q \in transfer /\ q \in Paths  BY <1>1, <1>2 DEF TypeOK
<1>18. Planned'
  <2>1. \A q \in transfer' : disk'[Target][q] = disk[Target][q]  BY <1>6, <1>17, TwoSides
  <2> QED  BY <1>1, <1>2, <1>9, <1>16, <1>17, <2>1 DEF Planned
<1>19. EditsInOrder'
  <2> SUFFICES ASSUME NEW q \in Paths \ (unstamped \cup overlapped),
                      disk'["client"][q] # NoFile, disk'["server"][q] # NoFile
               PROVE  InOrder(disk'["client"][q], disk'["server"][q])
    BY <1>1 DEF EditsInOrder, InOrder
  <2>1. CASE q # p
    <3>1. disk'["client"][q] = disk["client"][q] /\ disk'["server"][q] = disk["server"][q]
      BY <1>6, <2>1 DEF Sides
    <3> QED  BY <3>1 DEF IInv, EditsInOrder
  <2>2. CASE q = p
    <3>1. InOrder(disk'[Target][q], disk'[Source][q])
      BY <1>3, <1>6, <1>10, <2>2, TwoSides
    <3> QED  BY <3>1, TwoSides DEF InOrder
  <2> QED  BY <2>1, <2>2
<1>20. InFlight'
  <2> SUFFICES ASSUME NEW q \in Paths, inflight'[q] # NoFile
               PROVE  /\ at = "applying" /\ q \in transfer'
                      /\ Stamped(inflight'[q], S[q])
                      /\ <<Source, q>> \notin touched => inflight'[q] = disk'[Source][q]
                      /\ q \notin overlapped => Agrees(inflight[q], q)'
                      /\ q \notin unstamped \cup overlapped =>
                           /\ disk'[Source][q] # NoFile => InOrder(inflight'[q], disk'[Source][q])
                           /\ NotLater(q)'
    BY <1>1, <1>9 DEF InFlight, Stamped, InOrder, Agrees
  <2>1. q # p /\ inflight'[q] = inflight[q]  BY <1>7
  <2>2. \A s \in Sides : disk'[s][q] = disk[s][q]  BY <1>6, <2>1
  <2>3. Agrees(inflight[q], q) => Agrees(inflight[q], q)'  BY <2>1, <2>2 DEF Agrees, Stamped
  <2>4. NotLater(q) => NotLater(q)'  BY <1>1, <1>9, <2>1, <2>2, TwoSides DEF NotLater
  <2> QED  BY <1>1, <2>1, <2>2, <2>3, <2>4, TwoSides DEF IInv, InFlight
<1>21. Staging'
  <2> SUFFICES ASSUME NEW q \in Paths
               PROVE  staged[q] = IF NamespaceOf[q] # Plain /\ q \in PlannedTransfer \ transfer'
                                    THEN disk[Source][q] ELSE NoFile
    BY <1>1, <1>9, <1>10 DEF Staging
  <2> QED  BY <1>1 DEF IInv, Staging
<1>22. TargetSide'
  <2> SUFFICES ASSUME NEW q \in options.scope, <<Target, q>> \notin touched
               PROVE  Progress(q)'
    BY <1>1, <1>9 DEF TargetSide
  <2>1. Progress(q) /\ q \in Paths  BY <1>1, <1>2, Types DEF IInv, TargetSide
  <2>2. CASE q # p
    <3>1. disk'[Target][q] = disk[Target][q] /\ AsScanned(Target, q)' = AsScanned(Target, q)
      BY <1>1, <1>6, <1>9, <2>1, <2>2, TwoSides DEF AsScanned
    <3> QED  BY <1>1, <1>9, <1>10, <2>1, <2>2, <3>1 DEF Progress
  <2>3. CASE q = p
    <3>1. <<Source, q>> \notin touched => disk'[Target][q] = disk'[Source][q]
      BY <1>3, <1>6, <1>10, <2>3
    <3> QED  BY <1>1, <1>4, <1>9, <2>3, <3>1 DEF Progress
  <2> QED  BY <2>2, <2>3
<1>23. ToCome'
  <2>1. \A s \in Sides, q \in Paths : q \notin options.scope => disk'[s][q] = disk[s][q]
    BY <1>4, <1>6
  <2> QED  BY <1>1, <1>2, <2>1, QuietLate DEF IInv
<1> QED
  BY <1>8, <1>11, <1>12, <1>13, <1>14, <1>15, <1>18, <1>19, <1>20, <1>21, <1>22, <1>23 DEF IInv

(* Staging a database file keeps the invariant: nobody has edited it.      *)
LEMMA StageFileKeeps ==
  ASSUME IInv, NEW p \in Paths, StageFile(p)
  PROVE  IInv'
<1>1. /\ at = "applying" /\ inflight[p] # NoFile /\ NamespaceOf[p] # Plain
      /\ inflight' = [inflight EXCEPT ![p] = NoFile]
      /\ staged' = [staged EXCEPT ![p] = inflight[p]]
      /\ transfer' = transfer \ {p}
      /\ UNCHANGED <<disk, clock, options, at, manifest, delete, publish, touched, late,
                     unstamped, overlapped>>
  BY DEF StageFile, Received
<1>2. TypeOK /\ Past /\ Scoped /\ Planned  BY DEF IInv
<1>3. p \in transfer /\ (<<Source, p>> \notin touched => inflight[p] = disk[Source][p])
  BY <1>1 DEF IInv, InFlight
<1>4. p \in PlannedTransfer /\ p \in options.scope  BY <1>1, <1>2, <1>3, PlanInScope DEF Planned
<1>5. inflight[p] = disk[Source][p]  BY <1>1, <1>3, <1>4, DatabaseAsScanned
<1>6. inflight'[p] = NoFile /\ \A q \in Paths : q # p => inflight'[q] = inflight[q]
  BY <1>1, <1>2 DEF TypeOK
<1>7. staged'[p] = inflight[p] /\ \A q \in Paths : q # p => staged'[q] = staged[q]
  BY <1>1, <1>2 DEF TypeOK
<1>8. TypeOK'
  <2>1. inflight[p] \in File \cup {NoFile}  BY <1>2 DEF TypeOK
  <2> QED  BY <1>1, <1>2, <2>1 DEF TypeOK
<1>9. /\ Source' = Source /\ Target' = Target /\ S' = S /\ T' = T
      /\ PlannedTransfer' = PlannedTransfer
      /\ PlannedDelete' = PlannedDelete /\ PlannedPublish' = PlannedPublish
  BY <1>1, SamePlan
<1>10. Past'  BY <1>1, <1>2, <1>6 DEF Past
<1>11. Scoped'  BY <1>1, <1>2 DEF Scoped, Running
<1>12. SameStampSameBytes' /\ EditsInOrder' /\ ClientSide' /\ Outcome'
  BY <1>1 DEF IInv, SameStampSameBytes, EditsInOrder, ClientSide, Outcome, Undisturbed
<1>13. SourceSide'  BY <1>1, <1>9 DEF IInv, SourceSide, ScannedSide, AsScanned
<1>14. publish = PlannedPublish  BY <1>1, <1>2, <1>3 DEF Planned
<1>15. Planned'  BY <1>1, <1>2, <1>9, <1>14 DEF Planned
<1>16. InFlight'
  <2> SUFFICES ASSUME NEW q \in Paths, inflight'[q] # NoFile
               PROVE  /\ at = "applying" /\ q \in transfer'
                      /\ Stamped(inflight'[q], S[q])
                      /\ <<Source, q>> \notin touched => inflight'[q] = disk[Source][q]
                      /\ q \notin overlapped => Agrees(inflight'[q], q)
                      /\ q \notin unstamped \cup overlapped =>
                           /\ disk[Source][q] # NoFile => InOrder(inflight'[q], disk[Source][q])
                           /\ NotLater(q)'
    BY <1>1, <1>9 DEF InFlight, Stamped, InOrder, Agrees
  <2>1. q # p /\ inflight'[q] = inflight[q]  BY <1>6
  <2>2. NotLater(q) => NotLater(q)'  BY <1>1, <1>9, <2>1 DEF NotLater
  <2> QED  BY <1>1, <2>1, <2>2 DEF IInv, InFlight
<1>17. Staging'
  <2> SUFFICES ASSUME NEW q \in Paths
               PROVE  staged'[q] = IF NamespaceOf[q] # Plain /\ q \in PlannedTransfer \ transfer'
                                     THEN disk[Source][q] ELSE NoFile
    BY <1>1, <1>9 DEF Staging
  <2>1. CASE q = p  BY <1>1, <1>4, <1>5, <1>7, <2>1
  <2>2. CASE q # p  BY <1>1, <1>7, <2>2 DEF IInv, Staging
  <2> QED  BY <2>1, <2>2
<1>18. TargetSide'
  <2> SUFFICES ASSUME NEW q \in options.scope, <<Target, q>> \notin touched
               PROVE  Progress(q)'
    BY <1>1, <1>9 DEF TargetSide
  <2>1. Progress(q)  BY <1>1 DEF IInv, TargetSide
  <2>2. AsScanned(Target, q)' = AsScanned(Target, q)  BY <1>1, <1>9 DEF AsScanned
  <2> QED  BY <1>1, <1>9, <1>14, <2>1, <2>2 DEF Progress
<1>19. ToCome'  BY <1>1, <1>2, QuietLate DEF IInv
<1> QED
  BY <1>8, <1>10, <1>11, <1>12, <1>13, <1>15, <1>16, <1>17, <1>18, <1>19 DEF IInv

-----------------------------------------------------------------------------
(* Deletions and the publication.                                          *)

(* Once the transfers are over nothing is in flight.                       *)
LEMMA NothingInFlight ==
  ASSUME IInv, transfer = {} \/ at # "applying"
  PROVE  \A p \in Paths : inflight[p] = NoFile
BY DEF IInv, InFlight

(* A deletion keeps the invariant. *)
LEMMA DeleteFileKeeps ==
  ASSUME IInv, NEW p \in Paths, DeleteFile(p)
  PROVE  IInv'
<1>1. /\ at = "applying" /\ transfer = {} /\ p \in delete /\ delete' = delete \ {p}
      /\ UNCHANGED <<clock, options, at, manifest, transfer, inflight, staged, publish, touched,
                     late, unstamped, overlapped>>
  BY DEF DeleteFile
<1>2. TypeOK /\ Past /\ Scoped /\ Planned  BY DEF IInv
<1>3. disk \in Disks /\ options.scope \subseteq Paths  BY <1>2, Types
<1>4. p \in PlannedDelete /\ p \notin PlannedTransfer  BY <1>1, <1>2, PlanInScope DEF Planned
<1>5. /\ disk' \in Disks
      /\ \A s \in Sides, q \in Paths : s # Target \/ q # p => disk'[s][q] = disk[s][q]
      /\ disk'[Target][p] = IF NamespaceOf[p] = Plain THEN NoFile ELSE disk[Target][p]
  <2>1. CASE NamespaceOf[p] = Plain
    <3>1. Overwrite(Target, p, NoFile)  BY <2>1 DEF DeleteFile, Overwrite
    <3>2. NoFile \in File \cup {NoFile}  OBVIOUS
    <3> QED  BY <1>3, <2>1, <3>1, <3>2, Overwritten, TwoSides
  <2>2. CASE NamespaceOf[p] # Plain
    BY <1>3, <2>2 DEF DeleteFile
  <2> QED  BY <2>1, <2>2
<1>6. \A s \in Sides, q \in Paths : disk'[s][q] = disk[s][q] \/ disk'[s][q] = NoFile
  BY <1>5
<1>7. \A q \in Paths : disk'[Source][q] = disk[Source][q]  BY <1>5, TwoSides
<1>8. TypeOK'  BY <1>1, <1>2, <1>5 DEF TypeOK, Disks
<1>9. /\ Source' = Source /\ Target' = Target /\ S' = S /\ T' = T
      /\ PlannedTransfer' = PlannedTransfer
      /\ PlannedDelete' = PlannedDelete /\ PlannedPublish' = PlannedPublish
  BY <1>1, SamePlan
<1>10. Past'  BY <1>1, <1>2, <1>6 DEF Past
<1>11. Scoped'  BY <1>1, <1>2 DEF Scoped, Running
<1>12. SameStampSameBytes' /\ EditsInOrder'
  BY <1>1, <1>6, TwoSides DEF IInv, SameStampSameBytes, Stamp, EditsInOrder
<1>13. ClientSide' /\ Outcome'  BY <1>1 DEF ClientSide, Outcome, Undisturbed
<1>14. SourceSide'  BY <1>1, <1>3, <1>7, <1>9 DEF IInv, SourceSide, ScannedSide, AsScanned
<1>15. Planned'  BY <1>1, <1>2, <1>9 DEF Planned
<1>16. InFlight'  BY <1>1, NothingInFlight DEF InFlight
<1>17. Staging'  BY <1>1, <1>7, <1>9 DEF IInv, Staging
<1>18. TargetSide'
  <2> SUFFICES ASSUME NEW q \in options.scope, <<Target, q>> \notin touched
               PROVE  Progress(q)'
    BY <1>1, <1>9 DEF TargetSide
  <2>1. Progress(q) /\ q \in Paths  BY <1>1, <1>3 DEF IInv, TargetSide
  <2>2. CASE q # p \/ NamespaceOf[q] # Plain
    <3>1. disk'[Target][q] = disk[Target][q] /\ AsScanned(Target, q)' = AsScanned(Target, q)
      BY <1>1, <1>5, <1>9, <2>1, <2>2, TwoSides DEF AsScanned
    <3> QED  BY <1>1, <1>7, <1>9, <2>1, <2>2, <3>1 DEF Progress
  <2>3. CASE q = p /\ NamespaceOf[q] = Plain
    <3>1. disk'[Target][q] = NoFile  BY <1>5, <2>3
    <3> QED  BY <1>1, <1>4, <1>9, <2>3, <3>1 DEF Progress
  <2> QED  BY <2>2, <2>3
<1>19. ToCome'
  <2>1. p \in options.scope  BY <1>2, <1>4, PlanInScope
  <2>2. \A s \in Sides, q \in Paths : q \notin options.scope => disk'[s][q] = disk[s][q]
    BY <1>5, <2>1
  <2> QED  BY <1>1, <1>2, <2>2, QuietLate DEF IInv
<1> QED
  BY <1>8, <1>10, <1>11, <1>12, <1>13, <1>14, <1>15, <1>16, <1>17, <1>18, <1>19 DEF IInv

(* The publication keeps the invariant: the target gets the files of the   *)
(* source, or none.                                                        *)
LEMMA PublishKeeps ==
  ASSUME IInv, NEW n \in Namespaces, PublishNamespace(n)
  PROVE  IInv'
<1>1. /\ at = "applying" /\ transfer = {} /\ n \in publish /\ publish' = publish \ {n}
      /\ UNCHANGED <<clock, options, at, manifest, transfer, delete, inflight, staged, touched,
                     late, unstamped, overlapped>>
      /\ disk' = [disk EXCEPT ![Target] =
           [p \in Paths |-> IF NamespaceOf[p] = n THEN staged[p] ELSE disk[Target][p]]]
  BY DEF PublishNamespace
<1>2. TypeOK /\ Past /\ Scoped /\ Planned  BY DEF IInv
<1>3. disk \in Disks /\ options.scope \subseteq Paths /\ n # Plain
  BY <1>2, Types, PlannerAssumption
<1>4. /\ \A s \in Sides : s # Target => disk'[s] = disk[s]
      /\ disk'[Target] = [p \in Paths |-> IF NamespaceOf[p] = n THEN staged[p] ELSE disk[Target][p]]
      /\ disk' = [s \in Sides |-> disk'[s]]
  BY <1>1, <1>3, TwoSides DEF Disks
<1>5. \A q \in Paths :
        /\ disk'[Source][q] = disk[Source][q]
        /\ disk'[Target][q] = IF NamespaceOf[q] = n THEN staged[q] ELSE disk[Target][q]
  BY <1>4, TwoSides
<1>6. \A q \in Paths : staged[q] \in {NoFile, disk[Source][q]}
  BY DEF IInv, Staging
<1>7. disk' \in Disks
  <2>1. disk'[Source] \in [Paths -> File \cup {NoFile}]  BY <1>3, <1>4, TwoSides DEF Disks
  <2>2. disk'[Target] \in [Paths -> File \cup {NoFile}]
    <3>1. \A q \in Paths : disk[Target][q] \in File \cup {NoFile} /\ staged[q] \in File \cup {NoFile}
      BY <1>2, <1>3, TwoSides DEF Disks, TypeOK
    <3> QED  BY <1>4, <3>1
  <2>3. \A s \in Sides : disk'[s] \in [Paths -> File \cup {NoFile}]  BY <2>1, <2>2, TwoSides
  <2> QED  BY <1>4, <2>3 DEF Disks
<1>8. TypeOK'  BY <1>1, <1>2, <1>7 DEF TypeOK, Disks
<1>9. /\ Source' = Source /\ Target' = Target /\ S' = S /\ T' = T
      /\ PlannedTransfer' = PlannedTransfer
      /\ PlannedDelete' = PlannedDelete /\ PlannedPublish' = PlannedPublish
  BY <1>1, SamePlan
<1>10. \A q \in Paths :
         \/ disk'[Target][q] = NoFile
         \/ disk'[Target][q] = disk[Source][q]
         \/ disk'[Target][q] = disk[Target][q]
  BY <1>5, <1>6
<1>11. Past'
  <2>1. \A s \in Sides, q \in Paths : disk'[s][q] # NoFile =>
          disk'[s][q].mtime <= clock /\ disk'[s][q].edit <= clock
    BY <1>2, <1>5, <1>10, TwoSides DEF Past
  <2> QED  BY <1>1, <1>2, <2>1 DEF Past
<1>12. Scoped'  BY <1>1, <1>2 DEF Scoped, Running
<1>13. SameStampSameBytes'
  BY <1>1, <1>5, <1>10, TwoSides DEF IInv, SameStampSameBytes, Stamp
<1>14. EditsInOrder'
  <2> SUFFICES ASSUME NEW q \in Paths \ (unstamped \cup overlapped),
                      disk'["client"][q] # NoFile, disk'["server"][q] # NoFile
               PROVE  InOrder(disk'["client"][q], disk'["server"][q])
    BY <1>1 DEF EditsInOrder, InOrder
  <2>1. CASE disk'[Target][q] = disk[Source][q]
    <3>1. disk'["client"][q] = disk'["server"][q]  BY <1>5, <2>1, TwoSides
    <3>2. disk'["client"][q].edit \in Nat
      <4>1. disk'["client"][q] \in File  BY <1>7 DEF Disks, Sides
      <4> QED  BY <4>1, Numbers DEF File
    <3> QED  BY <3>1, <3>2 DEF InOrder
  <2>2. CASE disk'[Target][q] = disk[Target][q]
    <3>1. disk'["client"][q] = disk["client"][q] /\ disk'["server"][q] = disk["server"][q]
      BY <1>5, <2>2, TwoSides
    <3> QED  BY <3>1 DEF IInv, EditsInOrder
  <2>3. disk'[Target][q] # NoFile  BY TwoSides
  <2> QED  BY <1>10, <2>1, <2>2, <2>3
<1>15. ClientSide' /\ Outcome'  BY <1>1 DEF ClientSide, Outcome, Undisturbed
<1>16. SourceSide'  BY <1>1, <1>3, <1>5, <1>9 DEF IInv, SourceSide, ScannedSide, AsScanned
<1>17. Planned'  BY <1>1, <1>2, <1>9 DEF Planned
<1>18. InFlight'  BY <1>1, NothingInFlight DEF InFlight
<1>19. Staging'  BY <1>1, <1>5, <1>9 DEF IInv, Staging
<1>20. TargetSide'
  <2> SUFFICES ASSUME NEW q \in options.scope, <<Target, q>> \notin touched
               PROVE  Progress(q)'
    BY <1>1, <1>9 DEF TargetSide
  <2>1. Progress(q) /\ q \in Paths  BY <1>1, <1>3 DEF IInv, TargetSide
  <2>2. CASE NamespaceOf[q] # n
    <3>1. disk'[Target][q] = disk[Target][q] /\ AsScanned(Target, q)' = AsScanned(Target, q)
      BY <1>1, <1>5, <1>9, <2>1, <2>2, TwoSides DEF AsScanned
    <3> QED  BY <1>1, <1>5, <1>9, <2>1, <2>2, <3>1 DEF Progress
  <2>3. CASE NamespaceOf[q] = n
    <3>1. disk'[Target][q] = staged[q] /\ NamespaceOf[q] # Plain  BY <1>3, <1>5, <2>1, <2>3
    <3>2. n \in PlannedPublish \ publish'  BY <1>1, <1>2 DEF Planned
    <3> QED  BY <1>1, <1>9, <2>3, <3>1, <3>2 DEF Progress
  <2> QED  BY <2>2, <2>3
<1>21. ToCome'
  <2>1. \A s \in Sides, q \in Paths : NamespaceOf[q] = Plain => disk'[s][q] = disk[s][q]
    BY <1>3, <1>5, TwoSides
  <2> QED  BY <1>1, <1>2, <2>1, QuietLate DEF IInv
<1> QED
  BY <1>8, <1>11, <1>12, <1>13, <1>14, <1>15, <1>16, <1>17, <1>18, <1>19, <1>20, <1>21 DEF IInv

-----------------------------------------------------------------------------
(* The end of a round.                                                     *)

(* A namespace that is published is not one that is kept: its files of the *)
(* source are all transferred.                                             *)
LEMMA PublishedWhole ==
  ASSUME NEW p, NamespaceOf[p] \in PlannedPublish, p \in Listed(S)
  PROVE  p \in PlannedTransfer
<1>1. PICK q \in PlannedTransfer \cup PlannedDelete : NamespaceOf[q] = NamespaceOf[p]
  BY DEF PlannedPublish
<1>2. NamespaceOf[p] # Plain  BY DEF PlannedPublish
<1>3. ~KeepsNamespace(S, T, options.overwrite, q)
  BY <1>1, <1>2 DEF PlannedTransfer, PlannedDelete, Transfer, TransferNeeded, Delete
<1>4. ~KeepsNamespace(S, T, options.overwrite, p)  BY <1>1, <1>3 DEF KeepsNamespace
<1> QED  BY <1>2, <1>4 DEF PlannedTransfer, Transfer, TransferNeeded

(* To complete the round keeps the invariant: nothing of the plan is left. *)
LEMMA CompleteKeeps ==
  ASSUME IInv, Complete
  PROVE  IInv'
<1>1. /\ at = "applying" /\ transfer = {} /\ delete = {} /\ publish = {} /\ at' = "done"
      /\ transfer' = {} /\ delete' = {} /\ publish' = {} /\ inflight' = Nothing /\ staged' = Nothing
      /\ UNCHANGED <<disk, clock, options, manifest, touched, late, unstamped, overlapped>>
  BY DEF Complete, Clear
<1>2. TypeOK /\ Past /\ Scoped /\ SourceSide  BY DEF IInv
<1>3. \A q \in Paths : inflight'[q] = NoFile /\ staged'[q] = NoFile  BY <1>1 DEF Nothing
<1>4. /\ Source' = Source /\ Target' = Target /\ S' = S /\ T' = T
      /\ PlannedTransfer' = PlannedTransfer
      /\ PlannedDelete' = PlannedDelete /\ PlannedPublish' = PlannedPublish
  BY <1>1, SamePlan
<1>5. TypeOK'  BY <1>1, <1>2 DEF TypeOK, Nothing
<1>6. Past'  BY <1>1, <1>2, <1>3 DEF Past
<1>7. Scoped'  BY <1>1, <1>2 DEF Scoped, Running
<1>8. SameStampSameBytes' /\ EditsInOrder'  BY <1>1 DEF IInv, SameStampSameBytes, EditsInOrder
<1>9. ClientSide' /\ Planned' /\ TargetSide'  BY <1>1 DEF ClientSide, Planned, TargetSide
<1>10. SourceSide'  BY <1>1, <1>2, <1>4 DEF SourceSide, ScannedSide, AsScanned
<1>11. InFlight' /\ Staging'  BY <1>1, <1>3 DEF InFlight, Staging
<1>12. ASSUME touched = {}, NEW q \in options.scope
       PROVE  IF Replaced(q) THEN disk[Target][q] = disk[Source][q] ELSE AsScanned(Target, q)
  <2>1. Progress(q) /\ AsScanned(Source, q)
    BY <1>1, <1>2, <1>12 DEF IInv, TargetSide, SourceSide, ScannedSide
  <2>2. q \in Paths  BY <1>2, Types
  <2>3. CASE NamespaceOf[q] = Plain
    <3>1. CASE q \in PlannedTransfer  BY <1>1, <1>12, <2>1, <2>3, <3>1 DEF Progress, Replaced
    <3>2. CASE q \notin PlannedTransfer /\ q \in PlannedDelete
      <4>1. disk[Target][q] = NoFile  BY <1>1, <2>1, <2>3, <3>2 DEF Progress
      <4>2. q \notin Listed(S)  BY <1>2, <3>2, PlanInScope
      <4>3. disk[Source][q] = NoFile  BY <2>1, <4>2 DEF AsScanned, S
      <4> QED  BY <2>3, <3>2, <4>1, <4>3 DEF Replaced
    <3>3. CASE q \notin PlannedTransfer /\ q \notin PlannedDelete
      BY <2>1, <2>3, <3>3 DEF Progress, Replaced
    <3> QED  BY <3>1, <3>2, <3>3
  <2>4. CASE NamespaceOf[q] # Plain
    <3>1. CASE NamespaceOf[q] \in PlannedPublish
      <4>1. disk[Target][q] = staged[q]  BY <1>1, <2>1, <2>4, <3>1 DEF Progress
      <4>2. staged[q] = IF q \in PlannedTransfer THEN disk[Source][q] ELSE NoFile
        BY <1>1, <2>2, <2>4 DEF IInv, Staging
      <4>3. q \notin PlannedTransfer => disk[Source][q] = NoFile
        BY <2>1, <3>1, PublishedWhole DEF AsScanned, S
      <4> QED  BY <2>4, <3>1, <4>1, <4>2, <4>3 DEF Replaced
    <3>2. CASE NamespaceOf[q] \notin PlannedPublish
      BY <2>1, <2>4, <3>2 DEF Progress, Replaced
    <3> QED  BY <3>1, <3>2
  <2> QED  BY <2>3, <2>4
<1>13. Outcome'
  <2> SUFFICES ASSUME touched = {}, NEW q \in options.scope
               PROVE  IF Replaced(q)' THEN disk[Target][q] = disk[Source][q] ELSE AsScanned(Target, q)'
    BY <1>1, <1>4 DEF Outcome, Undisturbed
  <2>1. Replaced(q)' = Replaced(q) /\ AsScanned(Target, q)' = AsScanned(Target, q)
    BY <1>1, <1>4 DEF Replaced, AsScanned
  <2> QED  BY <1>12, <2>1
<1>14. ToCome'  BY <1>1, <1>2, QuietLate DEF IInv
<1> QED  BY <1>5, <1>6, <1>7, <1>8, <1>9, <1>10, <1>11, <1>13, <1>14 DEF IInv

(* What a round leaves when it is given up: changes of ordinary files of   *)
(* its scope, one for a path, with bytes it has read.                      *)
LEMMA LeftBehind ==
  ASSUME IInv, NEW c \in Outstanding
  PROVE  /\ c \in Change /\ c.side = Target /\ NamespaceOf[c.path] = Plain
         /\ at = "applying" /\ c.path \in options.scope
         /\ c.file = inflight[c.path]
         /\ \A d \in Outstanding : d.path = c.path => d = c
         /\ c.file # NoFile => c.file.mtime <= clock /\ c.file.edit <= clock
<1> DEFINE change(p, file) == [side |-> Target, path |-> p, file |-> file]
<1>1. TypeOK /\ Past /\ Scoped /\ Planned  BY DEF IInv
<1>2. ASSUME NEW d \in Outstanding
      PROVE  /\ d = change(d.path, inflight[d.path]) /\ NamespaceOf[d.path] = Plain
             /\ at = "applying" /\ d.path \in transfer \cup delete /\ d.path \in Paths
  <2>1. CASE \E p \in {q \in Paths : inflight[q] # NoFile /\ NamespaceOf[q] = Plain} :
               d = change(p, inflight[p])
    <3>1. PICK p \in Paths : /\ inflight[p] # NoFile /\ NamespaceOf[p] = Plain
                             /\ d = change(p, inflight[p])
      BY <2>1
    <3>2. at = "applying" /\ p \in transfer  BY <3>1 DEF IInv, InFlight
    <3> QED  BY <3>1, <3>2
  <2>2. CASE \E p \in {q \in delete : at = "applying" /\ transfer = {} /\ NamespaceOf[q] = Plain} :
               d = change(p, NoFile)
    BY <1>1, <2>2, NothingInFlight DEF TypeOK
  <2> QED  BY <2>1, <2>2 DEF Outstanding
<1>3. c.path \in options.scope  BY <1>1, <1>2, PlanInScope DEF Planned
<1>4. c \in Change
  <2>1. inflight[c.path] \in File \cup {NoFile}  BY <1>1, <1>2 DEF TypeOK
  <2> QED  BY <1>2, <2>1, TwoSides DEF Change
<1>5. ASSUME c.file # NoFile PROVE c.file.mtime <= clock /\ c.file.edit <= clock
  <2>1. c.file = inflight[c.path] /\ c.path \in Paths  BY <1>2
  <2>2. c.path \in transfer /\ Stamped(c.file, S[c.path])  BY <1>5, <2>1 DEF IInv, InFlight
  <2>3. c.path \in Listed(S)  BY <1>1, <1>2, <2>2, PlanInScope DEF Planned
  <2> QED  BY <1>1, <1>5, <2>1, <2>2, <2>3, TwoSides DEF Past, Stamped, S
<1>6. c.side = Target /\ c.file = inflight[c.path]  BY <1>2
<1>7. \A d \in Outstanding : d.path = c.path => d = c  BY <1>2
<1> QED  BY <1>2, <1>3, <1>4, <1>5, <1>6, <1>7

(* It joins what is late already.                                          *)
LEMMA MoreToCome ==
  ASSUME IInv, NEW kept \in SUBSET Outstanding, late' = late \cup kept,
         at' = "idle", overlapped' = overlapped, unstamped \subseteq unstamped',
         \A c \in late', s \in Sides :
           c.path \notin overlapped => disk'[s][c.path] = disk[s][c.path]
  PROVE  ToCome'
<1> SUFFICES ASSUME NEW c \in late'
             PROVE  /\ NamespaceOf[c.path] = Plain
                    /\ c.path \notin overlapped =>
                         /\ \A d \in late' : d.path = c.path => d = c
                         /\ c.file # NoFile =>
                              /\ Agrees(c.file, c.path)'
                              /\ c.path \notin unstamped' =>
                                   \A s \in Sides \ {c.side} :
                                     disk'[s][c.path] # NoFile => InOrder(c.file, disk'[s][c.path])
  BY DEF ToCome, Agrees, InOrder, Stamped
<1>1. ASSUME NEW d \in kept
      PROVE  /\ NamespaceOf[d.path] = Plain /\ d.path \in options.scope /\ d.path \in Paths
             /\ at # "idle" /\ d.side = Target /\ d.file = inflight[d.path]
             /\ \A e \in kept : e.path = d.path => e = d
  BY LeftBehind, Types DEF IInv
<1>2. ASSUME NEW d \in late, NEW e \in kept, d.path = e.path PROVE d.path \in overlapped
  BY <1>1, <1>2 DEF IInv, ToCome
<1>3. NamespaceOf[c.path] = Plain  BY <1>1 DEF IInv, ToCome
<1> SUFFICES ASSUME c.path \notin overlapped
             PROVE  /\ \A d \in late' : d.path = c.path => d = c
                    /\ c.file # NoFile =>
                         /\ Agrees(c.file, c.path)'
                         /\ c.path \notin unstamped' =>
                              \A s \in Sides \ {c.side} :
                                disk'[s][c.path] # NoFile => InOrder(c.file, disk'[s][c.path])
  BY <1>3
<1>4. \A s \in Sides : disk'[s][c.path] = disk[s][c.path]  OBVIOUS
<1>5. \A d \in late' : d.path = c.path => d = c  BY <1>1, <1>2 DEF IInv, ToCome
<1>6. ASSUME c.file # NoFile
      PROVE  /\ Agrees(c.file, c.path)
             /\ c.path \notin unstamped =>
                  \A s \in Sides \ {c.side} :
                    disk[s][c.path] # NoFile => InOrder(c.file, disk[s][c.path])
  <2>1. CASE c \in late  BY <1>6, <2>1 DEF IInv, ToCome
  <2>2. CASE c \in kept  BY <1>1, <1>6, <2>2, TwoSides DEF IInv, InFlight
  <2> QED  BY <2>1, <2>2
<1>7. Agrees(c.file, c.path) => Agrees(c.file, c.path)'  BY <1>4 DEF Agrees, Stamped
<1> QED  BY <1>4, <1>5, <1>6, <1>7

(* The end of a round anywhere keeps the invariant, also between a rename  *)
(* and its time stamp: nothing else has the time of that write.            *)
LEMMA StopKeeps ==
  ASSUME IInv, Interrupt \/ \E p \in Paths : WriteUnstamped(p)
  PROVE  IInv'
<1>1. /\ at' = "idle"
      /\ transfer' = {} /\ delete' = {} /\ publish' = {} /\ inflight' = Nothing /\ staged' = Nothing
      /\ UNCHANGED <<options, manifest, touched, overlapped>>
  BY DEF Interrupt, WriteUnstamped, GiveUp, Clear
<1>2. TypeOK /\ Past /\ Scoped  BY DEF IInv
<1>3. \A q \in Paths : inflight'[q] = NoFile /\ staged'[q] = NoFile  BY <1>1 DEF Nothing
<1>4. Scoped'  BY <1>1, <1>2 DEF Scoped, Running
<1>5. ClientSide' /\ SourceSide' /\ Planned' /\ TargetSide' /\ Outcome'
  BY <1>1 DEF ClientSide, SourceSide, Planned, TargetSide, Outcome, Undisturbed
<1>6. InFlight' /\ Staging'  BY <1>1, <1>3 DEF InFlight, Staging
<1>7. Nothing \in [Paths -> File \cup {NoFile}]  BY DEF Nothing
<1>8. CASE Interrupt
  <2>1. UNCHANGED <<disk, clock, unstamped>>  BY <1>8 DEF Interrupt
  <2>2. PICK kept \in SUBSET Outstanding : late' = late \cup kept  BY <1>8 DEF Interrupt, GiveUp
  <2>3. TypeOK'
    <3>1. late' \subseteq Change  BY <1>2, <2>2, LeftBehind DEF TypeOK
    <3> QED  BY <1>1, <1>2, <1>7, <2>1, <3>1 DEF TypeOK
  <2>4. Past'
    <3>1. \A c \in late' : c.file # NoFile => c.file.mtime <= clock /\ c.file.edit <= clock
      BY <1>2, <2>2, LeftBehind DEF Past
    <3> QED  BY <1>1, <1>2, <1>3, <2>1, <3>1 DEF Past
  <2>5. SameStampSameBytes' /\ EditsInOrder'
    BY <1>1, <2>1 DEF IInv, SameStampSameBytes, EditsInOrder
  <2>6. ToCome'  BY <1>1, <2>1, <2>2, MoreToCome
  <2> QED  BY <1>4, <1>5, <1>6, <2>3, <2>4, <2>5, <2>6 DEF IInv
<1>9. ASSUME NEW p \in Paths, WriteUnstamped(p) PROVE IInv'
  <2> DEFINE v == [size |-> inflight[p].size, mtime |-> clock + 1,
                   edit |-> inflight[p].edit, torn |-> inflight[p].torn]
  <2>1. /\ clock < MaxClock /\ inflight[p] # NoFile /\ clock' = clock + 1
        /\ unstamped' = unstamped \cup {p}
        /\ Overwrite(Target, p, v)
    BY <1>9 DEF WriteUnstamped, Overwrite
  <2>14. PICK kept \in SUBSET {c \in Outstanding : c.path # p} : late' = late \cup kept
    BY <1>9 DEF WriteUnstamped, GiveUp
  <2>2. MaxClock \in Nat /\ clock \in Nat /\ disk \in Disks  BY <1>2, RoundAssumption, Types
  <2>3. clock + 1 \in Times /\ clock <= clock + 1  BY <2>1, <2>2 DEF Times
  <2>4. inflight[p] \in File  BY <1>2, <2>1 DEF TypeOK
  <2>5. v \in File /\ v \in File \cup {NoFile}  BY <2>3, <2>4 DEF File
  <2>6. v.mtime = clock + 1 /\ v.edit = inflight[p].edit  OBVIOUS
  <2> HIDE DEF v
  <2>7. /\ disk' \in Disks /\ disk'[Target][p] = v
        /\ \A s \in Sides, q \in Paths : s # Target \/ q # p => disk'[s][q] = disk[s][q]
    BY <2>1, <2>2, <2>5, Overwritten, TwoSides
  <2>8. TypeOK'
    <3>1. late' \subseteq Change  BY <1>2, <2>14, LeftBehind DEF TypeOK
    <3> QED  BY <1>1, <1>2, <1>7, <2>1, <2>3, <2>7, <3>1 DEF TypeOK, Disks
  <2>9. Past'
    <3>1. v.edit \in Nat /\ v.edit <= clock  BY <1>2, <2>1, <2>6, Types DEF Past
    <3>2. \A s \in Sides, q \in Paths : disk'[s][q] # NoFile =>
            disk'[s][q].mtime <= clock' /\ disk'[s][q].edit <= clock'
      BY <1>2, <2>1, <2>2, <2>6, <2>7, <3>1, Types DEF Past
    <3>3. \A s \in Sides : \A q \in Listed(manifest[s]) : manifest[s][q].mtime <= clock'
      BY <1>2, <2>1, <2>2, Types DEF Past
    <3>4. \A c \in late' : c.file # NoFile => c.file.mtime <= clock' /\ c.file.edit <= clock'
      <4>1. \A c \in late' : c \in Change  BY <2>8 DEF TypeOK
      <4>2. \A c \in late' : c.file # NoFile => c.file.mtime \in Nat /\ c.file.edit \in Nat
        BY <4>1, Numbers DEF Change, File
      <4>3. \A c \in late' : c.file # NoFile => c.file.mtime <= clock /\ c.file.edit <= clock
        BY <1>2, <2>14, LeftBehind DEF Past
      <4> QED  BY <2>1, <2>2, <4>2, <4>3
    <3> QED  BY <1>1, <1>3, <3>2, <3>3, <3>4 DEF Past
  <2>10. SameStampSameBytes'
    <3> SUFFICES ASSUME NEW q \in Paths \ overlapped,
                        disk'["client"][q] # NoFile, disk'["server"][q] # NoFile,
                        Stamp(disk'["client"][q]) = Stamp(disk'["server"][q])
                 PROVE  disk'["client"][q] = disk'["server"][q]
      BY <1>1 DEF SameStampSameBytes, Stamp
    <3>1. CASE q # p
      <4>1. disk'["client"][q] = disk["client"][q] /\ disk'["server"][q] = disk["server"][q]
        BY <2>7, <3>1 DEF Sides
      <4> QED  BY <4>1 DEF IInv, SameStampSameBytes
    <3>2. CASE q = p
      <4>1. disk[Source][p] # NoFile /\ disk[Source][p].mtime = v.mtime
        BY <2>7, <3>2, TwoSides DEF Stamp
      <4>2. disk[Source][p].mtime <= clock /\ disk[Source][p].mtime \in Nat
        BY <1>2, <4>1, Types, TwoSides DEF Past
      <4> QED  BY <2>2, <2>6, <4>1, <4>2
    <3> QED  BY <3>1, <3>2
  <2>11. EditsInOrder'
    <3> SUFFICES ASSUME NEW q \in Paths \ (unstamped' \cup overlapped),
                        disk'["client"][q] # NoFile, disk'["server"][q] # NoFile
                 PROVE  InOrder(disk'["client"][q], disk'["server"][q])
      BY <1>1 DEF EditsInOrder, InOrder
    <3>1. q # p /\ q \in Paths \ (unstamped \cup overlapped)  BY <2>1
    <3>2. disk'["client"][q] = disk["client"][q] /\ disk'["server"][q] = disk["server"][q]
      BY <2>7, <3>1 DEF Sides
    <3> QED  BY <3>1, <3>2 DEF IInv, EditsInOrder
  <2>12. ToCome'
    <3>1. p \in options.scope /\ at # "idle"
      BY <1>2, <2>1, PlanInScope DEF IInv, InFlight, Planned
    <3>2. \A c \in late : c.path = p => c.path \in overlapped  BY <3>1 DEF IInv, ToCome
    <3>3. \A c \in late' : c.path \in Paths /\ (c.path = p => c.path \in overlapped)
      BY <2>14, <2>8, <3>2 DEF TypeOK, Change
    <3>4. \A c \in late', s \in Sides :
            c.path \notin overlapped => disk'[s][c.path] = disk[s][c.path]
      BY <2>7, <3>3
    <3> QED  BY <1>1, <2>14, <2>1, <3>4, MoreToCome
  <2> QED  BY <1>4, <1>5, <1>6, <2>8, <2>9, <2>10, <2>11, <2>12 DEF IInv
<1> QED  BY <1>8, <1>9

-----------------------------------------------------------------------------
(* What takes effect late.                                                 *)

(* A late change puts its bytes on its side, with their stamp or with one  *)
(* that nothing else has.                                                  *)
LateEffect(c, v) ==
  /\ v \in File \cup {NoFile}
  /\ \/ v = c.file /\ UNCHANGED <<clock, unstamped>>
     \/ /\ v # NoFile /\ clock' = clock + 1 /\ v.mtime = clock'
        /\ c.file # NoFile /\ v.edit = c.file.edit
        /\ unstamped' = unstamped \cup {c.path}
  /\ clock' \in Times /\ clock <= clock'
  /\ disk' \in Disks
  /\ disk'[c.side][c.path] = v
  /\ \A s \in Sides, q \in Paths : s # c.side \/ q # c.path => disk'[s][q] = disk[s][q]
  /\ late' = late \ {c}
  /\ touched' = touched \cup {<<c.side, c.path>>}
  /\ UNCHANGED <<options, at, manifest, transfer, delete, inflight, staged, publish, overlapped>>

(* LateChange and LateUnstamped are such steps. *)
LEMMA LateEffects ==
  ASSUME TypeOK, NEW c \in late, LateChange(c) \/ LateUnstamped(c)
  PROVE  \E v : LateEffect(c, v)
<1>1. /\ disk \in Disks /\ clock \in Nat /\ clock \in Times /\ c.side \in Sides /\ c.path \in Paths
      /\ c.file \in File \cup {NoFile}
  BY Types DEF TypeOK
<1>2. CASE LateChange(c)
  <2>1. Overwrite(c.side, c.path, c.file)  BY <1>2 DEF LateChange, Overwrite
  <2>2. /\ disk' \in Disks /\ disk'[c.side][c.path] = c.file
        /\ \A s \in Sides, q \in Paths : s # c.side \/ q # c.path => disk'[s][q] = disk[s][q]
    BY <1>1, <2>1, Overwritten
  <2>3. LateEffect(c, c.file)  BY <1>1, <1>2, <2>2 DEF LateEffect, LateChange
  <2> QED  BY <2>3
<1>3. CASE LateUnstamped(c)
  <2> DEFINE v == [size |-> c.file.size, mtime |-> clock + 1,
                   edit |-> c.file.edit, torn |-> c.file.torn]
  <2>1. MaxClock \in Nat  BY RoundAssumption
  <2>2. clock + 1 \in Times /\ clock <= clock + 1  BY <1>1, <1>3, <2>1 DEF LateUnstamped, Times
  <2>3. c.file # NoFile /\ c.file \in File  BY <1>1, <1>3 DEF LateUnstamped
  <2>4. v \in File /\ v.mtime = clock + 1 /\ v.edit = c.file.edit  BY <2>2, <2>3 DEF File
  <2>5. Overwrite(c.side, c.path, v)  BY <1>3 DEF LateUnstamped, Overwrite
  <2> HIDE DEF v
  <2>6. /\ disk' \in Disks /\ disk'[c.side][c.path] = v
        /\ \A s \in Sides, q \in Paths : s # c.side \/ q # c.path => disk'[s][q] = disk[s][q]
    BY <1>1, <2>4, <2>5, Overwritten
  <2>7. v # NoFile  BY <2>4, NoFileAssumption
  <2>8. LateEffect(c, v)  BY <1>3, <2>2, <2>3, <2>4, <2>6, <2>7 DEF LateEffect, LateUnstamped
  <2> QED  BY <2>8
<1> QED  BY <1>2, <1>3

(* It keeps the invariant: a round of the path counts it as overlapped, and *)
(* without one the bytes agree with what the other side has.               *)
LEMMA LateKeeps ==
  ASSUME IInv, NEW c \in late, NEW v, LateEffect(c, v)
  PROVE  IInv'
<1> DEFINE s == c.side
           p == c.path
<1>1. /\ UNCHANGED <<options, at, manifest, transfer, delete, inflight, staged, publish, overlapped>>
      /\ touched' = touched \cup {<<s, p>>} /\ late' = late \ {c}
      /\ clock' \in Nat /\ clock \in Nat /\ clock <= clock' /\ unstamped \subseteq unstamped'
      /\ disk'[s][p] = v /\ disk' \in Disks
  BY Numbers, Types DEF LateEffect, IInv
<1>2. \A r \in Sides, q \in Paths : r # s \/ q # p => disk'[r][q] = disk[r][q]
  BY DEF LateEffect
<1>3. \/ v = c.file /\ UNCHANGED <<clock, unstamped>>
      \/ /\ v # NoFile /\ clock' = clock + 1 /\ v.mtime = clock'
         /\ c.file # NoFile /\ v.edit = c.file.edit
         /\ unstamped' = unstamped \cup {p}
  BY DEF LateEffect
<1>4. TypeOK /\ Past /\ Scoped /\ SameStampSameBytes /\ ToCome  BY DEF IInv
<1>5. /\ Source' = Source /\ Target' = Target /\ S' = S /\ T' = T
      /\ PlannedTransfer' = PlannedTransfer
      /\ PlannedDelete' = PlannedDelete /\ PlannedPublish' = PlannedPublish
      /\ Running' = Running /\ Source \in Sides /\ Target \in Sides /\ Source # Target
  BY <1>1, SamePlan, TwoSides DEF Running
<1>6. /\ s \in Sides /\ p \in Paths /\ NamespaceOf[p] = Plain
      /\ at # "idle" /\ p \in options.scope => p \in overlapped
      /\ p \notin overlapped =>
           /\ \A d \in late : d.path = p => d = c
           /\ c.file # NoFile =>
                /\ Agrees(c.file, p)
                /\ p \notin unstamped =>
                     \A r \in Sides \ {s} : disk[r][p] # NoFile => InOrder(c.file, disk[r][p])
  BY <1>4, Types DEF ToCome
<1>7. c.file # NoFile => /\ c.file.mtime \in Nat /\ c.file.edit \in Nat
                         /\ c.file.mtime <= clock /\ c.file.edit <= clock
  BY <1>4, Types DEF Past
<1> HIDE DEF s, p
<1>8. TypeOK'
  <2>1. clock' \in Times /\ v \in File \cup {NoFile}  BY DEF LateEffect
  <2>2. unstamped' \subseteq Paths  BY <1>3, <1>4, <1>6 DEF TypeOK
  <2> QED  BY <1>1, <1>4, <1>6, <2>1, <2>2 DEF TypeOK, Disks
<1>9. Past'
  <2>1. \A r \in Sides, q \in Paths : disk'[r][q] # NoFile =>
          disk'[r][q].mtime <= clock' /\ disk'[r][q].edit <= clock'
    BY <1>1, <1>2, <1>3, <1>4, <1>7, Types DEF Past
  <2>2. \A q \in Paths : inflight'[q] # NoFile => inflight'[q].edit <= clock'
    BY <1>1, <1>4, Types DEF Past
  <2>3. \A r \in Sides : \A q \in Listed(manifest'[r]) : manifest'[r][q].mtime <= clock'
    BY <1>1, <1>4, Types DEF Past
  <2>4. \A d \in late' : d.file # NoFile => d.file.mtime <= clock' /\ d.file.edit <= clock'
    BY <1>1, <1>4, Types DEF Past
  <2> QED  BY <2>1, <2>2, <2>3, <2>4 DEF Past
<1>10. Scoped'  BY <1>1, <1>4, <1>5, <1>6 DEF Scoped
<1>11. ASSUME NEW r \in Sides, r # s, v # NoFile, disk[r][p] # NoFile, p \notin overlapped
       PROVE  /\ Stamped(disk[r][p], v) => disk[r][p] = v
              /\ p \notin unstamped' => InOrder(v, disk[r][p])
  <2>1. CASE v = c.file /\ UNCHANGED <<clock, unstamped>>
    BY <1>6, <1>11, <2>1 DEF Agrees
  <2>2. CASE clock' = clock + 1 /\ v.mtime = clock' /\ unstamped' = unstamped \cup {p}
    <3>1. disk[r][p].mtime <= clock /\ disk[r][p].mtime \in Nat  BY <1>4, <1>6, <1>11, Types DEF Past
    <3> QED  BY <1>1, <2>2, <3>1 DEF Stamped
  <2> QED  BY <1>3, <2>1, <2>2
<1>12. SameStampSameBytes'
  <2> SUFFICES ASSUME NEW q \in Paths \ overlapped,
                      disk'["client"][q] # NoFile, disk'["server"][q] # NoFile,
                      Stamp(disk'["client"][q]) = Stamp(disk'["server"][q])
               PROVE  disk'["client"][q] = disk'["server"][q]
    BY <1>1 DEF SameStampSameBytes, Stamp
  <2>1. CASE q # p
    <3>1. disk'["client"][q] = disk["client"][q] /\ disk'["server"][q] = disk["server"][q]
      BY <1>2, <2>1 DEF Sides
    <3> QED  BY <1>4, <3>1 DEF SameStampSameBytes
  <2>2. CASE q = p
    <3>1. PICK r \in Sides : r # s  BY DEF Sides
    <3>2. disk'[r][p] = disk[r][p]  BY <1>2, <1>6, <3>1
    <3>3. /\ v # NoFile /\ disk[r][p] # NoFile /\ Stamped(disk[r][p], v)
      BY <1>1, <1>6, <2>2, <3>1, <3>2 DEF Sides, Stamp, Stamped
    <3> QED  BY <1>1, <1>6, <1>11, <2>2, <3>1, <3>2, <3>3 DEF Sides
  <2> QED  BY <2>1, <2>2
<1>13. ASSUME NEW r \in Sides, at # "idle", ScannedSide(r) PROVE ScannedSide(r)'
  <2> SUFFICES ASSUME NEW q \in options.scope
               PROVE  /\ <<r, q>> \notin touched' => AsScanned(r, q)'
                      /\ q \in Listed(manifest[r]) /\ disk'[r][q] # NoFile /\ q \notin overlapped =>
                           manifest[r][q].mtime <= disk'[r][q].mtime
    BY <1>1 DEF ScannedSide
  <2>1. q \in Paths  BY <1>4, Types
  <2>2. CASE r # s \/ q # p
    <3>1. disk'[r][q] = disk[r][q]  BY <1>2, <2>1, <2>2
    <3> QED  BY <1>1, <1>13, <3>1 DEF ScannedSide, AsScanned
  <2>3. CASE r = s /\ q = p  BY <1>1, <1>6, <1>13, <2>3
  <2> QED  BY <2>2, <2>3
<1>14. ClientSide'
  <2> SUFFICES ASSUME at = "scanned"
               PROVE  /\ ScannedSide("client")'
                      /\ \A q \in options.scope \ overlapped :
                           /\ <<"client", q>> \in touched'
                           /\ disk'["client"][q] # NoFile /\ disk'["server"][q] # NoFile
                           => disk'["client"][q].mtime # disk'["server"][q].mtime
    BY <1>1 DEF ClientSide
  <2>1. ScannedSide("client")'  BY <1>13 DEF IInv, ClientSide, Sides
  <2> SUFFICES ASSUME NEW q \in options.scope \ overlapped, <<"client", q>> \in touched',
                      disk'["client"][q] # NoFile, disk'["server"][q] # NoFile
               PROVE  disk'["client"][q].mtime # disk'["server"][q].mtime
    BY <2>1
  <2>2. q # p /\ q \in Paths  BY <1>4, <1>6, Types
  <2>3. disk'["client"][q] = disk["client"][q] /\ disk'["server"][q] = disk["server"][q]
    BY <1>2, <2>2 DEF Sides
  <2> QED  BY <1>1, <2>2, <2>3 DEF IInv, ClientSide
<1>15. SourceSide'
  <2> SUFFICES ASSUME at \in {"applying", "done"} PROVE ScannedSide(Source)'
    BY <1>1, <1>5 DEF SourceSide, ScannedSide, AsScanned
  <2> QED  BY <1>5, <1>13 DEF IInv, SourceSide
<1>16. Planned'
  <2> SUFFICES ASSUME at = "applying", NEW q \in transfer \ overlapped,
                      NamespaceOf[q] = Plain, disk'[Target][q] # NoFile
               PROVE  ~Stamped(disk'[Target][q], S[q])
    BY <1>1, <1>5 DEF IInv, Planned
  <2>1. q \in options.scope /\ q \in Paths  BY <1>4, PlanInScope, Types DEF IInv, Planned
  <2>2. disk'[Target][q] = disk[Target][q]  BY <1>2, <1>5, <1>6, <2>1
  <2> QED  BY <2>2 DEF IInv, Planned
<1>17. EditsInOrder'
  <2> SUFFICES ASSUME NEW q \in Paths \ (unstamped' \cup overlapped),
                      disk'["client"][q] # NoFile, disk'["server"][q] # NoFile
               PROVE  InOrder(disk'["client"][q], disk'["server"][q])
    BY <1>1 DEF EditsInOrder, InOrder
  <2>1. CASE q # p
    <3>1. disk'["client"][q] = disk["client"][q] /\ disk'["server"][q] = disk["server"][q]
      BY <1>2, <2>1 DEF Sides
    <3> QED  BY <1>1, <3>1 DEF IInv, EditsInOrder
  <2>2. CASE q = p
    <3>1. PICK r \in Sides : r # s  BY DEF Sides
    <3>2. disk'[r][p] = disk[r][p]  BY <1>2, <1>6, <3>1
    <3>3. v # NoFile /\ disk[r][p] # NoFile  BY <1>1, <1>6, <2>2, <3>1, <3>2 DEF Sides
    <3>4. InOrder(v, disk[r][p]) /\ InOrder(disk[r][p], v)
      BY <1>11, <2>2, <3>1, <3>3 DEF InOrder
    <3> QED  BY <1>1, <1>6, <2>2, <3>1, <3>2, <3>4 DEF Sides
  <2> QED  BY <2>1, <2>2
<1>18. InFlight'
  <2> SUFFICES ASSUME NEW q \in Paths, inflight[q] # NoFile
               PROVE  /\ at = "applying" /\ q \in transfer
                      /\ Stamped(inflight[q], S[q])
                      /\ <<Source, q>> \notin touched' => inflight[q] = disk'[Source][q]
                      /\ q \notin overlapped => Agrees(inflight[q], q)'
                      /\ q \notin unstamped' \cup overlapped =>
                           /\ disk'[Source][q] # NoFile => InOrder(inflight[q], disk'[Source][q])
                           /\ NotLater(q)'
    <3> HIDE DEF IInv
    <3> QED BY <1>1, <1>5 DEF InFlight, Stamped, InOrder, Agrees
  <2>1. /\ at = "applying" /\ q \in transfer
        /\ Stamped(inflight[q], S[q])
        /\ <<Source, q>> \notin touched => inflight[q] = disk[Source][q]
        /\ q \notin overlapped => Agrees(inflight[q], q)
        /\ q \notin unstamped \cup overlapped =>
             /\ disk[Source][q] # NoFile => InOrder(inflight[q], disk[Source][q])
             /\ NotLater(q)
    BY DEF IInv, InFlight
  <2>2. CASE q # p
    <3>1. \A r \in Sides : disk'[r][q] = disk[r][q] /\ (<<r, q>> \in touched' <=> <<r, q>> \in touched)
      BY <1>1, <1>2, <2>2
    <3>2. Agrees(inflight[q], q) => Agrees(inflight[q], q)'  BY <1>1, <3>1 DEF Agrees, Stamped
    <3>3. NotLater(q) => NotLater(q)'  BY <1>1, <1>5, <3>1 DEF NotLater
    <3>4. q \notin unstamped' => q \notin unstamped  BY <1>1
    <3> QED  BY <1>5, <2>1, <3>1, <3>2, <3>3, <3>4
  <2>3. CASE q = p
    <3>1. q \in overlapped
      BY <1>4, <1>6, <2>1, <2>3, PlanInScope DEF IInv, Planned
    <3>2. <<Source, q>> \notin touched' => inflight[q] = disk'[Source][q]
      BY <1>1, <1>2, <1>5, <2>1, <2>3
    <3> QED  BY <2>1, <3>1, <3>2
  <2> QED  BY <2>2, <2>3
<1>19. Staging'
  <2> SUFFICES ASSUME NEW q \in Paths, at = "applying", NamespaceOf[q] # Plain, q \in PlannedTransfer \ transfer
               PROVE  disk'[Source][q] = disk[Source][q]
    BY <1>1, <1>5 DEF IInv, Staging
  <2> QED  BY <1>2, <1>5, <1>6
<1>20. TargetSide'
  <2> SUFFICES ASSUME at = "applying", NEW q \in options.scope, <<Target, q>> \notin touched'
               PROVE  Progress(q)'
    BY <1>1, <1>5 DEF TargetSide
  <2>1. Progress(q) /\ ~(Target = s /\ q = p) /\ q \in Paths
    BY <1>1, <1>4, Types DEF IInv, TargetSide
  <2>2. disk'[Target][q] = disk[Target][q] /\ AsScanned(Target, q)' = AsScanned(Target, q)
    BY <1>1, <1>2, <1>5, <2>1 DEF AsScanned
  <2>3. <<Source, q>> \notin touched' => <<Source, q>> \notin touched /\ disk'[Source][q] = disk[Source][q]
    BY <1>1, <1>2, <1>5, <2>1
  <2> QED  BY <1>1, <1>5, <2>1, <2>2, <2>3 DEF Progress
<1>21. Outcome'  BY <1>1 DEF Outcome, Undisturbed
<1>22. ToCome'
  <2> SUFFICES ASSUME NEW d \in late'
               PROVE  /\ NamespaceOf[d.path] = Plain
                      /\ at # "idle" /\ d.path \in options.scope => d.path \in overlapped
                      /\ d.path \notin overlapped =>
                           /\ \A e \in late' : e.path = d.path => e = d
                           /\ d.file # NoFile =>
                                /\ Agrees(d.file, d.path)'
                                /\ d.path \notin unstamped' =>
                                     \A r \in Sides \ {d.side} :
                                       disk'[r][d.path] # NoFile => InOrder(d.file, disk'[r][d.path])
    BY <1>1 DEF ToCome, Agrees, InOrder, Stamped
  <2>1. d \in late /\ d # c /\ d.path \in Paths  BY <1>1, <1>4, Types
  <2>2. /\ NamespaceOf[d.path] = Plain
        /\ at # "idle" /\ d.path \in options.scope => d.path \in overlapped
        /\ d.path \notin overlapped =>
             /\ \A e \in late : e.path = d.path => e = d
             /\ d.file # NoFile =>
                  /\ Agrees(d.file, d.path)
                  /\ d.path \notin unstamped =>
                       \A r \in Sides \ {d.side} :
                         disk[r][d.path] # NoFile => InOrder(d.file, disk[r][d.path])
    BY <1>4, <2>1 DEF ToCome
  <2>3. CASE d.path \in overlapped  BY <2>2, <2>3
  <2>4. CASE d.path \notin overlapped
    <3>1. d.path # p  BY <2>1, <2>2, <2>4 DEF p
    <3>2. \A r \in Sides : disk'[r][d.path] = disk[r][d.path]  BY <1>2, <2>1, <3>1
    <3>3. Agrees(d.file, d.path) => Agrees(d.file, d.path)'  BY <3>2 DEF Agrees, Stamped
    <3> QED  BY <1>1, <2>2, <2>4, <3>2, <3>3
  <2> QED  BY <2>3, <2>4
<1> QED
  BY <1>8, <1>9, <1>10, <1>12, <1>14, <1>15, <1>16, <1>17, <1>18, <1>19, <1>20, <1>21, <1>22
  DEF IInv

-----------------------------------------------------------------------------
(* The invariant.                                                          *)

(* It holds at the start. *)
LEMMA InitInv == Init => IInv
<1> SUFFICES ASSUME Init PROVE IInv  OBVIOUS
<1> DEFINE first(z) == [size |-> z, mtime |-> 1, edit |-> 1, torn |-> FALSE]
<1>1. /\ clock = 1 /\ at = "idle" /\ options \in Options /\ manifest = NoManifest
      /\ transfer = {} /\ delete = {} /\ publish = {} /\ touched = {}
      /\ late = {} /\ unstamped = {} /\ overlapped = {}
      /\ inflight = Nothing /\ staged = Nothing
      /\ disk \in [Sides -> [Paths -> {NoFile} \cup {first(z) : z \in Sizes}]]
  BY DEF Init
<1>2. 1 \in Times  BY RoundAssumption DEF Times
<1>3. \A z \in Sizes : first(z) \in File  BY <1>2 DEF File
<1>4. ASSUME NEW s \in Sides, NEW p \in Paths, disk[s][p] # NoFile
      PROVE  /\ disk[s][p] \in File /\ disk[s][p].mtime = 1 /\ disk[s][p].edit = 1
             /\ disk[s][p] = first(disk[s][p].size)
  <2>1. disk[s][p] \in {NoFile} \cup {first(z) : z \in Sizes}  BY <1>1
  <2>2. PICK z \in Sizes : disk[s][p] = first(z)  BY <1>4, <2>1
  <2> QED  BY <1>3, <2>2
<1>5. disk \in [Sides -> [Paths -> File \cup {NoFile}]]
  <2>1. \A z \in Sizes : first(z) \in File \cup {NoFile}  BY <1>3
  <2>2. {NoFile} \cup {first(z) : z \in Sizes} \subseteq File \cup {NoFile}  BY <2>1
  <2> HIDE DEF first
  <2> QED  BY <1>1, <2>2
<1>6. Nothing \in [Paths -> File \cup {NoFile}] /\ \A p \in Paths : Nothing[p] = NoFile  BY DEF Nothing
<1>7. \A s \in Sides : manifest[s] \in Manifests /\ Listed(manifest[s]) = {}
  <2>1. \A s \in Sides : manifest[s] = [p \in {} |-> NoFile]  BY <1>1 DEF NoManifest
  <2>2. [p \in {} |-> NoFile] \in [{} -> [size : Sizes, mtime : Times]]  OBVIOUS
  <2>3. [p \in {} |-> NoFile] \in Manifests  BY <2>2 DEF Manifests
  <2> QED  BY <2>1, <2>3 DEF Listed
<1>8. manifest \in [Sides -> Manifests]  BY <1>1, <1>7 DEF NoManifest
<1>9. TypeOK  BY <1>1, <1>2, <1>5, <1>6, <1>8 DEF TypeOK
<1> HIDE DEF first
<1>10. Past
  <2>1. \A s \in Sides, p \in Paths : disk[s][p] # NoFile =>
          disk[s][p].mtime <= clock /\ disk[s][p].edit <= clock
    BY <1>1, <1>4
  <2>2. \A p \in Paths : inflight[p] = NoFile  BY <1>1, <1>6
  <2> QED  BY <1>1, <1>7, <2>1, <2>2 DEF Past
<1>11. Scoped  BY <1>1, <1>7 DEF Scoped, Running
<1>12. SameStampSameBytes
  BY <1>4 DEF SameStampSameBytes, Stamp, Sides
<1>13. EditsInOrder  BY <1>4 DEF EditsInOrder, InOrder, Sides
<1>14. ClientSide /\ SourceSide /\ Planned /\ TargetSide /\ Outcome
  BY <1>1 DEF ClientSide, SourceSide, Planned, TargetSide, Outcome, Undisturbed
<1>15. InFlight /\ ToCome /\ Staging  BY <1>1, <1>6 DEF InFlight, ToCome, Staging
<1> QED  BY <1>9, <1>10, <1>11, <1>12, <1>13, <1>14, <1>15 DEF IInv

(* Every step keeps it. *)
LEMMA NextInv == IInv /\ [Next]_vars => IInv'
<1> SUFFICES ASSUME IInv, [Next]_vars PROVE IInv'  OBVIOUS
<1>1. CASE UNCHANGED vars
  <2>1. UNCHANGED <<disk, clock, options, at, manifest, transfer, delete, inflight, staged, publish,
                    touched, late, unstamped, overlapped>>
    BY <1>1 DEF vars
  <2>2. TypeOK' /\ Past' /\ Scoped'  BY <2>1 DEF IInv, TypeOK, Past, Scoped, Running
  <2>3. SameStampSameBytes' /\ EditsInOrder'  BY <2>1 DEF IInv, SameStampSameBytes, EditsInOrder
  <2>4. /\ Source' = Source /\ Target' = Target /\ S' = S /\ T' = T
        /\ PlannedTransfer' = PlannedTransfer
        /\ PlannedDelete' = PlannedDelete /\ PlannedPublish' = PlannedPublish
    BY <2>1, SamePlan
  <2>5. ClientSide' /\ SourceSide'
    BY <2>1, <2>4 DEF IInv, ClientSide, SourceSide, ScannedSide, AsScanned
  <2>6. Planned' /\ Staging'  BY <2>1, <2>4 DEF IInv, Planned, Staging
  <2>7. InFlight' /\ ToCome'
    <3>1. \A p \in Paths : NotLater(p)' = NotLater(p)  BY <2>1, <2>4 DEF NotLater
    <3> QED  BY <2>1, <2>4, <3>1 DEF IInv, InFlight, ToCome, Agrees
  <2>8. \A p : Progress(p)' = Progress(p) /\ Replaced(p)' = Replaced(p) /\ AsScanned(Target, p)' = AsScanned(Target, p)
    BY <2>1, <2>4 DEF Progress, Replaced, AsScanned
  <2>9. TargetSide' /\ Outcome'  BY <2>1, <2>4, <2>8 DEF IInv, TargetSide, Outcome, Undisturbed
  <2> QED  BY <2>2, <2>3, <2>5, <2>6, <2>7, <2>9 DEF IInv
<1>2. ASSUME NEW s \in Sides, NEW p \in Paths, Discard(s, p) \/ \E z \in Sizes : Edit(s, p, z)
      PROVE  IInv'
  <2>1. \E v : UserChange(s, p, v)  BY <1>2, UserChanges DEF IInv
  <2> QED  BY <2>1, UserKeeps
<1>3. ASSUME NEW o \in Options, ScanClient(o) PROVE IInv'  BY <1>3, ScanClientKeeps
<1>4. CASE ScanServer  BY <1>4, ScanServerKeeps
<1>5. ASSUME NEW p \in Paths, Read(p) PROVE IInv'  BY <1>5, ReadKeeps
<1>6. ASSUME NEW p \in Paths, WriteFile(p) PROVE IInv'  BY <1>6, WriteFileKeeps
<1>7. ASSUME NEW p \in Paths, StageFile(p) PROVE IInv'  BY <1>7, StageFileKeeps
<1>8. ASSUME NEW p \in Paths, DeleteFile(p) PROVE IInv'  BY <1>8, DeleteFileKeeps
<1>9. ASSUME NEW n \in Namespaces, PublishNamespace(n) PROVE IInv'  BY <1>9, PublishKeeps
<1>10. CASE Complete  BY <1>10, CompleteKeeps
<1>11. CASE Interrupt \/ \E p \in Paths : WriteUnstamped(p)  BY <1>11, StopKeeps
<1>12. ASSUME NEW c \in late, LateChange(c) \/ LateUnstamped(c) PROVE IInv'
  <2>1. \E v : LateEffect(c, v)  BY <1>12, LateEffects DEF IInv
  <2> QED  BY <2>1, LateKeeps
<1> QED
  BY <1>1, <1>2, <1>3, <1>4, <1>5, <1>6, <1>7, <1>8, <1>9, <1>10, <1>11, <1>12 DEF Next

(* It holds throughout. *)
THEOREM Invariance == Spec => []IInv
BY InitInv, NextInv, PTL DEF Spec

(* Files, manifests and plans keep their types.                            *)
THEOREM TypeCorrect == Spec => []TypeOK
<1>1. IInv => TypeOK  BY DEF IInv
<1> QED  BY <1>1, Invariance, PTL

(* The planner may compare stamps: files with the same size and time have  *)
(* the same bytes, whatever was interrupted, edited or torn before, unless *)
(* a round of the path began while a change of an earlier one was to come. *)
THEOREM StampsSuffice == Spec => []SameStampSameBytes
<1>1. IInv => SameStampSameBytes  BY DEF IInv
<1> QED  BY <1>1, Invariance, PTL

-----------------------------------------------------------------------------
(* What the plan means.                                                    *)

(* Times that are bounded have a greatest one. *)
LEMMA GreatestTime ==
  ASSUME NEW M \in SUBSET Times, M # {}
  PROVE  \E t \in M : \A u \in M : u <= t
<1> DEFINE rest == {d \in Nat : MaxClock - d \in M}
<1>1. MaxClock \in Nat  BY RoundAssumption
<1>2. \A u \in M : u \in Nat /\ u <= MaxClock  BY Numbers
<1>3. \A u \in M : MaxClock - u \in rest  BY <1>1, <1>2
<1>4. rest \subseteq Nat /\ rest # {}  BY <1>3
<1>5. \E x \in rest : \A y \in rest : ~(<<y, x>> \in OpToRel(<, Nat))
  <2> HIDE DEF rest
  <2> QED  BY <1>4, NatLessThanWellFounded, WFMin
<1>6. PICK x \in rest : \A y \in rest : ~(y < x)
  BY <1>4, <1>5 DEF OpToRel
<1>7. \A u \in M : u <= MaxClock - x  BY <1>1, <1>2, <1>3, <1>6
<1> QED  BY <1>7

(* Newest is the time of a file of the namespace, and no file of it is     *)
(* newer.                                                                  *)
LEMMA NewestOf ==
  ASSUME TypeOK, NEW s \in Sides, NEW n, Has(manifest[s], n)
  PROVE  /\ \E p \in Listed(manifest[s]) :
              NamespaceOf[p] = n /\ manifest[s][p].mtime = Newest(manifest[s], n)
         /\ \A p \in Listed(manifest[s]) :
              NamespaceOf[p] = n => manifest[s][p].mtime <= Newest(manifest[s], n)
<1> DEFINE m == manifest[s]
           M == {m[p].mtime : p \in {q \in Listed(m) : NamespaceOf[q] = n}}
<1>1. \A p \in Listed(m) : m[p].mtime \in Times
  <2>1. PICK listed \in SUBSET Paths : m \in [listed -> [size : Sizes, mtime : Times]]
    BY DEF TypeOK, Manifests
  <2> QED  BY <2>1 DEF Listed
<1>2. M \in SUBSET Times /\ M # {}  BY <1>1 DEF Has
<1>3. \E t \in M : \A u \in M : u <= t  BY <1>2, GreatestTime
<1>4. \E t \in M : \A p \in Listed(m) : NamespaceOf[p] = n => m[p].mtime <= t  BY <1>3
<1>5. Newest(m, n) \in M /\ \A p \in Listed(m) : NamespaceOf[p] = n => m[p].mtime <= Newest(m, n)
  BY <1>4 DEF Newest
<1> QED  BY <1>5

(* What the plan does to a path follows the winner of the documentation:   *)
(* an ordinary file by its own times ...                                   *)
LEMMA PlainWinner ==
  ASSUME TypeOK, NEW p \in Paths, NamespaceOf[p] = Plain
  PROVE  \/ /\ WinnerOf(p) = "source"
            /\ \/ Replaced(p)
               \/ p \in Listed(S) /\ p \in Listed(T) /\ S[p].size = T[p].size /\ S[p].mtime = T[p].mtime
               \/ p \notin Listed(S) /\ p \notin Listed(T)
         \/ /\ WinnerOf(p) = "target"
            /\ ~Replaced(p)
            /\ p \in Listed(S) => p \in Listed(T) /\ options.overwrite = "prefer_newer"
                                  /\ T[p].mtime > S[p].mtime
            /\ p \notin Listed(S) => options.mode # "mirror"
<1> DEFINE newer == p \in Listed(S) \cap Listed(T) /\ T[p].mtime > S[p].mtime
<1>1. WinnerOf(p) = Winner(p \in Listed(S), p \in Listed(T), newer)  BY DEF WinnerOf
<1>2. /\ p \in Listed(S) => S[p].mtime \in Nat
      /\ p \in Listed(T) => T[p].mtime \in Nat
  BY Types, TwoSides DEF S, T
<1>3. Replaced(p) <=> p \in PlannedTransfer \cup PlannedDelete  BY DEF Replaced
<1>4. p \in PlannedTransfer <=>
        p \in Listed(S) /\ (p \in Listed(T) => Outdated(S, T, options.overwrite, p))
  BY DEF PlannedTransfer, Transfer, TransferNeeded
<1>5. p \in PlannedDelete <=> p \in Listed(T) /\ p \notin Listed(S) /\ options.mode = "mirror"
  BY DEF PlannedDelete, Delete, KeepsNamespace
<1>6. CASE p \in Listed(S) /\ p \in Listed(T)
  <2>1. CASE options.overwrite = "prefer_newer" /\ newer
    <3>1. WinnerOf(p) = "target"  BY <1>1, <1>6, <2>1 DEF Winner
    <3>2. ~Outdated(S, T, options.overwrite, p)  BY <1>2, <1>6, <2>1 DEF Outdated
    <3> QED  BY <1>3, <1>4, <1>5, <1>6, <2>1, <3>1, <3>2
  <2>2. CASE ~(options.overwrite = "prefer_newer" /\ newer)
    <3>1. WinnerOf(p) = "source"  BY <1>1, <1>6, <2>2 DEF Winner
    <3>2. options.overwrite = "prefer_newer" => T[p].mtime <= S[p].mtime  BY <1>2, <1>6, <2>2
    <3>3. \/ Outdated(S, T, options.overwrite, p)
          \/ S[p].size = T[p].size /\ S[p].mtime = T[p].mtime
      BY <3>2 DEF Outdated
    <3> QED  BY <1>3, <1>4, <1>6, <3>1, <3>3
  <2> QED  BY <2>1, <2>2
<1>7. CASE p \in Listed(S) /\ p \notin Listed(T)
  <2>1. WinnerOf(p) = "source"  BY <1>1, <1>7 DEF Winner
  <2> QED  BY <1>3, <1>4, <1>7, <2>1
<1>8. CASE p \notin Listed(S)
  <2>1. WinnerOf(p) = IF options.mode = "mirror" THEN "source" ELSE "target"
    BY <1>1, <1>8 DEF Winner
  <2> QED  BY <1>3, <1>4, <1>5, <1>8, <2>1
<1> QED  BY <1>6, <1>7, <1>8

(* ... and a database as a whole, by its newest file.                      *)
LEMMA DatabaseWinner ==
  ASSUME TypeOK, NEW p \in Paths, NEW n, n = NamespaceOf[p], n # Plain
  PROVE  \/ /\ WinnerOf(p) = "source"
            /\ n \in PlannedPublish \/ (~Has(S, n) /\ ~Has(T, n))
         \/ /\ WinnerOf(p) = "target"
            /\ n \notin PlannedPublish
            /\ Has(S, n) => Preserved(S, T, options.overwrite, n)
            /\ ~Has(S, n) => options.mode # "mirror"
<1> DEFINE newer == Has(S, n) /\ Has(T, n) /\ Newest(T, n) > Newest(S, n)
<1>1. WinnerOf(p) = Winner(Has(S, n), Has(T, n), newer)  BY DEF WinnerOf
<1>2. \A q : NamespaceOf[q] = n =>
        /\ KeepsNamespace(S, T, options.overwrite, q) <=> Preserved(S, T, options.overwrite, n)
        /\ q \in PlannedTransfer <=> q \in Listed(S) /\ ~Preserved(S, T, options.overwrite, n)
        /\ q \in PlannedDelete <=> /\ q \in Listed(T) /\ q \notin Listed(S) /\ options.mode = "mirror"
                                   /\ ~Preserved(S, T, options.overwrite, n)
  BY DEF KeepsNamespace, PlannedTransfer, PlannedDelete, Transfer, TransferNeeded, Delete
<1>3. n \in PlannedPublish <=> \E q \in PlannedTransfer \cup PlannedDelete : NamespaceOf[q] = n
  BY DEF PlannedPublish
<1>4. n \in PlannedPublish <=>
        /\ ~Preserved(S, T, options.overwrite, n)
        /\ \/ Has(S, n)
           \/ options.mode = "mirror" /\ \E q \in Listed(T) \ Listed(S) : NamespaceOf[q] = n
  BY <1>2, <1>3 DEF Has
<1>5. CASE Has(S, n) /\ Has(T, n)
  <2>1. /\ \E q \in Listed(S) : NamespaceOf[q] = n /\ S[q].mtime = Newest(S, n)
        /\ \A q \in Listed(S) : NamespaceOf[q] = n => S[q].mtime <= Newest(S, n)
    BY <1>5, NewestOf, TwoSides DEF S
  <2>2. /\ \E q \in Listed(T) : NamespaceOf[q] = n /\ T[q].mtime = Newest(T, n)
        /\ \A q \in Listed(T) : NamespaceOf[q] = n => T[q].mtime <= Newest(T, n)
    BY <1>5, NewestOf, TwoSides DEF T
  <2>3. /\ \A q \in Listed(S) : S[q].mtime \in Nat
        /\ \A q \in Listed(T) : T[q].mtime \in Nat
    BY Types, TwoSides DEF S, T
  <2>4. Newest(S, n) \in Nat /\ Newest(T, n) \in Nat  BY <2>1, <2>2, <2>3
  <2>5. Preserved(S, T, options.overwrite, n) <=>
          options.overwrite = "prefer_newer" /\ Newest(T, n) > Newest(S, n)
    <3>1. ASSUME Newest(T, n) > Newest(S, n), options.overwrite = "prefer_newer"
          PROVE  Preserved(S, T, options.overwrite, n)
      <4>1. PICK q \in Listed(T) : NamespaceOf[q] = n /\ T[q].mtime = Newest(T, n)  BY <2>2
      <4>2. \A r \in Listed(S) : NamespaceOf[r] = n => T[q].mtime > S[r].mtime
        BY <2>1, <2>3, <2>4, <3>1, <4>1
      <4> QED  BY <1>5, <3>1, <4>1, <4>2 DEF Preserved, Has
    <3>2. ASSUME Preserved(S, T, options.overwrite, n)
          PROVE  Newest(T, n) > Newest(S, n) /\ options.overwrite = "prefer_newer"
      <4>1. PICK q \in Listed(T) : /\ NamespaceOf[q] = n
                                   /\ \A r \in Listed(S) : NamespaceOf[r] = n => T[q].mtime > S[r].mtime
        BY <3>2 DEF Preserved
      <4>2. T[q].mtime > Newest(S, n) /\ T[q].mtime <= Newest(T, n)  BY <2>1, <2>2, <4>1
      <4> QED  BY <2>3, <2>4, <3>2, <4>1, <4>2 DEF Preserved
    <3> QED  BY <3>1, <3>2
  <2>6. WinnerOf(p) = IF Preserved(S, T, options.overwrite, n) THEN "target" ELSE "source"
    BY <1>1, <1>5, <2>5 DEF Winner
  <2> QED  BY <1>4, <1>5, <2>6
<1>6. CASE Has(S, n) /\ ~Has(T, n)
  <2>1. WinnerOf(p) = "source"  BY <1>1, <1>6 DEF Winner
  <2>2. ~Preserved(S, T, options.overwrite, n)  BY <1>6 DEF Preserved, Has
  <2> QED  BY <1>4, <1>6, <2>1, <2>2
<1>7. CASE ~Has(S, n)
  <2>1. WinnerOf(p) = IF options.mode = "mirror" THEN "source" ELSE "target"
    BY <1>1, <1>7 DEF Winner
  <2>2. ~Preserved(S, T, options.overwrite, n)  BY <1>7 DEF Preserved, Has
  <2>3. Has(T, n) => \E q \in Listed(T) \ Listed(S) : NamespaceOf[q] = n  BY <1>7 DEF Has
  <2> QED  BY <1>4, <1>7, <2>1, <2>2, <2>3
<1> QED  BY <1>5, <1>6, <1>7

(* After a round that nobody disturbed, the target has the file of the     *)
(* side that wins.                                                         *)
LEMMA WinnerTakes ==
  ASSUME IInv, Undisturbed, NEW p \in options.scope
  PROVE  /\ AsScanned(Source, p)
         /\ \/ WinnerOf(p) = "source" /\ Alike(p)
            \/ WinnerOf(p) = "target" /\ AsScanned(Target, p)
<1>1. p \in Paths /\ TypeOK  BY Types DEF IInv
<1>2. AsScanned(Source, p)  BY DEF IInv, SourceSide, ScannedSide, Undisturbed
<1>3. IF Replaced(p) THEN Alike(p) ELSE AsScanned(Target, p)
  BY DEF IInv, Outcome, Alike
<1>4. ASSUME p \notin Listed(S), p \notin Listed(T), AsScanned(Target, p)
      PROVE  Alike(p)
  BY <1>2, <1>4 DEF AsScanned, S, T, Alike
<1>5. CASE NamespaceOf[p] = Plain
  <2>1. ASSUME p \in Listed(S), p \in Listed(T), S[p].size = T[p].size, S[p].mtime = T[p].mtime,
               AsScanned(Target, p)
        PROVE  Alike(p)
    <3>1. /\ disk[Target][p] # NoFile /\ disk[Source][p] # NoFile
          /\ Stamp(disk[Target][p]) = Stamp(disk[Source][p])
      BY <1>2, <2>1 DEF AsScanned, Stamped, Stamp, S, T
    <3> QED  BY <1>1, <3>1, TwoSides DEF IInv, SameStampSameBytes, Alike
  <2> QED  BY <1>1, <1>2, <1>3, <1>4, <1>5, <2>1, PlainWinner
<1>6. CASE NamespaceOf[p] # Plain
  <2>1. Replaced(p) <=> NamespaceOf[p] \in PlannedPublish  BY <1>6 DEF Replaced
  <2>2. ~Has(S, NamespaceOf[p]) /\ ~Has(T, NamespaceOf[p]) => p \notin Listed(S) /\ p \notin Listed(T)
    BY DEF Has
  <2> QED  BY <1>1, <1>2, <1>3, <1>4, <1>6, <2>1, <2>2, DatabaseWinner
<1> QED  BY <1>5, <1>6

(* A completed round that no edit and no late change disturbed leaves, for *)
(* every selected path, the file of the side that wins.                    *)
THEOREM RoundIsRight == Spec => []RoundDoesWhatItSays
<1>1. IInv => RoundDoesWhatItSays
  <2> SUFFICES ASSUME IInv, Undisturbed, NEW p \in options.scope
               PROVE  IF WinnerOf(p) = "source"
                        THEN Alike(p)
                        ELSE /\ p \in Listed(T) <=> disk[Target][p] # NoFile
                             /\ p \in Listed(T) => Stamp(disk[Target][p]) = <<T[p].size, T[p].mtime>>
    BY DEF RoundDoesWhatItSays
  <2>1. CASE WinnerOf(p) = "source" /\ Alike(p)  BY <2>1
  <2>2. CASE WinnerOf(p) = "target" /\ AsScanned(Target, p)
    BY <2>2 DEF AsScanned, Stamped, Stamp, T
  <2> QED  BY <2>1, <2>2, WinnerTakes
<1> QED  BY <1>1, Invariance, PTL

(* Repeating such a round finds no ordinary file to transfer and nothing   *)
(* to delete.                                                              *)
THEOREM RoundSettled == Spec => []RoundSettles
<1>1. IInv => RoundSettles
  <2> SUFFICES ASSUME IInv, Undisturbed
               PROVE  LET again == Scan(Target, options.scope) IN
                      /\ \A p \in Transfer(S, again, options.overwrite) : NamespaceOf[p] # Plain
                      /\ Delete(S, again, options.mode, options.overwrite) = {}
    BY DEF RoundSettles
  <2> DEFINE again == Scan(Target, options.scope)
  <2>1. TypeOK /\ Scoped /\ options.scope \in SUBSET Paths  BY Types DEF IInv
  <2>2. /\ Listed(again) = {q \in options.scope : disk[Target][q] # NoFile}
        /\ \A q \in Listed(again) : Stamped(disk[Target][q], again[q])
    BY <2>1, ScanLists, TwoSides
  <2> HIDE DEF again
  <2>3. Listed(S) \subseteq options.scope /\ Listed(T) \subseteq options.scope
    BY <2>1, PlanInScope
  <2>4. \A q \in Listed(T) : AsScanned(Target, q) =>
          q \in Listed(again) /\ again[q].mtime = T[q].mtime
    BY <2>2, <2>3 DEF AsScanned, Stamped, T
  <2>5. /\ \A q \in Listed(S) : S[q].mtime \in Nat
        /\ \A q \in Listed(T) : T[q].mtime \in Nat
    BY <2>1, Types, TwoSides DEF S, T
  <2>6. ASSUME NEW p \in Transfer(S, again, options.overwrite), NamespaceOf[p] = Plain
        PROVE  FALSE
    <3>1. p \in Listed(S) /\ p \in options.scope /\ p \in Paths
      BY <2>1, <2>3 DEF Transfer
    <3>2. p \in Listed(again) => Outdated(S, again, options.overwrite, p)
      BY <2>6 DEF Transfer, TransferNeeded
    <3>3. AsScanned(Source, p)  BY <3>1, WinnerTakes
    <3>4. CASE WinnerOf(p) = "source"
      <4>1. Alike(p)  BY <3>1, <3>4, WinnerTakes
      <4>2. disk[Target][p] # NoFile /\ Stamped(disk[Target][p], S[p])
        BY <3>1, <3>3, <4>1 DEF AsScanned, S, Alike, Stamp, Stamped
      <4>3. p \in Listed(again) /\ S[p].size = again[p].size /\ S[p].mtime = again[p].mtime
        BY <2>2, <3>1, <4>2 DEF Stamped
      <4> QED  BY <3>2, <4>3 DEF Outdated
    <3>5. CASE WinnerOf(p) = "target"
      <4>1. AsScanned(Target, p)  BY <3>1, <3>5, WinnerTakes
      <4>2. p \in Listed(T) /\ options.overwrite = "prefer_newer" /\ T[p].mtime > S[p].mtime
        BY <2>1, <2>6, <3>1, <3>5, PlainWinner
      <4>3. p \in Listed(again) /\ again[p].mtime = T[p].mtime  BY <2>4, <4>1, <4>2
      <4> QED  BY <2>5, <3>1, <3>2, <4>2, <4>3 DEF Outdated
    <3> QED  BY <3>1, <3>4, <3>5, WinnerTakes
  <2>7. ASSUME NEW p \in Delete(S, again, options.mode, options.overwrite)
        PROVE  FALSE
    <3>1. /\ p \in Listed(again) /\ p \notin Listed(S) /\ options.mode = "mirror"
          /\ ~KeepsNamespace(S, again, options.overwrite, p)
      BY <2>7 DEF Delete
    <3>2. p \in options.scope /\ p \in Paths /\ disk[Target][p] # NoFile  BY <2>1, <2>2, <3>1
    <3>3. disk[Source][p] = NoFile  BY <3>1, <3>2, WinnerTakes DEF AsScanned, S
    <3>4. WinnerOf(p) = "target"  BY <3>2, <3>3, WinnerTakes DEF Alike
    <3>5. NamespaceOf[p] # Plain  BY <2>1, <3>1, <3>2, <3>4, PlainWinner
    <3> DEFINE n == NamespaceOf[p]
    <3>6. Has(S, n) /\ Preserved(S, T, options.overwrite, n)
      BY <2>1, <3>1, <3>2, <3>4, <3>5, DatabaseWinner
    <3>7. PICK q \in Listed(T) : /\ NamespaceOf[q] = n
                                 /\ \A r \in Listed(S) : NamespaceOf[r] = n => T[q].mtime > S[r].mtime
      BY <3>6 DEF Preserved
    <3>8. q \in options.scope /\ WinnerOf(q) = WinnerOf(p)
      BY <2>3, <3>5, <3>7 DEF WinnerOf
    <3>9. AsScanned(Target, q)  BY <3>4, <3>8, WinnerTakes
    <3>10. q \in Listed(again) /\ again[q].mtime = T[q].mtime  BY <2>4, <3>7, <3>9
    <3>11. Preserved(S, again, options.overwrite, n)
      BY <3>6, <3>7, <3>10 DEF Preserved
    <3> QED  BY <3>1, <3>5, <3>11 DEF KeepsNamespace
  <2> QED  BY <2>6, <2>7 DEF again
<1> QED  BY <1>1, Invariance, PTL

(* PreferNewer never replaces a file by bytes of an earlier edit, unless a *)
(* write of that path never got its time stamp, or a round of that path    *)
(* began while a write of an earlier one was still to come.                *)
THEOREM NeverReverts == Spec => NoRegression
<1>1. IInv /\ [Next]_vars => [\A p \in Paths \ (unstamped \cup overlapped) : NotReverted(p)]_vars
  <2> SUFFICES ASSUME IInv, Next, NEW p \in Paths, p \notin unstamped, p \notin overlapped
               PROVE  NotReverted(p)
    OBVIOUS
  <2> SUFFICES ASSUME options.overwrite = "prefer_newer", at = "applying",
                      NamespaceOf[p] = Plain,
                      disk[Target][p] # NoFile, disk'[Target][p] # NoFile,
                      <<Target, p>> \notin touched'
               PROVE  disk'[Target][p].edit >= disk[Target][p].edit
    BY DEF NotReverted
  <2>1. TypeOK /\ disk \in Disks /\ disk[Target][p].edit \in Nat  BY Types, TwoSides DEF IInv
  <2>2. CASE disk'[Target][p] = disk[Target][p]  BY <2>1, <2>2
  <2>3. ASSUME NEW s \in Sides, NEW q \in Paths, Discard(s, q) \/ \E z \in Sizes : Edit(s, q, z)
        PROVE  disk'[Target][p] = disk[Target][p]
    <3>1. PICK v : UserChange(s, q, v)  BY <2>1, <2>3, UserChanges
    <3>2. ~(s = Target /\ q = p)  BY <3>1 DEF UserChange
    <3> QED  BY <3>1, <3>2, TwoSides DEF UserChange
  <2>4. ASSUME inflight[p] # NoFile, <<Target, p>> \notin touched
        PROVE  inflight[p].edit \in Nat /\ disk[Target][p].edit <= inflight[p].edit
    <3>1. inflight[p].edit \in Nat  BY <2>1, <2>4, Types
    <3> QED  BY <2>4, <3>1 DEF IInv, InFlight, NotLater
  <2>5. ASSUME NEW q \in Paths, WriteFile(q)
        PROVE  disk'[Target][p].edit >= disk[Target][p].edit
    <3>1. Overwrite(Target, q, inflight[q]) /\ inflight[q] # NoFile /\ touched' = touched
      BY <2>5 DEF WriteFile, Received, Overwrite
    <3>2. inflight[q] \in File \cup {NoFile}  BY <2>1 DEF TypeOK
    <3>3. /\ disk'[Target][q] = inflight[q]
          /\ p # q => disk'[Target][p] = disk[Target][p]
      BY <2>1, <3>1, <3>2, Overwritten, TwoSides
    <3> QED  BY <2>2, <2>4, <2>1, <3>1, <3>3
  <2>6. ASSUME NEW q \in Paths, WriteUnstamped(q)
        PROVE  disk'[Target][p].edit >= disk[Target][p].edit
    <3> DEFINE v == [size |-> inflight[q].size, mtime |-> clock + 1,
                     edit |-> inflight[q].edit, torn |-> inflight[q].torn]
    <3>1. Overwrite(Target, q, v) /\ inflight[q] # NoFile /\ touched' = touched /\ clock < MaxClock
      BY <2>6 DEF WriteUnstamped, GiveUp, Clear, Overwrite
    <3>2. inflight[q] \in File /\ clock \in Nat /\ MaxClock \in Nat
      BY <2>1, <3>1, Types, RoundAssumption DEF TypeOK
    <3>3. clock + 1 \in Times  BY <3>1, <3>2 DEF Times
    <3>4. v \in File \cup {NoFile} /\ v.edit = inflight[q].edit  BY <3>2, <3>3 DEF File
    <3> HIDE DEF v
    <3>5. /\ disk'[Target][q] = v
          /\ p # q => disk'[Target][p] = disk[Target][p]
      BY <2>1, <3>1, <3>4, Overwritten, TwoSides
    <3> QED  BY <2>2, <2>4, <2>1, <3>1, <3>4, <3>5
  <2>7. ASSUME NEW q \in Paths, DeleteFile(q)
        PROVE  disk'[Target][p] = disk[Target][p]
    <3>1. CASE NamespaceOf[q] = Plain
      <4>1. Overwrite(Target, q, NoFile)  BY <2>7, <3>1 DEF DeleteFile, Overwrite
      <4>2. NoFile \in File \cup {NoFile}  OBVIOUS
      <4>3. /\ disk'[Target][q] = NoFile
            /\ p # q => disk'[Target][p] = disk[Target][p]
        BY <2>1, <4>1, <4>2, Overwritten, TwoSides
      <4> QED  BY <4>3
    <3>2. CASE NamespaceOf[q] # Plain  BY <2>7, <3>2 DEF DeleteFile
    <3> QED  BY <3>1, <3>2
  <2>8. ASSUME NEW n \in Namespaces, PublishNamespace(n)
        PROVE  disk'[Target][p] = disk[Target][p]
    <3>1. NamespaceOf[p] # n  BY PlannerAssumption
    <3>2. disk' = [disk EXCEPT ![Target] =
            [q \in Paths |-> IF NamespaceOf[q] = n THEN staged[q] ELSE disk[Target][q]]]
      BY <2>8 DEF PublishNamespace
    <3>3. disk'[Target] = [q \in Paths |-> IF NamespaceOf[q] = n THEN staged[q] ELSE disk[Target][q]]
      BY <2>1, <3>2, TwoSides DEF Disks
    <3> QED  BY <3>1, <3>3
  <2>9. CASE \/ \E o \in Options : ScanClient(o)
             \/ ScanServer \/ Complete \/ Interrupt
             \/ \E q \in Paths : Read(q) \/ StageFile(q)
    <3>1. disk' = disk  BY <2>9 DEF ScanClient, ScanServer, Complete, Interrupt, Read, StageFile
    <3> QED  BY <2>2, <3>1
  <2>10. ASSUME NEW c \in late, LateChange(c) \/ LateUnstamped(c)
         PROVE  disk'[Target][p] = disk[Target][p]
    <3>1. PICK v : LateEffect(c, v)  BY <2>1, <2>10, LateEffects
    <3>2. ~(c.side = Target /\ c.path = p)  BY <3>1 DEF LateEffect
    <3> QED  BY <3>1, <3>2, TwoSides DEF LateEffect
  <2> QED  BY <2>2, <2>3, <2>5, <2>6, <2>7, <2>8, <2>9, <2>10 DEF Next
<1> QED  BY <1>1, Invariance, PTL DEF Spec, NoRegression
=============================================================================
