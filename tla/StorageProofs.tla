--------------------------- MODULE StorageProofs ---------------------------
(***************************************************************************)
(* Proofs about what the file system is left with: the properties of       *)
(* DatabaseTransfer for any number of namespaces, files and uploads, and   *)
(* those of FileWriter for any number of calls, files and lengths.         *)
(***************************************************************************)
EXTENDS DatabaseTransfer, FileWriter, TLAPS

-----------------------------------------------------------------------------
(* The database transfer.  None of its properties is inductive: what a     *)
(* rename moves into place depends on what uploads left in the staging     *)
(* directory, and what the restore puts back on what the first rename      *)
(* moved out.                                                              *)

(* An upload belongs to the plan and its temporary file has a directory.   *)
WritersSane ==
  \A w \in Writers : writer[w] # NoWork =>
    /\ writer[w].ns \in Planned
    /\ writer[w].file \in groups[writer[w].ns]
    /\ writer[w].at = "writing" => staging[writer[w].ns] # NoDir

(* Only the plan's files are staged. *)
StagedSane ==
  \A n \in Namespaces : staging[n] # NoDir =>
    /\ n \in Planned
    /\ \A f \in Files : staging[n][f] # "old" /\ (f \notin groups[n] => staging[n][f] = "none")

(* Where the commit is. *)
CommitSane ==
  /\ pending \subseteq Planned /\ applied \subseteq Planned
  /\ applied \cap pending = {}
  /\ phase = "open" => applied = {}
  /\ phase \in {"open", "committing"} => ~rollback_failed
  /\ phase \in {"open", "closed", "dropped"} => moved = NoNamespace
  /\ moved # NoNamespace => moved \in pending /\ Complete(moved)

(* Where the data of every namespace is. *)
Places ==
  \A n \in Namespaces :
    /\ n \in applied => live[n] = Outcome(n)
    /\ moved = n => live[n] = NoDir /\ previous[n] = initial[n]
    /\ n \notin applied /\ moved # n =>
         \/ live[n] = initial[n]
         \/ rollback_failed /\ live[n] = NoDir /\ previous[n] = initial[n]

IInv == TypeOK /\ WritersSane /\ StagedSane /\ CommitSane /\ Places

(* OpenUpload keeps the invariant. *)
LEMMA OpenUploadInv == ASSUME IInv, NEW w \in Writers, NEW n \in Namespaces, NEW f \in Files, OpenUpload(w, n, f) PROVE IInv'
<1>1. TypeOK'
  BY DEF IInv, OpenUpload, TypeOK, Planned, Work
<1>2. WritersSane'
  BY DEF IInv, OpenUpload, WritersSane, TypeOK, Planned, Work
<1>3. StagedSane'
  BY DEF IInv, OpenUpload, StagedSane, TypeOK, Planned
<1>4. CommitSane'
  BY DEF IInv, OpenUpload, CommitSane, TypeOK, Planned
<1>5. Places'
  BY DEF IInv, OpenUpload, Places, TypeOK, Outcome, Replacement
<1> QED  BY <1>1, <1>2, <1>3, <1>4, <1>5 DEF IInv

(* BeginWrite keeps the invariant. *)
LEMMA BeginWriteInv == ASSUME IInv, NEW w \in Writers, BeginWrite(w) PROVE IInv'
<1>1. TypeOK'
  BY DEF IInv, BeginWrite, TypeOK, Planned, Work, Dirs, EmptyDir
<1>2. WritersSane'
  BY TransferAssumption DEF IInv, BeginWrite, WritersSane, TypeOK, Planned, Work, Dirs, EmptyDir
<1>3. StagedSane'
  BY DEF IInv, BeginWrite, StagedSane, WritersSane, TypeOK, Planned, Work, EmptyDir
<1>4. CommitSane'
  BY DEF IInv, BeginWrite, CommitSane, TypeOK, Planned, Complete, Work
<1>5. Places'
  BY DEF IInv, BeginWrite, Places, TypeOK, Outcome, Replacement
<1> QED  BY <1>1, <1>2, <1>3, <1>4, <1>5 DEF IInv

(* EndWrite keeps the invariant. *)
LEMMA EndWriteInv == ASSUME IInv, NEW w \in Writers, EndWrite(w) PROVE IInv'
<1>1. TypeOK'
  BY DEF IInv, EndWrite, TypeOK, WritersSane, Planned, Work, Dirs
<1>2. WritersSane'
  BY TransferAssumption DEF IInv, EndWrite, WritersSane, TypeOK, Planned, Work, Dirs
<1>3. StagedSane'
  BY DEF IInv, EndWrite, StagedSane, WritersSane, TypeOK, Planned, Work
<1>4. CommitSane'
  BY TransferAssumption DEF IInv, EndWrite, CommitSane, TypeOK, Planned, Complete, Work, Dirs
<1>5. Places'
  BY DEF IInv, EndWrite, Places, TypeOK, Outcome, Replacement
<1> QED  BY <1>1, <1>2, <1>3, <1>4, <1>5 DEF IInv

(* FailWrite keeps the invariant. *)
LEMMA FailWriteInv == ASSUME IInv, NEW w \in Writers, FailWrite(w) PROVE IInv'
<1>1. TypeOK'
  BY DEF IInv, FailWrite, TypeOK, Planned, Work
<1>2. WritersSane'
  BY DEF IInv, FailWrite, WritersSane, TypeOK, Planned, Work
<1>3. StagedSane'
  BY DEF IInv, FailWrite, StagedSane, TypeOK, Planned
<1>4. CommitSane'
  BY DEF IInv, FailWrite, CommitSane, TypeOK, Planned, Complete
<1>5. Places'
  BY DEF IInv, FailWrite, Places, TypeOK, Outcome, Replacement
<1> QED  BY <1>1, <1>2, <1>3, <1>4, <1>5 DEF IInv

(* StartCommit keeps the invariant. *)
LEMMA StartCommitInv == ASSUME IInv, StartCommit PROVE IInv'
<1>1. TypeOK'
  BY DEF IInv, StartCommit, TypeOK, Planned, Work
<1>2. WritersSane'
  BY DEF IInv, StartCommit, WritersSane, TypeOK, Planned, Work
<1>3. StagedSane'
  BY DEF IInv, StartCommit, StagedSane, TypeOK, Planned
<1>4. CommitSane'
  BY DEF IInv, StartCommit, CommitSane, TypeOK, Planned
<1>5. Places'
  BY DEF IInv, StartCommit, Places, TypeOK, Outcome, Replacement
<1> QED  BY <1>1, <1>2, <1>3, <1>4, <1>5 DEF IInv

(* Abandon keeps the invariant. *)
LEMMA AbandonInv == ASSUME IInv, Abandon PROVE IInv'
<1>1. TypeOK'
  BY DEF IInv, Abandon, TypeOK, Planned, Work
<1>2. WritersSane'
  BY DEF IInv, Abandon, WritersSane, TypeOK, Planned, Work
<1>3. StagedSane'
  BY DEF IInv, Abandon, StagedSane, TypeOK, Planned
<1>4. CommitSane'
  BY DEF IInv, Abandon, CommitSane, TypeOK, Planned
<1>5. Places'
  BY DEF IInv, Abandon, Places, TypeOK, Outcome, Replacement
<1> QED  BY <1>1, <1>2, <1>3, <1>4, <1>5 DEF IInv

(* Stop keeps the invariant. *)
LEMMA StopInv == ASSUME IInv, Stop PROVE IInv'
<1>1. TypeOK'
  BY DEF IInv, Stop, TypeOK, Planned, Work
<1>2. WritersSane'
  BY DEF IInv, Stop, WritersSane, TypeOK, Planned, Work
<1>3. StagedSane'
  BY DEF IInv, Stop, StagedSane, TypeOK, Planned
<1>4. CommitSane'
  BY DEF IInv, Stop, CommitSane, TypeOK, Planned
<1>5. Places'
  BY DEF IInv, Stop, Places, TypeOK, Outcome, Replacement
<1> QED  BY <1>1, <1>2, <1>3, <1>4, <1>5 DEF IInv

(* FinishCommit keeps the invariant. *)
LEMMA FinishCommitInv == ASSUME IInv, FinishCommit PROVE IInv'
<1>1. TypeOK'
  BY DEF IInv, FinishCommit, TypeOK, Planned, Work
<1>2. WritersSane'
  BY DEF IInv, FinishCommit, WritersSane, TypeOK, Planned, Work
<1>3. StagedSane'
  BY DEF IInv, FinishCommit, StagedSane, TypeOK, Planned
<1>4. CommitSane'
  BY DEF IInv, FinishCommit, CommitSane, TypeOK, Planned
<1>5. Places'
  BY DEF IInv, FinishCommit, Places, TypeOK, Outcome, Replacement
<1> QED  BY <1>1, <1>2, <1>3, <1>4, <1>5 DEF IInv

(* MoveOut keeps the invariant. *)
LEMMA MoveOutInv == ASSUME IInv, NEW n \in Namespaces, MoveOut(n) PROVE IInv'
<1>1. TypeOK'
  BY DEF IInv, MoveOut, TypeOK, Planned, Work
<1>2. WritersSane'
  BY DEF IInv, MoveOut, WritersSane, TypeOK, Planned, Work
<1>3. StagedSane'
  BY DEF IInv, MoveOut, StagedSane, TypeOK, Planned
<1>4. CommitSane'
  BY DEF IInv, MoveOut, CommitSane, TypeOK, Planned, Complete
<1>5. Places'
  BY TransferAssumption DEF IInv, MoveOut, Places, CommitSane, TypeOK, Outcome, Replacement
<1> QED  BY <1>1, <1>2, <1>3, <1>4, <1>5 DEF IInv

(* MoveIn keeps the invariant. *)
LEMMA MoveInInv == ASSUME IInv, NEW n \in Namespaces, MoveIn(n) PROVE IInv'
<1>1. TypeOK'
  BY DEF IInv, MoveIn, Apply, TypeOK, Planned, Work
<1>2. WritersSane'
  BY DEF IInv, MoveIn, Apply, WritersSane, TypeOK, Planned, Work
<1>3. StagedSane'
  BY DEF IInv, MoveIn, Apply, StagedSane, TypeOK, Planned
<1>4. CommitSane'
  BY TransferAssumption DEF IInv, MoveIn, Apply, CommitSane, TypeOK, Planned
<1>5. Places'
  BY TransferAssumption DEF IInv, MoveIn, Apply, Places, CommitSane, TypeOK, Outcome, Replacement, Complete, StagedSane, Dirs
<1> QED  BY <1>1, <1>2, <1>3, <1>4, <1>5 DEF IInv

(* Remove keeps the invariant. *)
LEMMA RemoveInv == ASSUME IInv, NEW n \in Namespaces, Remove(n) PROVE IInv'
<1>1. TypeOK'
  BY DEF IInv, Remove, Apply, TypeOK, Planned, Work
<1>2. WritersSane'
  BY DEF IInv, Remove, Apply, WritersSane, TypeOK, Planned, Work
<1>3. StagedSane'
  BY DEF IInv, Remove, Apply, StagedSane, TypeOK, Planned
<1>4. CommitSane'
  BY TransferAssumption DEF IInv, Remove, Apply, CommitSane, TypeOK, Planned
<1>5. Places'
  BY TransferAssumption DEF IInv, Remove, Apply, Places, TypeOK, Outcome, Replacement
<1> QED  BY <1>1, <1>2, <1>3, <1>4, <1>5 DEF IInv

(* RollBack keeps the invariant. *)
LEMMA RollBackInv == ASSUME IInv, NEW n \in Namespaces, RollBack(n) PROVE IInv'
<1>1. TypeOK'
  BY DEF IInv, RollBack, TypeOK, Planned, Work
<1>2. WritersSane'
  BY DEF IInv, RollBack, WritersSane, TypeOK, Planned, Work
<1>3. StagedSane'
  BY DEF IInv, RollBack, StagedSane, TypeOK, Planned
<1>4. CommitSane'
  BY DEF IInv, RollBack, CommitSane, TypeOK, Planned
<1>5. Places'
  BY TransferAssumption DEF IInv, RollBack, Places, TypeOK, Outcome, Replacement, Dirs
<1> QED  BY <1>1, <1>2, <1>3, <1>4, <1>5 DEF IInv

(* RollBackFails keeps the invariant. *)
LEMMA RollBackFailsInv == ASSUME IInv, NEW n \in Namespaces, RollBackFails(n) PROVE IInv'
<1>1. TypeOK'
  BY DEF IInv, RollBackFails, TypeOK, Planned, Work
<1>2. WritersSane'
  BY DEF IInv, RollBackFails, WritersSane, TypeOK, Planned, Work
<1>3. StagedSane'
  BY DEF IInv, RollBackFails, StagedSane, TypeOK, Planned
<1>4. CommitSane'
  BY DEF IInv, RollBackFails, CommitSane, TypeOK, Planned
<1>5. Places'
  BY TransferAssumption DEF IInv, RollBackFails, Places, TypeOK, Outcome, Replacement
<1> QED  BY <1>1, <1>2, <1>3, <1>4, <1>5 DEF IInv

(* RemoveStaging keeps the invariant. *)
LEMMA RemoveStagingInv == ASSUME IInv, RemoveStaging PROVE IInv'
<1>1. TypeOK'
  BY DEF IInv, RemoveStaging, LastReference, TypeOK, Planned, Work
<1>2. WritersSane'
  BY DEF IInv, RemoveStaging, LastReference, WritersSane, TypeOK, Work
<1>3. StagedSane'
  BY DEF IInv, RemoveStaging, StagedSane, TypeOK
<1>4. CommitSane'
  BY DEF IInv, RemoveStaging, LastReference, CommitSane, TypeOK, Planned
<1>5. Places'
  BY TransferAssumption DEF IInv, RemoveStaging, LastReference, Places, CommitSane, TypeOK, Outcome, Replacement
<1> QED  BY <1>1, <1>2, <1>3, <1>4, <1>5 DEF IInv

(* KeepStaging keeps the invariant. *)
LEMMA KeepStagingInv == ASSUME IInv, KeepStaging PROVE IInv'
<1>1. TypeOK'
  BY DEF IInv, KeepStaging, LastReference, TypeOK, Planned, Work
<1>2. WritersSane'
  BY DEF IInv, KeepStaging, LastReference, WritersSane, TypeOK, Work
<1>3. StagedSane'
  BY DEF IInv, KeepStaging, LastReference, StagedSane, TypeOK, Planned
<1>4. CommitSane'
  BY DEF IInv, KeepStaging, LastReference, CommitSane, TypeOK, Planned
<1>5. Places'
  BY DEF IInv, KeepStaging, LastReference, Places, TypeOK, Outcome, Replacement
<1> QED  BY <1>1, <1>2, <1>3, <1>4, <1>5 DEF IInv

(* Die keeps the invariant. *)
LEMMA DieInv == ASSUME IInv, Die PROVE IInv'
<1>1. TypeOK'
  BY DEF IInv, Die, TypeOK, Planned, Work
<1>2. WritersSane'
  BY DEF IInv, Die, WritersSane, TypeOK, Work
<1>3. StagedSane'
  BY DEF IInv, Die, StagedSane, TypeOK, Planned
<1>4. CommitSane'
  BY DEF IInv, Die, CommitSane, TypeOK, Planned, Complete
<1>5. Places'
  BY DEF IInv, Die, Places, TypeOK, Outcome, Replacement
<1> QED  BY <1>1, <1>2, <1>3, <1>4, <1>5 DEF IInv

(* A fresh transfer satisfies the invariant. *)
LEMMA InitInv == Init => IInv
<1> SUFFICES ASSUME Init PROVE IInv  OBVIOUS
<1>1. Planned \subseteq Namespaces /\ groups \in [Planned -> SUBSET Files]
  BY DEF Init, Planned
<1>2. TypeOK
  BY <1>1, TransferAssumption DEF Init, TypeOK, Dirs, OldDirs
<1>3. WritersSane /\ StagedSane
  BY DEF Init, WritersSane, StagedSane
<1>4. CommitSane
  BY DEF Init, CommitSane
<1>5. Places
  BY TransferAssumption DEF Init, Places
<1> QED  BY <1>2, <1>3, <1>4, <1>5 DEF IInv

(* A step that changes nothing keeps it as well. *)
LEMMA StutterInv == ASSUME IInv, UNCHANGED vars PROVE IInv'
  BY DEF IInv, vars, TypeOK, WritersSane, StagedSane, CommitSane, Places, Planned,
         Complete, Outcome, Replacement

(* The invariant is an invariant. *)
THEOREM Invariance == Spec => []IInv
<1>1. IInv /\ [Next]_vars => IInv'
  <2> SUFFICES ASSUME IInv, [Next]_vars PROVE IInv'  OBVIOUS
  <2>1. ASSUME NEW w \in Writers, NEW n \in Namespaces, NEW f \in Files, OpenUpload(w, n, f) PROVE IInv'
    BY <2>1, OpenUploadInv
  <2>2. ASSUME NEW w \in Writers, BeginWrite(w) PROVE IInv'
    BY <2>2, BeginWriteInv
  <2>3. ASSUME NEW w \in Writers, EndWrite(w) PROVE IInv'
    BY <2>3, EndWriteInv
  <2>4. ASSUME NEW w \in Writers, FailWrite(w) PROVE IInv'
    BY <2>4, FailWriteInv
  <2>5. CASE StartCommit
    BY <2>5, StartCommitInv
  <2>6. CASE Abandon
    BY <2>6, AbandonInv
  <2>7. CASE Stop
    BY <2>7, StopInv
  <2>8. CASE FinishCommit
    BY <2>8, FinishCommitInv
  <2>9. ASSUME NEW n \in Namespaces, MoveOut(n) PROVE IInv'
    BY <2>9, MoveOutInv
  <2>10. ASSUME NEW n \in Namespaces, MoveIn(n) PROVE IInv'
    BY <2>10, MoveInInv
  <2>11. ASSUME NEW n \in Namespaces, Remove(n) PROVE IInv'
    BY <2>11, RemoveInv
  <2>12. ASSUME NEW n \in Namespaces, RollBack(n) PROVE IInv'
    BY <2>12, RollBackInv
  <2>13. ASSUME NEW n \in Namespaces, RollBackFails(n) PROVE IInv'
    BY <2>13, RollBackFailsInv
  <2>14. CASE RemoveStaging
    BY <2>14, RemoveStagingInv
  <2>15. CASE KeepStaging
    BY <2>15, KeepStagingInv
  <2>16. CASE Die
    BY <2>16, DieInv
  <2>17. CASE UNCHANGED vars
    BY <2>17, StutterInv
  <2> QED
    BY <2>1, <2>2, <2>3, <2>4, <2>5, <2>6, <2>7, <2>8, <2>9, <2>10, <2>11, <2>12, <2>13, <2>14, <2>15, <2>16, <2>17 DEF Next
<1> QED  BY <1>1, InitInv, PTL DEF Spec

(* Type correctness. *)
THEOREM TypeCorrect == Spec => []TypeOK
<1>1. IInv => TypeOK  BY DEF IInv
<1> QED  BY <1>1, Invariance, PTL

(* Whatever fails, a namespace is retained or replaced as a whole. *)
THEOREM NamespacesWhole == Spec => []NamespaceWhole
<1>1. IInv => NamespaceWhole
  BY DEF IInv, TypeOK, CommitSane, Places, NamespaceWhole, Outcome
<1> QED  BY <1>1, Invariance, PTL

(* The target's data is on disk until its replacement is in place. *)
THEOREM Kept == Spec => []NothingLost
<1>1. IInv => NothingLost  BY DEF IInv, Places, NothingLost
<1> QED  BY <1>1, Invariance, PTL

(* What changed() and is_applied() report after a commit is true. *)
THEOREM Reported == Spec => []ReportIsTrue
<1>1. IInv => ReportIsTrue
  <2> SUFFICES ASSUME IInv, phase \in {"closed", "dropped"}
               PROVE  /\ \A n \in applied : live[n] = Outcome(n)
                      /\ \A n \in Namespaces \ applied : live[n] = initial[n] \/ rollback_failed
                      /\ ~Changed => live = initial
    BY DEF ReportIsTrue
  <2>1. moved = NoNamespace  BY DEF IInv, CommitSane
  <2>2. \A n \in applied : live[n] = Outcome(n)
    BY DEF IInv, TypeOK, Places
  <2>3. \A n \in Namespaces \ applied : live[n] = initial[n] \/ rollback_failed
    BY <2>1, TransferAssumption DEF IInv, Places
  <2>4. ~Changed => \A n \in Namespaces : live[n] = initial[n]
    BY <2>3 DEF Changed
  <2>5. ~Changed => live = initial
    BY <2>4 DEF IInv, TypeOK
  <2> QED  BY <2>2, <2>3, <2>5
<1> QED  BY <1>1, Invariance, PTL

-----------------------------------------------------------------------------
(* The file writer.  DestinationWhole and StampFitsBytes are not           *)
(* inductive: what is at the destination was first at the temporary path,  *)
(* so the proof follows the temporary file from its creation to the rename *)
(* (Progress), knows that it is never the destination and carries no       *)
(* planned time (TmpFresh), and that calls which do not overlap are alone  *)
(* (Alone).                                                                *)

Prefix(w, n) == [k \in 1 .. n |-> w]

Alone == \A v, w \in Calls : Busy(v) /\ Busy(w) => v = w

TmpFresh == tmp # None => tmp # dst /\ mtime[tmp] = None

(* How far a call is, and what that says of its file. *)
Progress(w) ==
  /\ call[w].at = "writing" =>
       /\ tmp # None /\ call[w].file = tmp
       /\ call[w].wrote <= LengthOf[w]
       /\ inode[tmp] = Prefix(w, call[w].wrote)
  /\ call[w].at = "removing" => tmp # None /\ inode[tmp] = Whole(w)
  /\ call[w].at = "renamed" => dst # None /\ inode[dst] = Whole(w)

Unshared ==
  /\ Alone
  /\ TmpFresh
  /\ \A w \in Calls : Progress(w)
  /\ dst # None => \E payload \in Payloads : inode[dst] = Whole(payload)
  /\ dst # None /\ mtime[dst] # None => inode[dst] = Whole(mtime[dst])

(* A call that writes has a file. *)
HasFile == \A w \in Calls : call[w].at = "writing" => call[w].file \in Inodes

WriterInv == WriterTypeOK /\ HasFile /\ (~shared => Unshared)

-----------------------------------------------------------------------------
(* Contents and their sizes.                                               *)

(* An interval from 1 determines its upper end. *)
LEMMA IntervalEnd == ASSUME NEW m \in Nat, NEW n \in Nat, 1 .. m = 1 .. n PROVE m = n
<1>1. CASE m < n
  <2>1. n \in 1 .. n /\ n \notin 1 .. m  BY <1>1
  <2> QED  BY <2>1
<1>2. CASE n < m
  <2>1. m \in 1 .. m /\ m \notin 1 .. n  BY <1>2
  <2> QED  BY <2>1
<1> QED  BY <1>1, <1>2

(* Size counts the chunks of a file. *)
LEMMA SizeOf == ASSUME NEW c \in Contents PROVE Size(c) \in 0 .. MaxLength /\ DOMAIN c = 1 .. Size(c)
<1>1. PICK n \in 0 .. MaxLength : c \in [1 .. n -> Payloads \cup {Hole}]  BY DEF Contents
<1>2. DOMAIN c = 1 .. n  BY <1>1
<1>3. CASE c = Empty
  <2>1. Size(c) = 0  BY <1>3 DEF Size
  <2>2. DOMAIN c = 1 .. 0  BY <1>3 DEF Empty
  <2> QED  BY <2>1, <2>2, WriterAssumption
<1>4. CASE c # Empty
  <2>1. n # 0
    <3> SUFFICES ASSUME n = 0 PROVE FALSE  OBVIOUS
    <3>1. c = [k \in 1 .. 0 |-> c[k]]  BY <1>1
    <3>2. \A k \in 1 .. 0 : c[k] = Hole  OBVIOUS
    <3> QED  BY <3>1, <3>2, <1>4 DEF Empty
  <2>2. n \in 1 .. MaxLength  BY <2>1, WriterAssumption
  <2>3. Size(c) = CHOOSE m \in 1 .. MaxLength : DOMAIN c = 1 .. m  BY <1>4 DEF Size
  <2>4. Size(c) \in 1 .. MaxLength /\ DOMAIN c = 1 .. Size(c)  BY <1>2, <2>2, <2>3
  <2> QED  BY <2>4, WriterAssumption
<1> QED  BY <1>3, <1>4

(* The beginning of a payload is as long as it should be. *)
LEMMA PrefixSize ==
  ASSUME NEW w \in Calls, NEW n \in 0 .. LengthOf[w]
  PROVE  Prefix(w, n) \in Contents /\ Size(Prefix(w, n)) = n
<1>1. LengthOf[w] \in 0 .. MaxLength  BY WriterAssumption
<1>2. n \in 0 .. MaxLength /\ n \in Nat  BY <1>1, WriterAssumption
<1>3. Prefix(w, n) \in [1 .. n -> Payloads \cup {Hole}]  BY DEF Prefix, Payloads
<1>4. Prefix(w, n) \in Contents  BY <1>2, <1>3 DEF Contents
<1>5. Size(Prefix(w, n)) \in Nat /\ 1 .. n = 1 .. Size(Prefix(w, n))
  BY <1>4, SizeOf, WriterAssumption DEF Prefix
<1> QED  BY <1>2, <1>4, <1>5, IntervalEnd

(* A whole payload, and an empty file, are contents. *)
LEMMA WholeContents ==
  /\ \A payload \in Payloads : Whole(payload) \in Contents
  /\ Empty \in Contents
<1>1. ASSUME NEW payload \in Payloads PROVE Whole(payload) \in Contents
  <2>1. LengthOf[payload] \in 0 .. MaxLength  BY WriterAssumption DEF Payloads
  <2>2. Whole(payload) \in [1 .. LengthOf[payload] -> Payloads \cup {Hole}]  BY DEF Whole
  <2> QED  BY <2>1, <2>2 DEF Contents
<1>2. Empty \in Contents
  <2>1. Empty \in [1 .. 0 -> Payloads \cup {Hole}]  BY DEF Empty
  <2>2. 0 \in 0 .. MaxLength  BY WriterAssumption
  <2> QED  BY <2>1, <2>2 DEF Contents
<1> QED  BY <1>1, <1>2

-----------------------------------------------------------------------------
(* The invariant.                                                          *)

(* It holds before the first call. *)
LEMMA WriterInitInv == WriterInit => WriterInv
<1> SUFFICES ASSUME WriterInit PROVE WriterInv  OBVIOUS
<1> USE WriterAssumption
<1>1. inode \in [Inodes -> Contents]  BY WholeContents DEF WriterInit, Payloads
<1>2. WriterTypeOK
  <2>1. mtime \in [Inodes -> Payloads \cup {None}]  BY DEF WriterInit, Payloads
  <2>2. call \in [Calls -> [at : Steps, file : Inodes \cup {None}, wrote : 0 .. MaxLength]]
    BY DEF WriterInit, Steps
  <2>3. dst \in Inodes \cup {None} /\ tmp \in Inodes \cup {None} /\ shared \in BOOLEAN
    BY DEF WriterInit
  <2> QED  BY <1>1, <2>1, <2>2, <2>3 DEF WriterTypeOK
<1>3. HasFile  BY DEF WriterInit, HasFile
<1>4. Unshared
  BY DEF WriterInit, Unshared, Alone, Busy, TmpFresh, Progress, Payloads
<1> QED  BY <1>2, <1>3, <1>4 DEF WriterInv

(* A new call truncates the temporary file, which nobody uses if it is     *)
(* alone.                                                                  *)
LEMMA OpenInv == ASSUME WriterInv, NEW w \in Calls, Open(w) PROVE WriterInv'
<1> USE WriterAssumption
<1>1. PICK i \in IF tmp # None THEN {tmp} ELSE Inodes \ InUse :
        /\ tmp' = i
        /\ inode' = [inode EXCEPT ![i] = Empty]
        /\ mtime' = [mtime EXCEPT ![i] = None]
        /\ call' = [call EXCEPT ![w] = [at |-> "writing", file |-> i, wrote |-> 0]]
  BY DEF Open
<1>2. i \in Inodes  BY <1>1 DEF WriterInv, WriterTypeOK
<1>3. WriterTypeOK'  BY <1>1, <1>2, WholeContents DEF Open, WriterInv, WriterTypeOK, Steps
<1>4. HasFile'  BY <1>1, <1>2 DEF WriterInv, WriterTypeOK, HasFile
<1>5. ASSUME ~shared' PROVE Unshared'
  <2>1. Unshared /\ \A v \in Calls : ~Busy(v)  BY <1>5 DEF Open, WriterInv
  <2>2. i # dst /\ dst' = dst  BY <1>1, <2>1 DEF Open, InUse, Unshared, TmpFresh
  <2>3. \A v \in Calls : v # w => call'[v] = call[v]  BY <1>1 DEF WriterInv, WriterTypeOK
  <2>4. call'[w] = [at |-> "writing", file |-> i, wrote |-> 0]  BY <1>1 DEF WriterInv, WriterTypeOK
  <2>5. Alone'  BY <2>1, <2>3 DEF Alone, Busy
  <2>6. TmpFresh'  BY <1>1, <1>2, <2>2 DEF TmpFresh, WriterInv, WriterTypeOK
  <2>7. \A v \in Calls : Progress(v)'
    <3>1. inode'[i] = Prefix(w, 0)  BY <1>1, <1>2 DEF WriterInv, WriterTypeOK, Prefix, Empty
    <3>2. 0 <= LengthOf[w]  OBVIOUS
    <3>3. Progress(w)'  BY <1>1, <1>2, <2>4, <3>1, <3>2 DEF Progress
    <3>4. ASSUME NEW v \in Calls, v # w PROVE Progress(v)'
      BY <2>1, <2>3, <3>4 DEF Progress, Busy
    <3> QED  BY <3>3, <3>4
  <2>8. dst # None => inode'[dst] = inode[dst] /\ mtime'[dst] = mtime[dst]
    BY <1>1, <2>2 DEF WriterInv, WriterTypeOK
  <2> QED  BY <2>1, <2>2, <2>5, <2>6, <2>7, <2>8 DEF Unshared
<1> QED  BY <1>3, <1>4, <1>5 DEF WriterInv

(* The next chunk goes to the end of the file of a call that is alone. *)
LEMMA WriteChunkInv == ASSUME WriterInv, NEW w \in Calls, WriteChunk(w) PROVE WriterInv'
<1> USE WriterAssumption
<1> DEFINE i == call[w].file
           k == call[w].wrote + 1
           size == Size(inode[i])
           bytes == [j \in 1 .. (IF size < k THEN k ELSE size) |->
                       IF j = k THEN w ELSE IF j <= size THEN inode[i][j] ELSE Hole]
<1>1. i \in Inodes /\ inode[i] \in Contents  BY DEF WriteChunk, WriterInv, HasFile, WriterTypeOK
<1>2. call[w].wrote \in Nat /\ k \in 1 .. LengthOf[w] /\ LengthOf[w] \in 0 .. MaxLength
  <2>1. LengthOf[w] \in 0 .. MaxLength  OBVIOUS
  <2>2. call[w].wrote \in 0 .. MaxLength  BY DEF WriterInv, WriterTypeOK
  <2>3. call[w].wrote < LengthOf[w]  BY DEF WriteChunk
  <2> HIDE DEF bytes, size, i
  <2> QED  BY <2>1, <2>2, <2>3
<1>3. k \in 1 .. MaxLength  BY <1>2
<1>4. size \in 0 .. MaxLength /\ DOMAIN inode[i] = 1 .. size  BY <1>1, SizeOf
<1>5. bytes \in Contents
  <2>1. PICK n \in 0 .. MaxLength : inode[i] \in [1 .. n -> Payloads \cup {Hole}]
    BY <1>1 DEF Contents
  <2>2. \A j \in 1 .. size : inode[i][j] \in Payloads \cup {Hole}  BY <1>4, <2>1
  <2> DEFINE end == IF size < k THEN k ELSE size
  <2>3. end \in 0 .. MaxLength  BY <1>3, <1>4
  <2>4. \A j \in 1 .. end : j <= size => j \in 1 .. size  BY <1>3, <1>4
  <2>5. bytes \in [1 .. end -> Payloads \cup {Hole}]
    BY <2>2, <2>4 DEF Payloads
  <2> QED  BY <2>3, <2>5 DEF Contents
<1>6. /\ inode' = [inode EXCEPT ![i] = bytes]
      /\ mtime' = [mtime EXCEPT ![i] = None]
      /\ call' = [call EXCEPT ![w] = [at |-> "writing", file |-> i, wrote |-> k]]
      /\ dst' = dst /\ tmp' = tmp /\ shared' = shared
      /\ call[w].at = "writing"
  BY DEF WriteChunk
<1> HIDE DEF i, k, size, bytes
<1>7. WriterTypeOK'
  <2>1. inode' \in [Inodes -> Contents]  BY <1>5, <1>6 DEF WriterInv, WriterTypeOK
  <2>2. mtime' \in [Inodes -> Payloads \cup {None}]  BY <1>6 DEF WriterInv, WriterTypeOK
  <2>3. [at |-> "writing", file |-> i, wrote |-> k] \in
          [at : Steps, file : Inodes \cup {None}, wrote : 0 .. MaxLength]
    BY <1>1, <1>3 DEF Steps
  <2>4. call' \in [Calls -> [at : Steps, file : Inodes \cup {None}, wrote : 0 .. MaxLength]]
    BY <1>6, <2>3 DEF WriterInv, WriterTypeOK
  <2> QED  BY <1>6, <2>1, <2>2, <2>4 DEF WriterInv, WriterTypeOK
<1>8. HasFile'  BY <1>1, <1>6 DEF WriterInv, WriterTypeOK, HasFile
<1>9. ASSUME ~shared' PROVE Unshared'
  <2>1. Unshared  BY <1>6, <1>9 DEF WriterInv
  <2>2. tmp # None /\ i = tmp /\ inode[i] = Prefix(w, call[w].wrote) /\ i # dst
    BY <1>6, <2>1 DEF Unshared, Progress, TmpFresh, i
  <2>3. size = call[w].wrote /\ k = size + 1
    <3>1. call[w].wrote \in 0 .. LengthOf[w]  BY <1>2 DEF k
    <3> QED  BY <2>2, <3>1, PrefixSize DEF size, k
  <2>4. bytes = Prefix(w, k)
    <3>1. \A j \in 1 .. size : inode[i][j] = w  BY <2>2, <2>3 DEF Prefix
    <3>2. bytes = [j \in 1 .. k |-> IF j = k THEN w ELSE IF j <= size THEN inode[i][j] ELSE Hole]
      BY <1>2, <2>3 DEF bytes
    <3>3. \A j \in 1 .. k : j = k \/ j \in 1 .. size  BY <1>2, <2>3
    <3>4. \A j \in 1 .. size : j <= size  BY <1>4
    <3> QED  BY <3>1, <3>2, <3>3, <3>4 DEF Prefix
  <2>5. \A v \in Calls : v # w => call'[v] = call[v]  BY <1>6 DEF WriterInv, WriterTypeOK
  <2>6. call'[w] = [at |-> "writing", file |-> i, wrote |-> k]  BY <1>6 DEF WriterInv, WriterTypeOK
  <2>7. \A v \in Calls : Busy(v)' => Busy(v)  BY <1>6, <2>5 DEF Busy
  <2>8. Alone'  BY <2>1, <2>7 DEF Unshared, Alone
  <2>9. TmpFresh'  BY <1>1, <1>6, <2>2 DEF TmpFresh, WriterInv, WriterTypeOK
  <2>10. inode'[tmp] = Prefix(w, k)  BY <1>1, <1>6, <2>2, <2>4 DEF WriterInv, WriterTypeOK
  <2>11. \A v \in Calls : Progress(v)'
    <3>1. k <= LengthOf[w]  BY <1>2
    <3>2. Progress(w)'  BY <1>6, <2>2, <2>6, <2>10, <3>1 DEF Progress
    <3>3. ASSUME NEW v \in Calls, v # w PROVE Progress(v)'
      <4>1. Busy(w)  BY <1>6 DEF Busy
      <4>2. ~Busy(v)  BY <2>1, <3>3, <4>1 DEF Unshared, Alone
      <4> QED  BY <2>5, <3>3, <4>2 DEF Progress, Busy
    <3> QED  BY <3>2, <3>3
  <2>12. dst # None => inode'[dst] = inode[dst] /\ mtime'[dst] = mtime[dst]
    BY <1>6, <2>2 DEF WriterInv, WriterTypeOK
  <2> QED  BY <1>6, <2>1, <2>8, <2>9, <2>11, <2>12 DEF Unshared
<1> QED  BY <1>7, <1>8, <1>9 DEF WriterInv

(* What Goto makes of the calls. *)
LEMMA GotoCall ==
  ASSUME WriterTypeOK, NEW w \in Calls, NEW at \in Steps, Goto(w, at)
  PROVE  /\ call' \in [Calls -> [at : Steps, file : Inodes \cup {None}, wrote : 0 .. MaxLength]]
         /\ call'[w].at = at
         /\ call'[w].file = call[w].file
         /\ \A v \in Calls : v # w => call'[v] = call[v]
<1>1. call' = [call EXCEPT ![w].at = at]  BY DEF Goto
<1>2. call \in [Calls -> [at : Steps, file : Inodes \cup {None}, wrote : 0 .. MaxLength]]
  BY DEF WriterTypeOK
<1> QED  BY <1>1, <1>2

(* A call that renames has the whole payload in the temporary file. *)
LEMMA RenameInv == ASSUME WriterInv, NEW w \in Calls, Rename(w) PROVE WriterInv'
<1> USE WriterAssumption
<1>1. /\ call[w].at \in {"writing", "removing"}
      /\ tmp # None /\ dst' = tmp /\ tmp' = None
      /\ inode' = inode /\ mtime' = mtime /\ shared' = shared
      /\ Goto(w, "renamed")
  BY DEF Rename, Copied
<1>2. WriterTypeOK /\ "renamed" \in Steps  BY DEF WriterInv, Steps
<1>3. WriterTypeOK'  BY <1>1, <1>2, GotoCall DEF WriterTypeOK
<1>4. HasFile'  BY <1>1, <1>2, GotoCall DEF WriterInv, HasFile
<1>5. ASSUME ~shared' PROVE Unshared'
  <2>1. Unshared  BY <1>1, <1>5 DEF WriterInv
  <2>2. inode[tmp] = Whole(w)
    <3>1. CASE call[w].at = "writing"
      <4>1. call[w].wrote = LengthOf[w]  BY <3>1 DEF Rename, Copied
      <4>2. inode[tmp] = Prefix(w, call[w].wrote)  BY <2>1, <3>1 DEF Unshared, Progress
      <4> QED  BY <4>1, <4>2 DEF Prefix, Whole
    <3>2. CASE call[w].at = "removing"
      BY <2>1, <3>2 DEF Unshared, Progress
    <3> QED  BY <1>1, <3>1, <3>2
  <2>3. mtime[tmp] = None  BY <1>1, <2>1 DEF Unshared, TmpFresh
  <2>4. ASSUME NEW v \in Calls, v # w PROVE ~Busy(v) /\ ~Busy(v)' /\ call'[v] = call[v]
    <3>1. Busy(w)  BY <1>1 DEF Busy
    <3>2. ~Busy(v)  BY <2>1, <2>4, <3>1 DEF Unshared, Alone
    <3>3. call'[v] = call[v]  BY <1>1, <1>2, <2>4, GotoCall
    <3> QED  BY <3>2, <3>3 DEF Busy
  <2>5. Alone'  BY <2>4 DEF Alone
  <2>6. TmpFresh'  BY <1>1 DEF TmpFresh
  <2>7. \A v \in Calls : Progress(v)'
    <3>1. call'[w].at = "renamed"  BY <1>1, <1>2, GotoCall
    <3>2. Progress(w)'  BY <1>1, <2>2, <3>1 DEF Progress
    <3>3. ASSUME NEW v \in Calls, v # w PROVE Progress(v)'
      BY <2>4, <3>3 DEF Progress, Busy
    <3> QED  BY <3>2, <3>3
  <2>8. w \in Payloads  BY DEF Payloads
  <2> QED  BY <1>1, <2>2, <2>3, <2>5, <2>6, <2>7, <2>8 DEF Unshared
<1> QED  BY <1>3, <1>4, <1>5 DEF WriterInv

(* Where the destination is removed first, the payload is still there. *)
LEMMA RemoveOldInv == ASSUME WriterInv, NEW w \in Calls, RemoveOld(w) PROVE WriterInv'
<1> USE WriterAssumption
<1>1. /\ call[w].at = "writing" /\ call[w].wrote = LengthOf[w]
      /\ dst' = None /\ tmp' = tmp
      /\ inode' = inode /\ mtime' = mtime /\ shared' = shared
      /\ Goto(w, "removing")
  BY DEF RemoveOld, Copied
<1>2. WriterTypeOK /\ "removing" \in Steps  BY DEF WriterInv, Steps
<1>3. WriterTypeOK'  BY <1>1, <1>2, GotoCall DEF WriterTypeOK
<1>4. HasFile'  BY <1>1, <1>2, GotoCall DEF WriterInv, HasFile
<1>5. ASSUME ~shared' PROVE Unshared'
  <2>1. Unshared  BY <1>1, <1>5 DEF WriterInv
  <2>2. tmp # None /\ inode[tmp] = Prefix(w, call[w].wrote)  BY <1>1, <2>1 DEF Unshared, Progress
  <2>3. inode[tmp] = Whole(w)  BY <1>1, <2>2 DEF Prefix, Whole
  <2>4. ASSUME NEW v \in Calls, v # w PROVE ~Busy(v) /\ ~Busy(v)' /\ call'[v] = call[v]
    <3>1. Busy(w)  BY <1>1 DEF Busy
    <3>2. ~Busy(v)  BY <2>1, <2>4, <3>1 DEF Unshared, Alone
    <3>3. call'[v] = call[v]  BY <1>1, <1>2, <2>4, GotoCall
    <3> QED  BY <3>2, <3>3 DEF Busy
  <2>5. Alone'  BY <2>4 DEF Alone
  <2>6. TmpFresh'  BY <1>1, <2>1 DEF Unshared, TmpFresh
  <2>7. \A v \in Calls : Progress(v)'
    <3>1. call'[w].at = "removing"  BY <1>1, <1>2, GotoCall
    <3>2. Progress(w)'  BY <1>1, <2>2, <2>3, <3>1 DEF Progress
    <3>3. ASSUME NEW v \in Calls, v # w PROVE Progress(v)'
      BY <2>4, <3>3 DEF Progress, Busy
    <3> QED  BY <3>2, <3>3
  <2> QED  BY <1>1, <2>5, <2>6, <2>7 DEF Unshared
<1> QED  BY <1>3, <1>4, <1>5 DEF WriterInv

(* The time is set on the destination that the call has just renamed. *)
LEMMA SetModifiedInv == ASSUME WriterInv, NEW w \in Calls, SetModified(w) PROVE WriterInv'
<1> USE WriterAssumption
<1>1. /\ call[w].at = "renamed" /\ dst # None
      /\ mtime' = [mtime EXCEPT ![dst] = w]
      /\ inode' = inode /\ dst' = dst /\ tmp' = tmp /\ shared' = shared
      /\ Goto(w, "ok")
  BY DEF SetModified
<1>2. WriterTypeOK /\ "ok" \in Steps /\ w \in Payloads  BY DEF WriterInv, Steps, Payloads
<1>3. WriterTypeOK'  BY <1>1, <1>2, GotoCall DEF WriterTypeOK
<1>4. HasFile'  BY <1>1, <1>2, GotoCall DEF WriterInv, HasFile
<1>5. ASSUME ~shared' PROVE Unshared'
  <2>1. Unshared  BY <1>1, <1>5 DEF WriterInv
  <2>2. inode[dst] = Whole(w)  BY <1>1, <2>1 DEF Unshared, Progress
  <2>3. mtime'[dst] = w /\ (tmp # None => mtime'[tmp] = mtime[tmp])
    BY <1>1, <2>1 DEF WriterInv, WriterTypeOK, Unshared, TmpFresh
  <2>4. ASSUME NEW v \in Calls, v # w PROVE call'[v] = call[v]
    BY <1>1, <1>2, <2>4, GotoCall
  <2>5. call'[w].at = "ok"  BY <1>1, <1>2, GotoCall
  <2>6. Alone'  BY <2>1, <2>4, <2>5 DEF Unshared, Alone, Busy
  <2>7. TmpFresh'  BY <1>1, <2>1, <2>3 DEF Unshared, TmpFresh
  <2>8. \A v \in Calls : Progress(v)'
    <3>1. Progress(w)'  BY <2>5 DEF Progress
    <3>2. ASSUME NEW v \in Calls, v # w PROVE Progress(v)'
      BY <1>1, <2>1, <2>4, <3>2 DEF Unshared, Progress
    <3> QED  BY <3>1, <3>2
  <2> QED  BY <1>1, <2>1, <2>2, <2>3, <2>6, <2>7, <2>8 DEF Unshared
<1> QED  BY <1>3, <1>4, <1>5 DEF WriterInv

(* A call that ends where it is, or begins again, leaves the files alone. *)
LEMMA EndInv == ASSUME WriterInv, NEW w \in Calls, Fail(w) \/ Retry(w) PROVE WriterInv'
<1> USE WriterAssumption
<1>1. inode' = inode /\ mtime' = mtime /\ dst' = dst /\ tmp' = tmp /\ shared' = shared
  BY DEF Fail, Retry
<1>2. /\ call' \in [Calls -> [at : Steps, file : Inodes \cup {None}, wrote : 0 .. MaxLength]]
      /\ call'[w].at \in {"failed", "new"}
      /\ \A v \in Calls : v # w => call'[v] = call[v]
  <2>1. CASE Fail(w)
    <3>1. WriterTypeOK /\ "failed" \in Steps /\ Goto(w, "failed")  BY <2>1 DEF WriterInv, Steps, Fail
    <3> QED  BY <3>1, GotoCall
  <2>2. CASE Retry(w)
    <3>1. call' = [call EXCEPT ![w] = [at |-> "new", file |-> None, wrote |-> 0]]
      BY <2>2 DEF Retry
    <3> QED  BY <3>1 DEF WriterInv, WriterTypeOK, Steps
  <2> QED  BY <2>1, <2>2
<1>3. WriterTypeOK'  BY <1>1, <1>2 DEF WriterInv, WriterTypeOK
<1>4. HasFile'  BY <1>2 DEF WriterInv, HasFile
<1>5. ASSUME ~shared' PROVE Unshared'
  <2>1. Unshared  BY <1>1, <1>5 DEF WriterInv
  <2>2. Alone'  BY <1>2, <2>1 DEF Unshared, Alone, Busy
  <2>3. TmpFresh'  BY <1>1, <2>1 DEF Unshared, TmpFresh
  <2>4. \A v \in Calls : Progress(v)'
    <3>1. Progress(w)'  BY <1>2 DEF Progress
    <3>2. ASSUME NEW v \in Calls, v # w PROVE Progress(v)'
      BY <1>1, <1>2, <2>1, <3>2 DEF Unshared, Progress
    <3> QED  BY <3>1, <3>2
  <2> QED  BY <1>1, <2>1, <2>2, <2>3, <2>4 DEF Unshared
<1> QED  BY <1>3, <1>4, <1>5 DEF WriterInv

(* Every step keeps the invariant. *)
LEMMA WriterNextInv == WriterInv /\ [WriterNext]_WriterVars => WriterInv'
<1> SUFFICES ASSUME WriterInv, [WriterNext]_WriterVars PROVE WriterInv'  OBVIOUS
<1>1. CASE WriterNext
  <2>1. PICK w \in Calls :
          \/ Open(w) \/ WriteChunk(w) \/ Rename(w) \/ RemoveOld(w)
          \/ SetModified(w) \/ Fail(w) \/ Retry(w)
    BY <1>1 DEF WriterNext
  <2> QED  BY <2>1, OpenInv, WriteChunkInv, RenameInv, RemoveOldInv, SetModifiedInv, EndInv
<1>2. CASE UNCHANGED WriterVars
  BY <1>2 DEF WriterVars, WriterInv, WriterTypeOK, HasFile, Unshared, Alone, Busy, TmpFresh, Progress
<1> QED  BY <1>1, <1>2

(* The invariant holds always. *)
LEMMA WriterInvariance == WriterSpec => []WriterInv
BY WriterInitInv, WriterNextInv, PTL DEF WriterSpec

-----------------------------------------------------------------------------

(* The state of the writer always has its type: in particular no file      *)
(* grows past the longest payload, also under calls that overlap and write *)
(* behind the end of a file the other has truncated.                       *)
THEOREM WriterTypeCorrect == WriterSpec => []WriterTypeOK
<1>1. WriterInv => WriterTypeOK  BY DEF WriterInv
<1> QED  BY <1>1, WriterInvariance, PTL

(* write_file_to_path is atomic: for any number of calls one after the     *)
(* other, failing anywhere, the destination is one whole payload.          *)
THEOREM Atomic == WriterSpec => []DestinationWhole
<1>1. WriterInv => DestinationWhole  BY DEF WriterInv, Unshared, DestinationWhole
<1> QED  BY <1>1, WriterInvariance, PTL

(* A planned modification time stands on the bytes it was planned for.     *)
THEOREM Stamped == WriterSpec => []StampFitsBytes
<1>1. WriterInv => StampFitsBytes  BY DEF WriterInv, Unshared, StampFitsBytes
<1> QED  BY <1>1, WriterInvariance, PTL
=============================================================================
