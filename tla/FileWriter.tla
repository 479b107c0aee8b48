----------------------------- MODULE FileWriter -----------------------------
(***************************************************************************)
(* write_file_to_path (ttsync-fs/src/writer.rs) on one destination: a      *)
(* temporary file whose name is derived from the destination's, filled     *)
(* chunk by chunk, renamed over the destination and then given the         *)
(* planned modification time.                                              *)
(*                                                                         *)
(* An open file is an inode: a writer goes on writing to the one it opened *)
(* wherever it has been renamed to, and opening a temporary file that is   *)
(* already there truncates it under whoever else has it open.              *)
(***************************************************************************)
EXTENDS Naturals

CONSTANTS
  Calls,      \* calls of write_file_to_path; each has a payload of its own
  Inodes,     \* files that can be created
  LengthOf,   \* number of chunks of each payload
  MaxLength,
  Replaces,   \* whether rename replaces an existing destination
  Original,   \* the payload that was there before
  Hole, None

ASSUME WriterAssumption ==
  /\ MaxLength \in Nat
  /\ LengthOf \in [Calls \cup {Original} -> 0 .. MaxLength]
  /\ Replaces \in BOOLEAN
  /\ Original \notin Calls
  /\ Hole \notin Calls \cup {Original}
  /\ None \notin Inodes

Payloads == Calls \cup {Original}

(* The chunks of a file; its length is their number. *)
Contents == UNION {[1 .. n -> Payloads \cup {Hole}] : n \in 0 .. MaxLength}

VARIABLES
  inode,  \* what is in each file
  mtime,  \* the payload a file's modification time belongs to, or None
  dst,    \* the file at the destination
  tmp,    \* the file at the temporary path
  call,   \* the calls: where they are, their file and how much they wrote
  shared  \* history: two calls have been at work at the same time

WriterVars == <<inode, mtime, dst, tmp, call, shared>>

Steps == {"new", "writing", "removing", "renamed", "ok", "failed"}

(* The types of the two paths, the files and the calls; no call writes     *)
(* more than the longest payload.                                          *)
WriterTypeOK ==
  /\ inode \in [Inodes -> Contents]
  /\ mtime \in [Inodes -> Payloads \cup {None}]
  /\ dst \in Inodes \cup {None}
  /\ tmp \in Inodes \cup {None}
  /\ call \in [Calls -> [at : Steps, file : Inodes \cup {None}, wrote : 0 .. MaxLength]]
  /\ shared \in BOOLEAN

Empty == [k \in 1 .. 0 |-> Hole]

Whole(payload) == [k \in 1 .. LengthOf[payload] |-> payload]

Size(contents) == IF contents = Empty THEN 0
                  ELSE CHOOSE n \in 1 .. MaxLength : DOMAIN contents = 1 .. n

WriterInit ==
  /\ dst \in Inodes \cup {None}
  /\ tmp = None
  /\ inode = [i \in Inodes |-> IF i = dst THEN Whole(Original) ELSE Empty]
  /\ mtime = [i \in Inodes |-> IF i = dst THEN Original ELSE None]
  /\ call = [w \in Calls |-> [at |-> "new", file |-> None, wrote |-> 0]]
  /\ shared = FALSE

Busy(w) == call[w].at \in {"writing", "removing", "renamed"}

InUse == {i \in Inodes : i \in {dst, tmp} \/ \E w \in Calls : Busy(w) /\ call[w].file = i}

Goto(w, at) == call' = [call EXCEPT ![w].at = at]

-----------------------------------------------------------------------------

(* OpenOptions: create, write, truncate. *)
Open(w) ==
  /\ call[w].at = "new"
  /\ shared' = (shared \/ \E v \in Calls : Busy(v))
  /\ \E i \in IF tmp # None THEN {tmp} ELSE Inodes \ InUse :
       /\ tmp' = i
       /\ inode' = [inode EXCEPT ![i] = Empty]
       /\ mtime' = [mtime EXCEPT ![i] = None]
       /\ call' = [call EXCEPT ![w] = [at |-> "writing", file |-> i, wrote |-> 0]]
  /\ UNCHANGED dst

(* copy_to_file: the next chunk at the writer's own position, which may be *)
(* behind the end of a file that another call truncated.                   *)
WriteChunk(w) ==
  /\ call[w].at = "writing"
  /\ call[w].wrote < LengthOf[w]
  /\ LET i == call[w].file
         k == call[w].wrote + 1
         size == Size(inode[i])
     IN /\ inode' = [inode EXCEPT ![i] =
             [j \in 1 .. (IF size < k THEN k ELSE size) |->
                IF j = k THEN w ELSE IF j <= size THEN inode[i][j] ELSE Hole]]
        /\ mtime' = [mtime EXCEPT ![i] = None]
        /\ call' = [call EXCEPT ![w] =
             [at |-> "writing", file |-> i, wrote |-> k]]
  /\ UNCHANGED <<dst, tmp, shared>>

(* Mutant: one chunk short. *)
CopiedAlmost(w) == call[w].at = "writing" /\ call[w].wrote + 1 >= LengthOf[w]

Copied(w) == call[w].at = "writing" /\ call[w].wrote = LengthOf[w]

(* rename_with_retry: whatever is at the temporary path replaces the       *)
(* destination ...                                                         *)
Rename(w) ==
  /\ \/ Copied(w) /\ (Replaces \/ dst = None)
     \/ call[w].at = "removing"
  /\ tmp # None
  /\ dst' = tmp
  /\ tmp' = None
  /\ Goto(w, "renamed")
  /\ UNCHANGED <<inode, mtime, shared>>

(* ... after the destination was removed, where rename does not replace. *)
RemoveOld(w) ==
  /\ Copied(w)
  /\ ~Replaces /\ dst # None
  /\ dst' = None
  /\ Goto(w, "removing")
  /\ UNCHANGED <<inode, mtime, tmp, shared>>

(* Mutant: the time is set before the rename. *)
SetModifiedFirst(w) ==
  /\ call[w].at = "writing"
  /\ dst # None
  /\ mtime' = [mtime EXCEPT ![dst] = w]
  /\ Goto(w, "ok")
  /\ UNCHANGED <<inode, dst, tmp, shared>>

(* set_file_modified_ms, by path. *)
SetModified(w) ==
  /\ call[w].at = "renamed"
  /\ dst # None
  /\ mtime' = [mtime EXCEPT ![dst] = w]
  /\ Goto(w, "ok")
  /\ UNCHANGED <<inode, dst, tmp, shared>>

(* A short body, an I/O error (no file at the temporary path any more),    *)
(* a dropped future or the end of the process: everything stays where it   *)
(* is.                                                                     *)
Fail(w) ==
  /\ Busy(w)
  /\ Goto(w, "failed")
  /\ UNCHANGED <<inode, mtime, dst, tmp, shared>>

(* The next round writes the file again. *)
Retry(w) ==
  /\ call[w].at \in {"ok", "failed"}
  /\ call' = [call EXCEPT ![w] = [at |-> "new", file |-> None, wrote |-> 0]]
  /\ UNCHANGED <<inode, mtime, dst, tmp, shared>>

WriterNext ==
  \E w \in Calls :
    \/ Open(w) \/ WriteChunk(w) \/ Rename(w) \/ RemoveOld(w)
    \/ SetModified(w) \/ Fail(w) \/ Retry(w)

WriterSpec == WriterInit /\ [][WriterNext]_WriterVars
-----------------------------------------------------------------------------
(* Properties.                                                             *)

(* "Write data to a file atomically": whoever looks at the destination     *)
(* finds one whole payload, never a part or a mixture, also when a call    *)
(* failed and left its temporary file behind.  Calls that overlap are the  *)
(* exception, for they share the temporary file.                           *)
DestinationWhole ==
  ~shared /\ dst # None => \E payload \in Payloads : inode[dst] = Whole(payload)

(* "Preserves mtime after write": a modification time taken from a plan    *)
(* stands on the bytes it was planned for, again unless calls overlapped.  *)
StampFitsBytes ==
  ~shared /\ dst # None /\ mtime[dst] # None => inode[dst] = Whole(mtime[dst])
=============================================================================
