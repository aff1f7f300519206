------------------------------ MODULE LineLock -------------------------------
(***************************************************************************)
(* The line lock file of a machine (core/line/line_lock.py): launches of   *)
(* run_ticket.py that create it exclusively, recover a dead holder's,      *)
(* refuse at once otherwise, beat in it and delete it.  The steps are the  *)
(* calls to the file system, which interleave; a launch is one process,    *)
(* and never returns.                                                      *)
(*                                                                         *)
(* A file is its creator and whether its content was written: the creator  *)
(* writes through its descriptor, wherever the file was moved to.  On      *)
(* POSIX an open file can be moved; on Windows the move fails.  A holder   *)
(* that sleeps past HEARTBEAT_STALE_PID_ALIVE_SEC counts as dead.          *)
(*                                                                         *)
(* The lock is not safe in all of these interleavings.  mishap records     *)
(* the three events that let a second launch in.                           *)
(***************************************************************************)
EXTENDS Integers

CONSTANTS
  Launches,
  Ghost,          \* a launch that died before, leaving its lock
  Nobody,         \* no file, no readable content
  Reserving       \* BOOLEAN: fleet mode, a cycle is reserved after the lock

ASSUME LockAssumption == /\ Launches \intersect {Ghost, Nobody} = {} /\ Ghost # Nobody
                         /\ Reserving \in BOOLEAN

VARIABLES
  lockFile,   \* line.lock
  aside,      \* by launch: the file it moved to line.lock.stale-<pid>
  launch,     \* by launch: where it is, the content it observed, its tries
  asleep,     \* the launches whose heartbeat was once too old
  posix,      \* the platform: an open file can be moved
  mishap      \* ghost: an open file was moved; or a lock was created while a live
              \* launch's, misjudged, was aside; or a launch that overslept wrote or
              \* deleted the lock of its successor

lockVars == <<lockFile, aside, launch, asleep, posix, mishap>>

NoFile == [by |-> Nobody, written |-> FALSE]
FileOf(p, written) == [by |-> p, written |-> written]

\* _read_lock
Content(file) == IF file.written THEN file.by ELSE Nobody

Alive(p)   == p \in Launches /\ launch[p].at # "gone"
IsStale(p) == ~ Alive(p) \/ p \in asleep
IsOpen(file) == file.by # Nobody /\ ~ file.written /\ Alive(file.by)

\* Some launch has moved aside a lock that is not the one it judged stale.
Misjudged  == \E q \in Launches : aside[q] # NoFile /\ Content(aside[q]) # launch[q].observed

\* The launch p, which overslept, no longer has the lock.
Overslept(p) == p \in asleep /\ lockFile.by # p

Steps(p, where) == launch' = [launch EXCEPT ![p].at = where]

\* A try is spent; after the second the launch is refused.
NextTry(p) == launch' = [launch EXCEPT ![p].tries = @ + 1,
                                       ![p].at = IF launch[p].tries = 0 THEN "create" ELSE "gone"]

-----------------------------------------------------------------------------
\* acquire.

\* O_CREAT | O_EXCL
Create(p) ==
  /\ launch[p].at = "create"
  /\ IF lockFile.by = Nobody
     THEN lockFile' = FileOf(p, FALSE) /\ Steps(p, "write") /\ mishap' = (mishap \/ Misjudged)
     ELSE Steps(p, "observe") /\ UNCHANGED <<lockFile, mishap>>
  /\ UNCHANGED <<aside, asleep, posix>>

\* The content is written to the file created, moved or deleted though it be.
Write(p) ==
  LET filled(f) == IF f = FileOf(p, FALSE) THEN FileOf(p, TRUE) ELSE f IN
  /\ launch[p].at = "write"
  /\ lockFile' = filled(lockFile) /\ aside' = [q \in Launches |-> filled(aside[q])]
  /\ Steps(p, IF Reserving THEN "reserve" ELSE "in")
  /\ UNCHANGED <<asleep, posix, mishap>>

\* A readable, live holder refuses; anything else is to be recovered.
Observe(p) ==
  LET holder == Content(lockFile) IN
  /\ launch[p].at = "observe"
  /\ IF holder # Nobody /\ ~ IsStale(holder) THEN Steps(p, "gone")
     ELSE launch' = [launch EXCEPT ![p].at = "recover", ![p].observed = holder]
  /\ UNCHANGED <<lockFile, aside, asleep, posix, mishap>>

\* Fault: a plain unlink.
UnlinkStale(p) ==
  /\ launch[p].at = "recover"
  /\ lockFile' = NoFile /\ NextTry(p)
  /\ UNCHANGED <<aside, asleep, posix, mishap>>

\* _recover_stale: os.replace to a name of its own.
MoveAside(p) ==
  /\ launch[p].at = "recover"
  /\ CASE lockFile.by = Nobody -> NextTry(p) /\ UNCHANGED <<lockFile, aside>>
       [] IsOpen(lockFile) /\ ~ posix ->
            /\ IF launch[p].observed = Nobody THEN NextTry(p) ELSE Steps(p, "gone")
            /\ UNCHANGED <<lockFile, aside>>
       [] OTHER -> /\ aside' = [aside EXCEPT ![p] = lockFile] /\ lockFile' = NoFile
                   /\ Steps(p, "compare")
  /\ mishap' = (mishap \/ (posix /\ IsOpen(lockFile)))
  /\ UNCHANGED <<asleep, posix>>

\* The file moved is read again: the one judged stale is deleted, and the creation is
\* tried again; another one is put back if its place is free.
Compare(p) ==
  /\ launch[p].at = "compare"
  /\ IF Content(aside[p]) = launch[p].observed
     THEN NextTry(p) /\ aside' = [aside EXCEPT ![p] = NoFile]
     ELSE IF lockFile.by = Nobody THEN Steps(p, "restore") /\ UNCHANGED aside
          ELSE Steps(p, "gone") /\ aside' = [aside EXCEPT ![p] = NoFile]
  /\ UNCHANGED <<lockFile, asleep, posix, mishap>>

\* os.replace back, over whatever is there by now.
PutBack(p) ==
  /\ launch[p].at = "restore"
  /\ lockFile' = aside[p] /\ aside' = [aside EXCEPT ![p] = NoFile]
  /\ Steps(p, "gone")
  /\ UNCHANGED <<asleep, posix, mishap>>

\* The reservation of a cycle.  A conflict deletes the lock and refuses; another error
\* leaves it behind, to the end of the process.
Reserve(p, result) ==
  /\ launch[p].at = "reserve"
  /\ lockFile' = IF result = "conflict" THEN NoFile ELSE lockFile
  /\ Steps(p, IF result = "ok" THEN "in" ELSE "gone")
  /\ UNCHANGED <<aside, asleep, posix, mishap>>

-----------------------------------------------------------------------------
\* The heartbeat: a file of this launch replaces what is there.
Beat(p) ==
  /\ launch[p].at = "in"
  /\ lockFile' = FileOf(p, TRUE)
  /\ mishap' = (mishap \/ Overslept(p))
  /\ UNCHANGED <<aside, launch, asleep, posix>>

\* release: unlink, whoever's file it is.
Unlock(p) ==
  /\ launch[p].at = "in"
  /\ lockFile' = NoFile /\ Steps(p, "gone")
  /\ mishap' = (mishap \/ Overslept(p))
  /\ UNCHANGED <<aside, asleep, posix>>

\* A killed launch.
Die(p) ==
  /\ launch[p].at # "gone"
  /\ Steps(p, "gone")
  /\ UNCHANGED <<lockFile, aside, asleep, posix, mishap>>

\* A suspended machine or process: the heartbeat is half an hour old.
Sleep(p) ==
  /\ launch[p].at = "in" /\ p \notin asleep
  /\ asleep' = asleep \cup {p}
  /\ UNCHANGED <<lockFile, aside, launch, posix, mishap>>

-----------------------------------------------------------------------------
LockInit ==
  /\ lockFile \in {NoFile, FileOf(Ghost, TRUE), FileOf(Ghost, FALSE)}
  /\ aside = [p \in Launches |-> NoFile]
  /\ launch = [p \in Launches |-> [at |-> "create", observed |-> Nobody, tries |-> 0]]
  /\ asleep = {} /\ posix \in BOOLEAN /\ mishap = FALSE

LockNext ==
  \E p \in Launches :
    \/ Create(p) \/ Write(p) \/ Observe(p) \/ MoveAside(p) \/ Compare(p) \/ PutBack(p)
    \/ \E result \in {"ok", "conflict", "error"} : Reserve(p, result)
    \/ Beat(p) \/ Unlock(p) \/ Die(p) \/ Sleep(p)

LockSpec == LockInit /\ [][LockNext]_lockVars
-----------------------------------------------------------------------------
\* Properties.

\* At most one launch operates the line, of those that never slept, on either platform:
\* stale locks are recovered, misjudged ones put back, and no recovery deletes a live
\* holder's, until one of the three mishaps.
LineExclusive ==
  mishap \/ \A p, q \in Launches \ asleep : launch[p].at = "in" /\ launch[q].at = "in" => p = q

\* Not so: "two racing launches never both own the lock".
OneLinePerMachine ==
  \A p, q \in Launches \ asleep : launch[p].at = "in" /\ launch[q].at = "in" => p = q
=============================================================================
