----------------------------- MODULE RotatingLog -----------------------------
(***************************************************************************)
(* A log of zlt and its archives (internal/logging/rotate.go), with what   *)
(* uses it: for a task's log the launch, the waiter and ClearLogs of       *)
(* internal/process/manager.go, for zlt's own log Setup and the handler    *)
(* that empties the file.  The module allows on one log what happens to    *)
(* either.                                                                 *)
(*                                                                         *)
(* A byte of the log is the number of the write that it belongs to.  Each  *)
(* method of RotatingWriter holds its mutex throughout and is one action,  *)
(* with a variant for every file operation at which it may give up; zlt    *)
(* killed in the middle of a method is such a variant followed by Crash.   *)
(***************************************************************************)
EXTENDS Integers, Sequences

CONSTANTS
  Top,       \* no more backups than this are ever asked for
  Sizes,     \* the limits of a file that the settings offer, 0 for none
  Lengths,   \* how long a write may be
  MaxWrites, \* bounds the number of writes
  Missing

ASSUME LogAssumption ==
  /\ Top \in Nat /\ Sizes \subseteq Nat /\ Lengths \subseteq Nat \ {0} /\ MaxWrites \in Nat
  /\ Missing \notin Seq(Nat)

VARIABLES
  disk,    \* the files: app.log is number 0, app.log.i number i
  phase,   \* "writing" while a program (or zlt itself) runs on the log, "ended"
           \*   once its waiter has closed it, "none" without a writer
  handle,  \* RotatingWriter.file: "open", "shut", or "stuck" when it did not close
  size,    \* RotatingWriter.size
  limits,  \* the largest size and the number of backups
  next,    \* the number of the next write
  since    \* the first write of the present run

vars == <<disk, phase, handle, size, limits, next, since>>

Files  == 0..Top
Limits == [size : Sizes, backups : Files]

(* The last line: a writer never takes its file for smaller than it is.     *)
TypeOK ==
  /\ disk \in [Files -> Seq(1..MaxWrites) \cup {Missing}]
  /\ phase \in {"none", "writing", "ended"}
  /\ handle \in {"open", "shut", "stuck"}
  /\ size \in Nat
  /\ limits \in Limits
  /\ next \in 1..MaxWrites + 1
  /\ since \in 1..next
  /\ handle = "open" => disk[0] # Missing /\ size >= Len(disk[0])

Init ==
  /\ disk = [i \in Files |-> Missing]
  /\ phase = "none" /\ handle = "shut" /\ size = 0
  /\ limits \in Limits
  /\ next = 1 /\ since = 1

------------------------------------------------------------------------------
(* The files.                                                               *)

Content(i) == IF disk[i] = Missing THEN <<>> ELSE disk[i]

(* Faulty variant: the loop over the archives starts one too low.           *)
ShiftedShort(j) ==
  [i \in Files |-> IF i = j THEN Missing
                   ELSE IF j < i /\ i < limits.backups THEN disk[i - 1]
                   ELSE disk[i]]

(* The last archive is dropped, the files from number j on are moved up.    *)
Shifted(j) ==
  [i \in Files |-> IF i = j THEN Missing
                   ELSE IF j < i /\ i <= limits.backups THEN disk[i - 1]
                   ELSE disk[i]]

(* What rotateLocked leaves behind when it gives up after it has closed the *)
(* file: it drops the oldest archive, then renames from the oldest on.      *)
PartlyRotated == {disk} \cup {Shifted(j) : j \in 0..limits.backups}

(* Faulty variant: no archive moves, the log gets the first free number.    *)
RotatedToFree(current) ==
  LET free == {i \in 1..limits.backups : disk[i] = Missing} \cup {limits.backups}
      to   == CHOOSE i \in free : \A n \in free : i <= n
  IN [disk EXCEPT ![to] = Content(0), ![0] = current]

Rotated(current) == [Shifted(0) EXCEPT ![0] = current]

(* PurgeLog empties the log and removes the archives one after the other.   *)
Emptied == IF disk[0] = Missing THEN disk ELSE [disk EXCEPT ![0] = <<>>]

PartlyPurged ==
  {disk} \cup {[i \in Files |-> IF 0 < i /\ i <= k THEN Missing ELSE Emptied[i]] : k \in Files}

Purged == [i \in Files |-> IF i = 0 THEN Emptied[0] ELSE Missing]

Opened(D) == [D EXCEPT ![0] = IF @ = Missing THEN <<>> ELSE @]

------------------------------------------------------------------------------
(* The writer.                                                              *)

(* Close failed: the handle stays and every later call fails on it.         *)
Stick == handle = "open" /\ handle' = "stuck" /\ UNCHANGED <<disk, size>>

(* A method gives up when the file is closed already.                       *)
GiveUp(D) == handle # "stuck" /\ handle' = "shut" /\ disk' = D /\ UNCHANGED size

(* openLocked                                                               *)
Reopen(D) ==
  /\ handle # "stuck" /\ handle' = "open"
  /\ disk' = Opened(D) /\ size' = Len(Opened(D)[0])

(* NewRotatingWriter, for a run that continues the log (a restart after a   *)
(* crash, zlt's own log) or a fresh one, which archives it first.  When that*)
(* fails, so does the launch.                                               *)
Continue ==
  /\ phase = "none" /\ phase' = "writing"
  /\ Reopen(disk)
  /\ UNCHANGED <<limits, next, since>>

(* Faulty variant: a fresh run goes on in the old log.                      *)
LaunchAppending ==
  /\ phase = "none" /\ phase' = "writing"
  /\ Reopen(disk)
  /\ since' = next
  /\ UNCHANGED <<limits, next>>

Launch ==
  /\ phase = "none" /\ phase' = "writing"
  /\ Reopen(IF Content(0) = <<>> THEN disk ELSE Shifted(0))
  /\ since' = next
  /\ UNCHANGED <<limits, next>>

LaunchFails ==
  /\ phase = "none" /\ Content(0) # <<>>
  /\ \E D \in PartlyRotated : GiveUp(D)
  /\ UNCHANGED <<phase, limits, next, since>>

(* What Write takes for the size: of a file that was shut, the true one.    *)
Known == IF handle = "shut" THEN Len(Content(0)) ELSE size

(* Faulty variant: the write itself is not counted.                         *)
FullAlready(n) == n > 0 /\ limits.size > 0 /\ Known > limits.size

(* An empty file is never rotated.                                          *)
Full(n) == limits.size > 0 /\ Known > 0 /\ Known + n > limits.size

Bytes(n) == [i \in 1..n |-> next]

Writing == phase = "writing" /\ handle # "stuck" /\ next <= MaxWrites

(* The disk may be full after k bytes of n.                                 *)
Write(n) ==
  /\ Writing /\ ~Full(n)
  /\ \E k \in 0..n :
       /\ disk' = [disk EXCEPT ![0] = Content(0) \o Bytes(k)]
       /\ size' = Known + k
  /\ handle' = "open" /\ next' = next + 1
  /\ UNCHANGED <<phase, limits, since>>

RotateAndWrite(n) ==
  /\ Writing /\ Full(n)
  /\ \E k \in 0..n :
       /\ disk' = Rotated(Bytes(k))
       /\ size' = k
  /\ handle' = "open" /\ next' = next + 1
  /\ UNCHANGED <<phase, limits, since>>

(* The rotation fails and the write with it.                                *)
RotationFails(n) ==
  /\ Writing /\ Full(n)
  /\ \/ handle' = "stuck" /\ UNCHANGED disk
     \/ handle' = "shut" /\ disk' \in PartlyRotated
  /\ size' = Known
  /\ UNCHANGED <<phase, limits, next, since>>

SetLimits(l) ==
  /\ limits' = l
  /\ UNCHANGED <<disk, phase, handle, size, next, since>>

(* Truncate, which nothing in the program calls yet.                        *)
Truncate ==
  /\ phase = "writing"
  /\ Stick \/ GiveUp(disk) \/ GiveUp(Emptied) \/ Reopen(Emptied)
  /\ UNCHANGED <<phase, limits, next, since>>

(* ClearLogs: Purge while the manager knows a writer, which it does until   *)
(* the waiter has its lock, else PurgeLog.                                  *)
ClearLogs ==
  /\ IF phase = "none"
     THEN disk' \in PartlyPurged /\ UNCHANGED <<handle, size>>
     ELSE Stick \/ Reopen(Purged) \/ \E D \in PartlyPurged : GiveUp(D)
  /\ UNCHANGED <<phase, limits, next, since>>

(* handleSystemLogClear does not ask the writer.                            *)
ClearSystemLog ==
  /\ disk' = [disk EXCEPT ![0] = <<>>]
  /\ UNCHANGED <<phase, handle, size, limits, next, since>>

(* The waiter closes the writer (Close also lets go of a handle that is     *)
(* stuck), then waits for the manager's lock to forget it.                  *)
Close ==
  /\ phase = "writing" /\ phase' = "ended"
  /\ handle' = "shut"
  /\ UNCHANGED <<disk, size, limits, next, since>>

Forget ==
  /\ phase = "ended" /\ phase' = "none"
  /\ handle' = "shut"
  /\ UNCHANGED <<disk, size, limits, next, since>>

(* zlt is killed.                                                           *)
Crash ==
  /\ phase # "none" /\ phase' = "none"
  /\ handle' = "shut"
  /\ UNCHANGED <<disk, size, limits, next, since>>

Next ==
  \/ Continue \/ Launch \/ LaunchFails
  \/ \E n \in Lengths : Write(n) \/ RotateAndWrite(n) \/ RotationFails(n)
  \/ \E l \in Limits : SetLimits(l)
  \/ Truncate \/ ClearLogs \/ ClearSystemLog
  \/ Close \/ Forget \/ Crash

Spec == Init /\ [][Next]_vars

------------------------------------------------------------------------------
(* Properties.                                                              *)

In(file) == {file[i] : i \in DOMAIN file}

Lost == (UNION {In(Content(i)) : i \in Files}) \ (UNION {In(Content(i)') : i \in Files})

(* A write ends within the limit that is in effect or has the file for      *)
(* itself, although limits change, rotations and writes fail half-way and   *)
(* the file is emptied behind the writer's back (rotate.go:12).             *)
WriteBounded ==
  [][next' # next =>
       \/ limits.size = 0 \/ Len(Content(0)') <= limits.size
       \/ In(Content(0)') \subseteq {next}]_vars

(* Read from the highest number down and then app.log, the log has every    *)
(* write at most once, in the order of the writes, as readTaskLogAll counts *)
(* on, whatever rotations failed and limits changed before                  *)
(* (internal/api/server.go:822 and 884).                                    *)
InOrder ==
  \A i, j \in Files :
    \A x \in DOMAIN Content(i), y \in DOMAIN Content(j) :
      /\ j < i => Content(i)[x] < Content(j)[y]
      /\ i = j /\ x < y => Content(i)[x] <= Content(j)[y]

(* What is not cleared is lost from its old end: a rotation, even one that  *)
(* fails, drops one file, and nothing while an older write stays in the     *)
(* files it keeps (rotate.go:17).                                           *)
OldestGoFirst ==
  [][disk' # disk =>
       \/ ClearLogs \/ ClearSystemLog \/ Truncate
       \/ /\ Lost \subseteq In(Content(limits.backups))
          /\ \A w \in Lost, i \in 0..limits.backups : \A b \in In(Content(i)') : b > w]_vars

(* app.log has the output only of the last fresh run and of its restarts    *)
(* after crashes: what older runs wrote is in the archives (manager.go:362).*)
RunsApart == \A b \in In(Content(0)) : b >= since
==============================================================================
