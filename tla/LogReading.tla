------------------------------ MODULE LogReading ------------------------------
(***************************************************************************)
(* The readers of a task's log: the tail of internal/logging/tail.go and,  *)
(* in internal/api/server.go, the tail over all archives, the download and *)
(* the stream, beside the writer of RotatingLog.                           *)
(*                                                                         *)
(* No lock is between a reader and the writer.  A reader lists the         *)
(* archives once and opens them one by one, a rotation renames them one by *)
(* one, so dir keeps the states of the directory that the writer's call    *)
(* has yet to go through.  Readers change nothing, so one at a time shows  *)
(* all that can happen to any of them.                                     *)
(*                                                                         *)
(* A line is the write it comes from, however many bytes it has.  What an  *)
(* answer without any line falls back to, the files of versions before the *)
(* combined log, is left out.                                              *)
(***************************************************************************)
EXTENDS RotatingLog, SequencesExt

CONSTANT Lines   \* how many lines a page asks for

ASSUME LinesAssumption == Lines \in Nat \ {0}

VARIABLES
  dir,     \* the directory as it is now, and as it will be, up to disk
  reader   \* a request that reads the log

readingVars == <<vars, dir, reader>>

Nobody ==
  [kind   |-> "none",    \* "tail", "download", "stream"
   todo   |-> <<>>,      \* the files still to read
   got    |-> <<>>,      \* the lines read so far, or last sent
   last   |-> 0 - 1,     \* lastSize of a stream
   stayed |-> {},        \* history: lines in the log ever since it was listed
   moved  |-> FALSE,     \* history: a file that is read was renamed or emptied
   holes  |-> FALSE]     \* history: the numbers that were listed have a gap, or
                         \*   the byte budget of a file has kept lines out

ReadingInit == Init /\ dir = <<disk>> /\ reader = Nobody

------------------------------------------------------------------------------
(* The directory.                                                           *)

Now == dir[1]

FileOf(D, i) == IF D[i] = Missing THEN <<>> ELSE D[i]

(* A set of numbers from its least to its greatest.                         *)
Ascending(S) ==
  [n \in 1..Cardinality(S) |-> CHOOSE i \in S : Cardinality({j \in S : j <= i}) = n]

(* A line ends where the bytes of its write do.                             *)
LinesOf(file) ==
  LET ends == {i \in DOMAIN file : i = Len(file) \/ file[i + 1] # file[i]}
  IN  [n \in 1..Cardinality(ends) |-> file[Ascending(ends)[n]]]

Shown(D) == UNION {In(FileOf(D, i)) : i \in Files}

Archives == {i \in Files \ {0} : Now[i] # Missing}

(* What the step from D to E means for a reader under way.                  *)
Noticed(D, E) ==
  LET watched == IF reader.kind = "stream" THEN {0} ELSE Files
  IN [reader EXCEPT
        !.stayed = @ \cap Shown(E),
        !.moved  = @ \/ \E i \in watched : ~IsPrefix(FileOf(D, i), FileOf(E, i))]

(* s up to its first E.                                                     *)
Until(s, E) ==
  LET i == SelectInSeq(s, LAMBDA D : D = E)
  IN  (IF i = 0 THEN s ELSE SubSeq(s, 1, i - 1)) \o <<E>>

(* rotateLocked: the last archive goes, then the files move up one by one.  *)
Renames == [i \in 1..limits.backups + 1 |-> Shifted(limits.backups + 1 - i)]

(* PurgeLog empties app.log, then removes archive after archive.            *)
Removals ==
  [n \in 1..Top + 1 |-> [i \in Files |-> IF 0 < i /\ i < n THEN Missing ELSE Emptied[i]]]

Rotating ==
  \/ LaunchFails \/ (Launch /\ Content(0) # <<>>)
  \/ \E n \in Lengths : RotateAndWrite(n) \/ RotationFails(n)

InOneStep ==
  \/ Continue \/ (Launch /\ Content(0) = <<>>)
  \/ \E n \in Lengths : Write(n)
  \/ \E l \in Limits : SetLimits(l)
  \/ Truncate \/ ClearSystemLog
  \/ Close \/ Forget \/ Crash

(* Everything is read that is asked for.                                    *)
Answered == reader.kind \in {"tail", "download"} /\ reader.todo = <<>>

(* A call of the writer.  The next one waits for its mutex.  An answer no   *)
(* longer changes: it is given before anything else happens.                *)
Writer ==
  /\ Len(dir) = 1 /\ ~Answered
  /\ \/ InOneStep /\ dir' = <<disk'>>
     \/ Rotating  /\ dir' = IF disk' = disk THEN dir ELSE Until(Renames, disk')
     \/ ClearLogs /\ dir' = IF disk' = disk THEN dir ELSE Until(Removals, disk')
  /\ reader' = Noticed(Now, Now')

(* The call goes on to its next file.                                       *)
NextFile ==
  /\ Len(dir) > 1 /\ ~Answered
  /\ dir' = Tail(dir)
  /\ reader' = Noticed(Now, Now')
  /\ UNCHANGED vars

------------------------------------------------------------------------------
(* The requests.                                                            *)

(* Faulty variant: the archives are not sorted back.                        *)
ToReadUnsorted(kind) ==
  CASE kind = "tail"     -> <<0>> \o Reverse(Ascending(Archives))
    [] kind = "download" -> Ascending(Archives) \o <<0>>
    [] kind = "stream"   -> <<>>

(* The tail walks from the newest file to the oldest, the download back.    *)
ToRead(kind) ==
  CASE kind = "tail"     -> <<0>> \o Ascending(Archives)
    [] kind = "download" -> Reverse(Ascending(Archives)) \o <<0>>
    [] kind = "stream"   -> <<>>

(* taskLogArchivesNewestFirst: the request lists what there is to read.     *)
Begin(kind) ==
  /\ reader.kind = "none"
  /\ reader' = [Nobody EXCEPT
       !.kind   = kind,
       !.todo   = ToRead(kind),
       !.stayed = IF kind = "stream" THEN {} ELSE Shown(Now),
       !.holes  = kind = "tail" /\ \E i \in Archives : ~(1..i \subseteq Archives)]
  /\ UNCHANGED <<vars, dir>>

LastLines(s, n) == IF Len(s) > n THEN SubSeq(s, Len(s) - n + 1, Len(s)) ELSE s

Reading(kind) == reader.kind = kind /\ reader.todo # <<>>

(* tailBudget: as many of the lines as fit, which is all unless they are long.*)
Fitting(lines) == {LastLines(lines, n) : n \in 0..Len(lines)}

(* readTaskLogAllTail: the last lines of the next file that are still asked *)
(* for.                                                                     *)
ReadTail ==
  LET lines == LastLines(LinesOf(FileOf(Now, Head(reader.todo))), Lines - Len(reader.got))
  IN /\ Reading("tail")
     /\ \E fit \in Fitting(lines) :
          LET got == fit \o reader.got
          IN reader' = [reader EXCEPT
               !.got   = got,
               !.holes = @ \/ fit # lines,
               !.todo  = IF Len(got) >= Lines THEN <<>> ELSE Tail(@)]
     /\ UNCHANGED <<vars, dir>>

(* Faulty variant: a file is put in front of what was read, as in a tail.   *)
ReadWholeInFront ==
  /\ Reading("download")
  /\ reader' = [reader EXCEPT !.got = LinesOf(FileOf(Now, Head(reader.todo))) \o @,
                              !.todo = Tail(@)]
  /\ UNCHANGED <<vars, dir>>

(* readTaskLogAll: the next file as a whole.                                *)
ReadWhole ==
  /\ Reading("download")
  /\ reader' = [reader EXCEPT !.got = @ \o LinesOf(FileOf(Now, Head(reader.todo))),
                              !.todo = Tail(@)]
  /\ UNCHANGED <<vars, dir>>

(* The answer is given, or a read fails, or the browser leaves.             *)
Finish ==
  /\ reader.kind # "none"
  /\ reader' = Nobody
  /\ UNCHANGED <<vars, dir>>

(* Faulty variant: the size is taken after the tail has been read.          *)
StreamTickReadingFirst ==
  /\ reader.kind = "stream"
  /\ \/ /\ reader.todo = <<>> /\ Len(FileOf(Now, 0)) # reader.last
        /\ reader' = [reader EXCEPT !.got = LastLines(LinesOf(FileOf(Now, 0)), Lines),
                                    !.todo = <<0>>, !.moved = FALSE]
     \/ /\ reader.todo = <<0>>
        /\ reader' = [reader EXCEPT !.last = Len(FileOf(Now, 0)), !.todo = <<>>]
  /\ UNCHANGED <<vars, dir>>

(* handleGenericLogStream on a tick: the size, and when it has changed the  *)
(* tail of app.log, which need not have that size any more.                 *)
StreamTick ==
  /\ reader.kind = "stream"
  /\ \/ /\ reader.todo = <<>> /\ Len(FileOf(Now, 0)) # reader.last
        /\ reader' = [reader EXCEPT !.last = Len(FileOf(Now, 0)),
                                    !.todo = <<0>>, !.moved = FALSE]
     \/ /\ reader.todo = <<0>>
        /\ reader' = [reader EXCEPT !.got = LastLines(LinesOf(FileOf(Now, 0)), Lines),
                                    !.todo = <<>>]
  /\ UNCHANGED <<vars, dir>>

ReadingNext ==
  \/ Writer \/ NextFile
  \/ \E kind \in {"tail", "download", "stream"} : Begin(kind)
  \/ ReadTail \/ ReadWhole \/ Finish \/ StreamTick

ReadingSpec == ReadingInit /\ [][ReadingNext]_readingVars

------------------------------------------------------------------------------
(* Properties.                                                              *)

Got == ToSet(reader.got)

(* The tail over all archives has no hole: between the oldest and the newest*)
(* line it gives, no line is missing that was in the log all the time,      *)
(* although a rotation moves the files while it walks through them          *)
(* (server.go:847), unless the archives it listed had a gap or lines were   *)
(* beyond the budget of a file.                                             *)
TailWithoutHoles ==
  reader.kind = "tail" /\ ~reader.holes =>
    /\ \A w \in reader.stayed, u, v \in Got : u < w /\ w < v => w \in Got
    /\ Answered /\ ~reader.moved /\ Len(reader.got) < Lines => reader.stayed \subseteq Got

(* A download has the lines in the order of their writes and none twice,    *)
(* whatever is renamed meanwhile (server.go:884), and when nothing was, it  *)
(* has every one that was there.                                            *)
DownloadInOrder ==
  reader.kind = "download" =>
    /\ \A i, j \in DOMAIN reader.got : i < j => reader.got[i] < reader.got[j]
    /\ Answered /\ ~reader.moved => reader.stayed \subseteq Got

(* A stream that finds the size unchanged shows the log as it is, unless the*)
(* file was replaced or emptied since by one of the same size               *)
(* (server.go:646).                                                         *)
StreamCurrent ==
  reader.kind = "stream" /\ reader.todo = <<>> /\ reader.last = Len(FileOf(Now, 0))
    /\ ~reader.moved
      => reader.got = LastLines(LinesOf(FileOf(Now, 0)), Lines)
==============================================================================
