------------------------------- MODULE FileStore -------------------------------
(***************************************************************************)
(* The durable file backend of a validator (core/storage/file.go) under      *)
(* ApplyCommit: SaveCommit appends the commit to commits.jsonl, flushes it,  *)
(* and then replaces validator_state.json; OpenFileStore and                 *)
(* loadPersistedState read both back.  Any I/O call may fail, the process    *)
(* may stop at any point, and so may the machine, losing what is not         *)
(* flushed.                                                                  *)
(*                                                                           *)
(* The validators agree on one block per height (module Validator), so a     *)
(* commit record is its height, and the state file is the height it names.   *)
(***************************************************************************)
EXTENDS Integers, Sequences, FiniteSets

CONSTANTS
  MaxHeight,   \* bound on the heights that are committed
  MaxFaults    \* bound on failed calls, stops and power losses together

ASSUME FileStoreAssumption == MaxHeight \in Nat /\ MaxFaults \in Nat

VARIABLES
  log,         \* commits.jsonl as the operating system shows it
  disk,        \* commits.jsonl as far as it is flushed
  stateFile,   \* the height in validator_state.json, 0 without the file
  stateDisk,   \* the same, as far as the directory is flushed
  known,       \* the highest height in s.commits
  applied,     \* the height of the node: len(n.commits)
  acked,       \* the height up to which SaveCommit reported success
  pc,          \* the next step of the SaveCommit call in progress
  status,      \* of the validator's process
  faults       \* the faults so far

vars == << log, disk, stateFile, stateDisk, known, applied, acked, pc,
           status, faults >>

files == << log, disk, stateFile, stateDisk >>
process == << known, applied, acked, status >>

--------------------------------------------------------------------------------
(* The append-only log.                                                     *)

\* A line parses when it is whole; it is ended when its newline is there.
Line == [height : 1 .. MaxHeight, whole : BOOLEAN, ended : BOOLEAN]

\* What an append leaves when it writes everything, all but the newline, or less.
Written(h) == [height |-> h, whole |-> TRUE, ended |-> TRUE]
NoNewline(h) == [height |-> h, whole |-> TRUE, ended |-> FALSE]
Torn(h) == [height |-> h, whole |-> FALSE, ended |-> FALSE]

\* Bytes appended to a line without newline become part of that line, which then
\* holds more than one record and no longer parses.
appendJSONLine(f, line) ==
  IF f # << >> /\ ~ f[Len(f)].ended
  THEN [f EXCEPT ![Len(f)] = [line EXCEPT !.whole = FALSE]]
  ELSE Append(f, line)

--------------------------------------------------------------------------------
(* SaveCommit for the next height, under the node's mutex.                  *)

Fault == faults < MaxFaults /\ faults' = faults + 1

\* The call returns an error and the process goes on.
returnError == pc' = "idle" /\ Fault /\ UNCHANGED process

\* A height that an earlier, failed call already appended is not appended again.
BeginSave ==
  /\ status = "up"
  /\ pc = "idle"
  /\ applied < MaxHeight
  /\ pc' = IF applied + 1 <= known THEN "state" ELSE "append"
  /\ UNCHANGED << files, process, faults >>

WriteLine ==
  LET h == applied + 1 IN
  /\ pc = "append"
  /\ \/ /\ log' = appendJSONLine(log, Written(h))
        /\ pc' = "sync"
        /\ UNCHANGED << process, faults >>
     \/ /\ \E line \in {Torn(h), NoNewline(h)} :
             log' \in {log, appendJSONLine(log, line)}
        /\ returnError
  /\ UNCHANGED << disk, stateFile, stateDisk >>

SyncLog_NoFlush ==
  /\ pc = "sync"
  /\ \/ /\ known' = applied + 1
        /\ pc' = "state"
        /\ UNCHANGED << disk, applied, acked, status, faults >>
     \/ returnError /\ disk' = disk
  /\ UNCHANGED << log, stateFile, stateDisk >>

SyncLog ==
  /\ pc = "sync"
  /\ \/ /\ disk' = log
        /\ known' = applied + 1
        /\ pc' = "state"
        /\ UNCHANGED << applied, acked, status, faults >>
     \/ returnError /\ disk' = disk
  /\ UNCHANGED << log, stateFile, stateDisk >>

\* atomicWriteFile: the new file is flushed under a temporary name and renamed.
RenameState ==
  /\ pc = "state"
  /\ \/ /\ stateFile' = applied + 1
        /\ pc' = "syncDir"
        /\ UNCHANGED << process, faults >>
     \/ returnError /\ stateFile' = stateFile
  /\ UNCHANGED << log, disk, stateDisk >>

\* The directory is flushed, SaveCommit reports success and ApplyCommit goes on.
SyncDir ==
  /\ pc = "syncDir"
  /\ \/ /\ stateDisk' = stateFile
        /\ applied' = applied + 1
        /\ acked' = applied + 1
        /\ pc' = "idle"
        /\ UNCHANGED << known, status, faults >>
     \/ returnError /\ stateDisk' = stateDisk
  /\ UNCHANGED << log, disk, stateFile >>

--------------------------------------------------------------------------------
(* Stopping and starting.                                                   *)

stop ==
  /\ status = "up"
  /\ status' = "down"
  /\ pc' = "idle"
  /\ known' = 0
  /\ Fault
  /\ UNCHANGED << applied, acked >>

\* The process stops, and the files stay as they are.
Stop == stop /\ UNCHANGED files

\* The first k lines of the log, the last of them perhaps cut short.
Cut(k) ==
  LET f == SubSeq(log, 1, k) IN
  {f} \cup IF k = 0 THEN {}
           ELSE {[f EXCEPT ![k] = Torn(@.height)], [f EXCEPT ![k].ended = FALSE]}

\* The machine stops: of what is not flushed, any part may be lost.
PowerLoss ==
  /\ stop
  /\ log' \in {disk} \cup
       IF log = disk THEN {} ELSE UNION {Cut(k) : k \in Len(disk) + 1 .. Len(log)}
  /\ disk' = log'
  /\ stateFile' \in {stateFile, stateDisk}
  /\ stateDisk' = stateFile'

ReadableHeights == {log[i].height : i \in {j \in 1 .. Len(log) : log[j].whole}}

\* The highest commit that ListCommits returns.
Loaded == Cardinality(ReadableHeights)

\* load and loadPersistedState succeed: every line parses, the heights have no gap,
\* and the state file, if there is one, names the last of them.
Loads ==
  /\ \A i \in 1 .. Len(log) : log[i].whole
  /\ ReadableHeights = 1 .. Loaded
  /\ stateFile \in {0, Loaded}

OpenFileStore ==
  /\ status = "down"
  /\ Loads
  /\ status' = "up"
  /\ applied' = Loaded
  /\ known' = Loaded
  /\ UNCHANGED << files, acked, pc, faults >>

\* NewNode returns the error, and would again: nothing else touches the files.
RefuseStart ==
  /\ status = "down"
  /\ ~ Loads
  /\ status' = "refused"
  /\ UNCHANGED << files, known, applied, acked, pc, faults >>

--------------------------------------------------------------------------------
Init ==
  /\ log = << >> /\ disk = << >>
  /\ stateFile = 0 /\ stateDisk = 0
  /\ known = 0 /\ applied = 0 /\ acked = 0
  /\ pc = "idle"
  /\ status = "up"
  /\ faults = 0

Next ==
  \/ BeginSave
  \/ WriteLine
  \/ SyncLog
  \/ RenameState
  \/ SyncDir
  \/ Stop
  \/ PowerLoss
  \/ OpenFileStore
  \/ RefuseStart

Spec == Init /\ [][Next]_vars

--------------------------------------------------------------------------------
(* Properties.                                                              *)

\* The files hold lines and heights, and a SaveCommit call is in progress only in a
\* running process.
TypeOK ==
  /\ log \in Seq(Line) /\ disk \in Seq(Line)
  /\ stateFile \in 0 .. MaxHeight /\ stateDisk \in 0 .. MaxHeight
  /\ known \in 0 .. MaxHeight /\ applied \in 0 .. MaxHeight
  /\ acked \in 0 .. MaxHeight
  /\ pc \in {"idle", "append", "sync", "state", "syncDir"}
  /\ status \in {"up", "down", "refused"}
  /\ faults \in 0 .. MaxFaults
  /\ status # "up" => pc = "idle"

\* "Commit records and idempotency entries are flushed before the corresponding
\* operation reports success": once SaveCommit has, the state file and a line for
\* the commit are on disk, and only a log with a damaged line may fail to show it.
FlushedBeforeSuccess ==
  /\ stateDisk >= acked
  /\ \/ \E i \in 1 .. Len(disk) : ~ disk[i].whole
     \/ \A h \in 1 .. acked : \E i \in 1 .. Len(disk) : disk[i].height = h

\* What a start would read back holds every commit that SaveCommit reported as saved,
\* and nothing but the commits of the node and the one it was saving: a start
\* refuses the files (load, loadPersistedState) or loses no such commit.
NoSilentLoss == Loads => acked <= Loaded /\ Loaded <= applied + 1

\* SaveCommit, load, loadPersistedState: a commit that was reported as saved is
\* flushed, and a start refuses the files or loses no such commit.
SavedStays == TypeOK /\ FlushedBeforeSuccess /\ NoSilentLoss

\* "Recovered validators reload durable state": a validator that stopped can start.
RecoveredReloads == status = "down" => Loads

================================================================================
