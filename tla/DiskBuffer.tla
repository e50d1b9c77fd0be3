----------------------------- MODULE DiskBuffer -----------------------------
(***************************************************************************)
(* buffer/disk.go: a queue of lines kept in numbered segment files, with   *)
(* counters in memory that are rebuilt from the files at startup.  Every   *)
(* method runs under b.mu, so only a crash comes between the steps of one; *)
(* ReadAll removes its files one by one and is modelled that way.  The     *)
(* process reads line after line and offers each to Write once; main calls *)
(* Replay before anything else.                                            *)
(***************************************************************************)
EXTENDS Integers, SequencesExt

CONSTANTS
  NumLines,         \* lines offered to Write
  Bytes,            \* the size of each line with its newline
  MaxSegmentBytes,  \* 10 MB in the code
  MaxBytes,         \* max_disk_bytes; 0: no limit
  Overlong,         \* lines of more than the 64 KB a bufio.Scanner takes
  Failing,          \* the file operations that may fail
  MaxFaults,        \* bound on calls in which one fails
  MaxRestarts       \* bound on restarts

Lines == 1 .. NumLines

(* What is read where parts of lines, or a part and a whole line, stand    *)
(* together without a newline: a line nobody wrote, or one that is too     *)
(* long for the scanner.                                                   *)
Garbled == 0
TooLong == -1
Elements == Lines \union {Garbled, TooLong}
Unreadable == Overlong \union {TooLong}

(* "start": os.MkdirAll; "list": filepath.Glob sees an empty directory, as *)
(* it keeps the error of reading one to itself; "stat" and "scan": os.Stat *)
(* and os.Open or the reading of a segment in NewDiskBuffer; "create":     *)
(* os.Create; "write": nothing is written, "torn": a part of the line is;  *)
(* "read": os.Open or the reading of a segment in ReadAll; "remove".       *)
FileOperations ==
  {"start", "list", "stat", "scan", "create", "write", "torn", "read", "remove"}

ASSUME SizesAssumption ==
  /\ NumLines \in Nat
  /\ Bytes \in [Lines -> Nat \ {0}]
  /\ MaxSegmentBytes \in Nat \ {0}
  /\ MaxBytes \in Nat
  /\ Overlong \subseteq Lines
  /\ Failing \subseteq FileOperations
  /\ MaxFaults \in Nat
  /\ MaxRestarts \in Nat

NoFile == -1
NoRest == -2

VARIABLES
  segments,      \* the directory: segment number -> file
  currentFile,   \* the segment open for appending, or NoFile
  currentBytes,  \* the buffer's account of the bytes on disk
  segmentCounter,
  lineCount,
  mode,          \* "down", "replay", "ready" or, in ReadAll, "removing"
  todo,          \* the segments ReadAll has still to remove
  taken,         \* the lines it is going to return
  handed,        \* the lines returned so far
  next,          \* the next line of the input
  accepted,      \* the lines Write returned nil for
  cut,           \* the lines of which a failing Write left a part
  faults,
  failed,        \* the file operations that have failed so far
  restarts

counters == <<currentBytes, segmentCounter, lineCount>>
reading == <<todo, taken, handed>>
inputs == <<next, accepted, cut>>
bounds == <<faults, failed, restarts>>
vars == <<segments, currentFile, counters, mode, reading, inputs, bounds>>

(* A file: its lines, what follows the last newline, and its size.         *)
Files == [lines : Seq(Elements), rest : Elements \union {NoRest}, size : Nat]
EmptyFile == [lines |-> <<>>, rest |-> NoRest, size |-> 0]

TypeOK ==
  /\ DOMAIN segments \subseteq Nat
  /\ \A n \in DOMAIN segments : segments[n] \in Files
  /\ currentFile \in DOMAIN segments \union {NoFile}
  /\ currentBytes \in Nat
  /\ segmentCounter \in Nat
  /\ lineCount \in Nat
  /\ mode \in {"down", "replay", "ready", "removing"}
  /\ todo \subseteq DOMAIN segments
  /\ taken \in Seq(Elements)
  /\ handed \in Seq(Elements)
  /\ next \in 1 .. NumLines + 1
  /\ accepted \subseteq Lines
  /\ cut \subseteq Lines
  /\ faults \in 0 .. MaxFaults
  /\ failed \subseteq Failing
  /\ restarts \in 0 .. MaxRestarts

Init ==
  /\ segments = <<>>
  /\ currentFile = NoFile
  /\ currentBytes = 0
  /\ segmentCounter = 0
  /\ lineCount = 0
  /\ mode = "down"
  /\ todo = {}
  /\ taken = <<>>
  /\ handed = <<>>
  /\ next = 1
  /\ accepted = {}
  /\ cut = {}
  /\ faults = 0
  /\ failed = {}
  /\ restarts = 0

-----------------------------------------------------------------------------
(* Operations of these kinds fail, in one call.                            *)
Fault(kinds) ==
  /\ kinds \subseteq Failing
  /\ faults < MaxFaults
  /\ faults' = faults + 1
  /\ failed' = failed \union kinds
  /\ UNCHANGED restarts

(* What a scanner returns for a file: the last line needs no newline.      *)
Scanned(file) ==
  IF file.rest = NoRest THEN file.lines ELSE Append(file.lines, file.rest)

(* What the scanner makes of e when it follows a rest.                     *)
Joined(rest, e) ==
  IF rest = NoRest THEN {e}
  ELSE {TooLong} \union IF {rest, e} \cap Unreadable = {} THEN {Garbled} ELSE {}

(* The sequences f[n], n \in S, one after the other in the order of n.     *)
Concatenated(f, S) ==
  MapThenFoldSet(LAMBDA ls, rest : ls \o rest, <<>>, LAMBDA n : f[n], Min, S)

(* The files in the order of listSegments: the zero-padded names sort like *)
(* the numbers up to segment 999999.                                       *)
Contents == [n \in DOMAIN segments |-> Scanned(segments[n])]
StoredLines == Concatenated(Contents, DOMAIN segments)

Sizes == [n \in DOMAIN segments |-> segments[n].size]
StoredBytes == SumFunctionOnSet(Sizes, DOMAIN segments)

(* Where the scanner stops with an error in segment n, 0: it does not.     *)
FirstOverlong(n) == SelectInSeq(Contents[n], LAMBDA e : e \in Unreadable)

(* The lines NewDiskBuffer counts: scanning stops at an overlong line.     *)
Counted(n) == IF FirstOverlong(n) = 0 THEN Len(Contents[n]) ELSE FirstOverlong(n) - 1

Counts == [n \in DOMAIN segments |-> Counted(n)]

(* slip: the size of what is found is not counted                          *)
NothingFound(S) == 0

BytesFound(S) == SumFunctionOnSet(Sizes, S)

LinesFound(S) == SumFunctionOnSet(Counts, S)

(* slip: the number of segments serves as the next number                  *)
SegmentsFound == Cardinality(DOMAIN segments)

(* The counter must not lead to a file that exists: crashes in the middle  *)
(* of a ReadAll leave the last segments.  The names are those openSegment  *)
(* gives: disk.go:78-80, for names without a number, is left out.          *)
NextSegment == IF DOMAIN segments = {} THEN 0 ELSE Max(DOMAIN segments) + 1

(* slip: the closed file is still taken for the current one                *)
CurrentKept == UNCHANGED currentFile

CurrentClosed == currentFile' = NoFile

(* slip: the count of lines is not reset                                   *)
ResetSizes ==
  /\ currentBytes' = 0
  /\ segmentCounter' = 0
  /\ UNCHANGED lineCount

Reset ==
  /\ currentBytes' = 0
  /\ lineCount' = 0
  /\ segmentCounter' = 0

-----------------------------------------------------------------------------
(* NewDiskBuffer.  A segment that os.Stat fails for is skipped; one that   *)
(* cannot be opened, or read to its end, counts with the lines read of it. *)
Skipped(sized) ==
  (IF sized # DOMAIN segments THEN {"stat"} ELSE {}) \union
  (IF lineCount' # LinesFound(sized) THEN {"scan"} ELSE {})

Open ==
  /\ mode = "down"
  /\ mode' = "replay"
  /\ \E sized \in SUBSET DOMAIN segments :
       /\ currentBytes' = BytesFound(sized)
       /\ lineCount' \in 0 .. LinesFound(sized)
       /\ \/ Skipped(sized) = {} /\ UNCHANGED bounds
          \/ Skipped(sized) # {} /\ Fault(Skipped(sized))
  /\ segmentCounter' = NextSegment
  /\ UNCHANGED <<segments, currentFile, reading, inputs>>

(* The directory looks empty.                                              *)
OpenUnlisted ==
  /\ mode = "down"
  /\ Fault({"list"})
  /\ mode' = "replay"
  /\ Reset
  /\ UNCHANGED <<segments, currentFile, reading, inputs>>

(* The error of NewDiskBuffer ends the start (main.go:167).                *)
OpenFails ==
  /\ mode = "down"
  /\ Fault({"start"})
  /\ UNCHANGED <<segments, currentFile, counters, mode, reading, inputs>>

(* A Stat that fails makes the code rotate as well, which is what a Close  *)
(* before the Write does.                                                  *)
NeedsRotation(n) ==
  currentBytes > 0 /\ segments[currentFile].size + n > MaxSegmentBytes

(* The file l goes to, as it is before the write: os.Create truncates a    *)
(* file that has the name already.                                         *)
NewSegment(l) == currentFile # NoFile => NeedsRotation(Bytes[l])
Target(l) == IF NewSegment(l) THEN segmentCounter ELSE currentFile
TargetFile(l) == IF NewSegment(l) THEN EmptyFile ELSE segments[currentFile]

(* slip: the line to write is not counted                                  *)
FullLate(l) == MaxBytes > 0 /\ currentBytes >= MaxBytes

Full(l) == MaxBytes > 0 /\ currentBytes + Bytes[l] > MaxBytes

(* slip: the counter stays at a number already used                        *)
WriteToSameNumber(l, file) ==
  /\ segments' = [n \in DOMAIN segments \union {Target(l)} |->
                    IF n = Target(l) THEN file ELSE segments[n]]
  /\ currentFile' = Target(l)
  /\ UNCHANGED segmentCounter

WriteTo(l, file) ==
  /\ segments' = [n \in DOMAIN segments \union {Target(l)} |->
                    IF n = Target(l) THEN file ELSE segments[n]]
  /\ currentFile' = Target(l)
  /\ segmentCounter' = IF NewSegment(l) THEN segmentCounter + 1 ELSE segmentCounter

(* The line e, with its newline, ends the file.                            *)
Grown(file, e, l) ==
  [lines |-> Append(file.lines, e), rest |-> NoRest, size |-> file.size + Bytes[l]]

(* The first n bytes of l, read as e with what was left before, end it.    *)
Torn(file, e, n) == [lines |-> file.lines, rest |-> e, size |-> file.size + n]

Accept(l) ==
  /\ ~Full(l)
  /\ \E e \in Joined(TargetFile(l).rest, l) : WriteTo(l, Grown(TargetFile(l), e, l))
  /\ currentBytes' = currentBytes + Bytes[l]
  /\ lineCount' = lineCount + 1
  /\ accepted' = accepted \union {l}
  /\ UNCHANGED <<cut, bounds>>

CreateError(l) ==
  /\ NewSegment(l)
  /\ Fault({"create"})
  /\ currentFile' = NoFile
  /\ UNCHANGED <<segments, segmentCounter, cut>>

(* What the first n bytes of l are: without its newline a line reads like  *)
(* the whole one at the end of the file.                                   *)
Part(l, n) ==
  IF n = Bytes[l] - 1 THEN {l}
  ELSE {Garbled} \union IF l \in Overlong THEN {TooLong} ELSE {}

TornWrite(l) ==
  /\ Fault({"torn"})
  /\ \E n \in 1 .. Bytes[l] - 1 : \E part \in Part(l, n) :
       \E e \in Joined(TargetFile(l).rest, part) : WriteTo(l, Torn(TargetFile(l), e, n))
  /\ cut' = cut \union {l}

(* slip: an error is reported for a line that has been written             *)
WriteErrorTooLate(l) ==
  /\ ~Full(l)
  /\ Fault({"write"})
  /\ WriteTo(l, Grown(TargetFile(l), l, l))
  /\ UNCHANGED <<currentBytes, lineCount, accepted, cut>>

(* The segment cannot be created, or nothing or a part of the line is      *)
(* written.                                                                *)
WriteError(l) ==
  /\ ~Full(l)
  /\ \/ CreateError(l)
     \/ Fault({"write"}) /\ WriteTo(l, TargetFile(l)) /\ UNCHANGED cut
     \/ TornWrite(l)
  /\ UNCHANGED <<currentBytes, lineCount, accepted>>

Refuse(l) ==
  /\ Full(l)
  /\ UNCHANGED <<segments, currentFile, counters, accepted, cut, bounds>>

Write ==
  /\ mode = "ready"
  /\ next <= NumLines
  /\ next' = next + 1
  /\ Accept(next) \/ WriteError(next) \/ Refuse(next)
  /\ UNCHANGED <<mode, reading>>

-----------------------------------------------------------------------------
(* ReadAll, and Replay, which is the same.  The file open for appending is *)
(* closed whether the reading succeeds or not.                             *)
Reading == mode \in {"replay", "ready"}

ReadNothing ==
  /\ Reading
  /\ \/ DOMAIN segments = {} /\ UNCHANGED bounds
     \/ DOMAIN segments # {} /\ Fault({"list"})
  /\ CurrentClosed
  /\ mode' = "ready"
  /\ UNCHANGED <<segments, counters, reading, inputs>>

ReadError ==
  /\ Reading
  /\ DOMAIN segments # {}
  /\ \/ Fault({"read"})
     \/ (\E n \in DOMAIN segments : FirstOverlong(n) > 0) /\ UNCHANGED bounds
  /\ CurrentClosed
  /\ mode' = "ready"
  /\ UNCHANGED <<segments, counters, reading, inputs>>

ReadSegments ==
  /\ Reading
  /\ DOMAIN segments # {}
  /\ \A n \in DOMAIN segments : FirstOverlong(n) = 0
  /\ CurrentClosed
  /\ mode' = "removing"
  /\ todo' = DOMAIN segments
  /\ taken' = StoredLines
  /\ UNCHANGED <<segments, counters, handed, inputs, bounds>>

(* The error of os.Remove is ignored.                                      *)
RemoveSegment ==
  /\ mode = "removing"
  /\ todo # {}
  /\ \/ /\ segments' = Restrict(segments, DOMAIN segments \ {Min(todo)})
        /\ UNCHANGED bounds
     \/ Fault({"remove"}) /\ UNCHANGED segments
  /\ todo' = todo \ {Min(todo)}
  /\ UNCHANGED <<currentFile, counters, mode, taken, handed, inputs>>

Return ==
  /\ mode = "removing"
  /\ todo = {}
  /\ mode' = "ready"
  /\ handed' = handed \o taken
  /\ taken' = <<>>
  /\ Reset
  /\ UNCHANGED <<segments, currentFile, todo, inputs, bounds>>

(* Close, at shutdown: main may go on writing until the process exits.     *)
Close ==
  /\ mode = "ready"
  /\ CurrentClosed
  /\ UNCHANGED <<segments, counters, mode, reading, inputs, bounds>>

(* The process exits or is killed; the files stay as they are.             *)
Crash ==
  /\ mode # "down"
  /\ restarts < MaxRestarts
  /\ restarts' = restarts + 1
  /\ mode' = "down"
  /\ currentFile' = NoFile
  /\ todo' = {}
  /\ taken' = <<>>
  /\ UNCHANGED <<segments, counters, handed, inputs, faults, failed>>

ReadAll == ReadNothing \/ ReadError \/ ReadSegments \/ RemoveSegment \/ Return

Next == Open \/ OpenUnlisted \/ OpenFails \/ Write \/ ReadAll \/ Close \/ Crash

Spec == Init /\ [][Next]_vars

(* The flush loop calls ReadAll at every interval.                         *)
FairSpec == Spec /\ WF_vars(Open) /\ WF_vars(ReadAll)

-----------------------------------------------------------------------------
(* While ReadAll removes the files the lines are still in the queue: they  *)
(* leave it when it returns, or some of them are lost when it never does.  *)
Queue == INSTANCE LineQueue WITH
  queue <- IF mode = "removing" THEN taken ELSE StoredLines

(* The files, through rotation, failed writes, crashes in the middle of a  *)
(* ReadAll, restarts and replays, are one queue in the order of the writes *)
(* (Write, ReadAll, NewDiskBuffer; the segment counter must never point at *)
(* a file that exists, disk.go:69).                                        *)
ImplementsQueue == Queue!Spec

(* The byte account of the quota never claims bytes that are not there; it *)
(* is the size of the files until a write leaves a part of a line, a file  *)
(* is not removed, or a restart cannot see or size one: every other        *)
(* failure, and a crash in the middle of a ReadAll, leaves it exact.       *)
SizeTracked ==
  mode \in {"replay", "ready"} =>
    /\ currentBytes <= StoredBytes
    /\ {"torn", "remove", "list", "stat"} \cap failed = {} => currentBytes = StoredBytes

(* Len, by which main decides to flush, never exceeds the lines stored (a  *)
(* full batch is there when it says so), and is their number until one of  *)
(* these failures, or of reading a file at the start, or as long as no     *)
(* line is too long to be read again.                                      *)
LenTracked ==
  mode \in {"replay", "ready"} =>
    /\ lineCount <= Len(StoredLines)
    /\ (/\ {"torn", "remove", "list", "stat", "scan"} \cap failed = {}
        /\ ToSet(StoredLines) \cap Unreadable = {}) => lineCount = Len(StoredLines)

(* The files never take more than max_disk_bytes (README.md:126) until one *)
(* of the failures that let the account fall short of them.                *)
WithinLimit ==
  MaxBytes > 0 /\ {"torn", "remove", "list", "stat"} \cap failed = {} =>
    StoredBytes <= MaxBytes

(* A line whose Write refused it or reported an error, and which main      *)
(* counted as not processed, comes out only when that Write was cut short  *)
(* in the middle of the line, never when it was refused for the quota,     *)
(* when no segment could be created or nothing was written.                *)
RefusedStayOut ==
  (ToSet(StoredLines) \union ToSet(handed)) \cap Lines \subseteq accepted \union cut

(* Lines that Write accepted and that are nowhere any more.                *)
Missing ==
  accepted \ (ToSet(StoredLines) \union ToSet(taken) \union ToSet(handed))

(* While the process lives a failing file operation costs at most one      *)
(* accepted line (the one that is appended to the rest of a torn write);   *)
(* a segment that could not be removed costs none when it is overwritten.  *)
DamageBounded == restarts = 0 => Cardinality(Missing) <= faults

(* "ReadAll drains the buffer and returns all stored lines" (buffer.go:18, *)
(* disk.go:114): a stored line is returned by some ReadAll to come, unless *)
(* the process ends; after the restart the same holds of what is left.     *)
Drains ==
  \A l \in Lines : l \in ToSet(StoredLines) ~> l \in ToSet(handed) \/ mode = "down"

=============================================================================
