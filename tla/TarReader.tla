----------------------------- MODULE TarReader ------------------------------
(***************************************************************************)
(* RangeStreamWriter (src/archive/tar.rs): reading a range of the archive  *)
(* TarIndex laid out, call by call of read_into_buffer and, within a call, *)
(* turn by turn of its loop.  The reader keeps a handle of the file it has *)
(* read last (FileHandleCache, src/cache/file_handle.rs).  Files may be    *)
(* replaced and cut short while they are read, and the source itself may   *)
(* become a file or a directory, which the reader asks anew at every turn. *)
(***************************************************************************)
EXTENDS TarIndex

CONSTANTS RangePoints, \* where the ranges asked for begin and end
          BufSizes,    \* sizes of the buffer read is given
          ShortReads,  \* counts a read of a file may fall short to
          CutTo,       \* sizes files may be cut to while they are read
          NewSizes,    \* sizes of the files that replace others
          MaxReplaced  \* bound on replacements: none once a file is of this version

ASSUME ReaderAssumption ==
  RangePoints \subseteq Nat /\ BufSizes \subseteq Nat \ {0}
  /\ ShortReads \subseteq Nat \ {0} /\ CutTo \subseteq Nat
  /\ NewSizes \subseteq Nat /\ MaxReplaced \in Nat

VARIABLES
  start, end, buf, \* the range and the buffer's size
  reader_pos,      \* current_pos of the reader: what finished calls delivered
  cursor,          \* the entry the last position was found in
  pos, written,    \* read_into_buffer's position and bytes_written
  reader,          \* "none", "idle", "loop", "ended", "failed"
  run,             \* the bytes the last turn of the loop produced
  source_is_file,  \* what source_path is now: a file, or else a directory
  file,            \* what each path names, when the source has it: a version, its length
  handle,          \* the file kept open and the path it was opened by, or 0
  seen             \* the versions each entry's content has been read from, since
                   \* the source has been what it is

callVars == <<pos, written, run, cursor>>
rangeOf == <<start, end, buf>>
fileVars == <<source_is_file, file, handle, seen>>
readerVars == <<rangeOf, reader_pos, callVars, reader, fileVars>>
vars == <<indexVars, readerVars>>

Least(a, b) == IF a < b THEN a ELSE b

HeaderEnd(i) == entries[i].offset + entries[i].header
Within(i, p) == entries[i].offset <= p /\ p < ItemEnd(i)

\* partition_point: the last entry whose offset is at most p, 0 if none is.
CandidateStrict(p) ==
  CHOOSE c \in 0..Len(entries) :
    \A i \in 1..Len(entries) : entries[i].offset < p <=> i <= c

Candidate(p) ==
  CHOOSE c \in 0..Len(entries) :
    \A i \in 1..Len(entries) : entries[i].offset <= p <=> i <= c

\* locate: the entry p falls in, or 0 in padding and the end-of-archive blocks.
Locate(p) ==
  IF Len(entries) > 0 /\ Within(cursor, p) THEN cursor
  ELSE LET c == Candidate(p) IN IF c # 0 /\ p < ItemEnd(c) THEN c ELSE 0

More == written < buf /\ pos < end /\ pos < total_size

\* What fits: the rest of the buffer and of the range.
RoomUnbounded == buf - written
Room == Least(buf - written, end - pos)

\* How many zeros a turn fills in: to the block boundary, or, on a boundary
\* (then pos is in the end-of-archive blocks), as many as fit.
ZerosToBoundary == Least(Padding(pos), Least(Room, total_size - pos))

Zeros == LET limit == Least(Room, total_size - pos)
             padding == Padding(pos)
         IN IF padding = 0 THEN limit ELSE Least(padding, limit)

\* A file that has been opened; one whose path names another by now is as it was.
File == [version : Nat, len : Nat]
Handle == [path : Nat, file : File]

\* The paths files are read by: an entry's below the source directory, which is
\* its number here, or the source itself.
SourcePath == Len(entries) + 1
Paths == 1..SourcePath
PathOf(i) == IF source_is_file THEN SourcePath ELSE i

\* The handle read_at reads through: the one it has, if that is of the same path.
OpenedAnew(i) == [path |-> PathOf(i), file |-> file[PathOf(i)]]
Opened(i) ==
  IF handle.path = PathOf(i) THEN handle ELSE [path |-> PathOf(i), file |-> file[PathOf(i)]]

-----------------------------------------------------------------------------
Init ==
  /\ IndexInit
  /\ start = 0 /\ end = 0 /\ buf = 1
  /\ reader_pos = 0 /\ cursor = 1 /\ pos = 0 /\ written = 0
  /\ reader = "none"
  /\ run = [kind |-> "zero", from |-> 0, count |-> 0, entry |-> 0, at |-> 0]
  /\ source_is_file = FALSE /\ file = <<>> /\ seen = <<>>
  /\ handle = [path |-> 0, file |-> [version |-> 0, len |-> 0]]

\* stream_range, with a range that parse_range_header has clipped to the size.
\* The archive may be older than what is at the path of its source by now.
Open ==
  /\ index = "ready" /\ reader = "none"
  /\ \E s, e \in {p \in RangePoints : p <= total_size} \cup {total_size} :
       s < e /\ start' = s /\ end' = e /\ reader_pos' = s /\ pos' = s
  /\ buf' \in BufSizes
  /\ cursor' = 1
  /\ reader' = "idle"
  /\ source_is_file' \in BOOLEAN
  /\ \E n \in NewSizes :
       file' = [p \in Paths |-> [version |-> 0, len |-> IF p = SourcePath THEN n ELSE entries[p].size]]
  /\ seen' = [i \in 1..Len(entries) |-> {}]
  /\ UNCHANGED <<indexVars, written, run, handle>>

\* read is called: Ok(0) at the end of the range, otherwise into the loop.
CallAtEnd ==
  /\ reader = "idle"
  /\ reader_pos >= end \/ reader_pos >= total_size
  /\ reader' = "ended"
  /\ UNCHANGED <<indexVars, rangeOf, reader_pos, callVars, fileVars>>

Call ==
  /\ reader = "idle"
  /\ reader_pos < end /\ reader_pos < total_size
  /\ pos' = reader_pos /\ written' = 0
  /\ reader' = "loop"
  /\ UNCHANGED <<indexVars, rangeOf, reader_pos, cursor, run, fileVars>>

\* One turn of the loop produces n bytes from the given source.
Produce(kind, i, at, n) ==
  /\ run' = [kind |-> kind, from |-> pos, count |-> n, entry |-> i, at |-> at]
  /\ pos' = pos + n /\ written' = written + n
  /\ UNCHANGED <<indexVars, rangeOf, reader_pos, reader, source_is_file, file>>

FillZeros ==
  /\ reader = "loop" /\ More /\ Locate(pos) = 0
  /\ Produce("zero", 0, 0, Zeros)
  /\ UNCHANGED <<cursor, handle, seen>>

CopyHeader ==
  LET i == Locate(pos) IN
  /\ reader = "loop" /\ More /\ i # 0
  /\ pos < HeaderEnd(i)
  /\ cursor' = i
  /\ Produce("header", i, pos - entries[i].offset, Least(HeaderEnd(i) - pos, Room))
  /\ UNCHANGED <<handle, seen>>

InContent(i) == /\ reader = "loop" /\ More /\ i # 0
                /\ HeaderEnd(i) <= pos /\ pos < ItemEnd(i)

\* read_at: as many bytes as are asked for and there, or fewer.
CopyContent ==
  LET i == Locate(pos)
      at == pos - HeaderEnd(i)
      asked == Least(Room, ItemEnd(i) - pos)
      there == Opened(i).file.len
      most == Least(asked, there - at)
  IN /\ InContent(i)
     /\ at < there
     /\ cursor' = i
     /\ handle' = Opened(i)
     /\ seen' = [seen EXCEPT ![i] = @ \cup {Opened(i).file.version}]
     /\ \E n \in {most} \cup {k \in ShortReads : k < most} : Produce("content", i, at, n)

\* read_at answers 0 at the end of a file cut short: the loop turns in vain.
ReadNothing ==
  LET i == Locate(pos) IN
  /\ InContent(i)
  /\ pos - HeaderEnd(i) >= Opened(i).file.len
  /\ cursor' = i
  /\ handle' = Opened(i)
  /\ UNCHANGED <<indexVars, rangeOf, reader_pos, pos, written, run, reader, source_is_file, file,
                 seen>>

\* The file is not there, or cannot be opened or read; current_pos of the reader
\* stays behind.
ContentFails ==
  LET i == Locate(pos) IN
  /\ InContent(i)
  /\ cursor' = i
  /\ reader' = "failed"
  /\ handle' \in {handle, Opened(i)}
  /\ UNCHANGED <<indexVars, rangeOf, reader_pos, pos, written, run, source_is_file, file, seen>>

\* The branch for a position in the entry but in neither of its parts returns an
\* error; no step takes it, see NeverUnexpected.
Unexpected ==
  LET i == Locate(pos) IN
  /\ reader = "loop" /\ More /\ i # 0
  /\ ~ (entries[i].offset <= pos /\ pos < HeaderEnd(i))
  /\ ~ (HeaderEnd(i) <= pos /\ pos < ItemEnd(i))

\* The loop is over: read returns Ok(written), which is the end if it is Ok(0).
Return ==
  /\ reader = "loop" /\ ~ More
  /\ reader_pos' = pos
  /\ reader' = IF written = 0 THEN "ended" ELSE "idle"
  /\ UNCHANGED <<indexVars, rangeOf, callVars, fileVars>>

\* Somebody cuts a file short, which a handle of it sees.
Cut ==
  /\ reader \in {"idle", "loop"}
  /\ \E i \in 1..Len(entries), n \in CutTo :
       LET p == PathOf(i) IN
       /\ n < file[p].len
       /\ file' = [file EXCEPT ![p].len = n]
       /\ handle' = IF handle.path = p /\ handle.file.version = file[p].version
                    THEN [handle EXCEPT !.file = file'[p]] ELSE handle
  /\ UNCHANGED <<indexVars, rangeOf, reader_pos, callVars, reader, source_is_file, seen>>

\* Somebody moves another file to a path; a handle keeps the old one.
Replace ==
  /\ reader \in {"idle", "loop"}
  /\ \A q \in Paths : file[q].version < MaxReplaced
  /\ \E i \in 1..Len(entries), n \in NewSizes :
       LET p == PathOf(i) IN
       file' = [file EXCEPT ![p] = [version |-> file[p].version + 1, len |-> n]]
  /\ UNCHANGED <<indexVars, rangeOf, reader_pos, callVars, reader, source_is_file, handle, seen>>

\* Somebody puts a file in the place of the source directory, or a directory, the
\* old one or another, in the place of the file.
Reshape ==
  /\ reader \in {"idle", "loop"}
  /\ source_is_file' = ~ source_is_file
  /\ seen' = [i \in DOMAIN seen |-> {}]
  /\ UNCHANGED <<indexVars, rangeOf, reader_pos, callVars, reader, file, handle>>

Turn == FillZeros \/ CopyHeader \/ CopyContent \/ ReadNothing \/ ContentFails

Step == CallAtEnd \/ Call \/ Turn \/ Return

Next == \/ IndexNext /\ UNCHANGED readerVars
        \/ Open
        \/ Step
        \/ Cut \/ Replace \/ Reshape

\* The blocking thread runs create and the loop of a call to their ends, and
\* the stream body calls read until it ends.
Fairness == WF_vars(IndexNext /\ UNCHANGED readerVars) /\ WF_vars(Step)

Spec == Init /\ [][Next]_vars /\ Fairness

-----------------------------------------------------------------------------
TypeOK ==
  /\ IndexTypeOK
  /\ start \in Nat /\ end \in Nat /\ buf \in Nat \ {0}
  /\ reader_pos \in Nat /\ pos \in Nat /\ written \in Nat
  /\ cursor \in Nat \ {0} /\ (Len(entries) > 0 => cursor <= Len(entries))
  /\ reader \in {"none", "idle", "loop", "ended", "failed"}
  /\ run \in [kind : {"zero", "header", "content"}, from : Nat, count : Nat,
              entry : Nat, at : Nat]
  /\ handle \in Handle /\ source_is_file \in BOOLEAN
  /\ reader # "none" =>
       /\ index = "ready"
       /\ file \in [Paths -> File] /\ seen \in [1..Len(entries) -> SUBSET Nat]

(***************************************************************************)
(* Every byte is the byte of the layout: a run of header or content bytes  *)
(* lies within that part of that entry and is taken from the matching      *)
(* place of it, and a run of zeros touches no entry.  locate's cursor, its *)
(* binary search and the padding arithmetic all have to agree for this.    *)
(***************************************************************************)
Faithful(r) ==
  \/ /\ r.kind = "header"
     /\ r.at = r.from - entries[r.entry].offset /\ r.from >= entries[r.entry].offset
     /\ r.from + r.count <= HeaderEnd(r.entry)
  \/ /\ r.kind = "content"
     /\ r.at = r.from - HeaderEnd(r.entry) /\ r.from >= HeaderEnd(r.entry)
     /\ r.from + r.count <= ItemEnd(r.entry)
  \/ /\ r.kind = "zero"
     /\ \A i \in 1..Len(entries) : r.from + r.count <= entries[i].offset \/ ItemEnd(i) <= r.from

BytesFaithful == reader = "loop" /\ written > 0 => Faithful(run)

(***************************************************************************)
(* A call neither skips nor repeats a byte, whatever turns its loop took,  *)
(* and stays within the buffer and the range (an index beyond either would *)
(* be a panic in the blocking thread).                                     *)
(***************************************************************************)
CallExact ==
  reader = "loop" =>
    /\ pos = reader_pos + written
    /\ written <= buf /\ pos <= end /\ end <= total_size
    /\ written > 0 => run.from + run.count = pos

\* The error branch of the loop ("Unexpected position") is never taken: locate
\* and the tests for header and content agree on where an entry is.
NeverUnexpected == ~ Unexpected

(***************************************************************************)
(* While the source stays a directory, or a file, the content a response   *)
(* has of an entry is of one version of one file, though files are         *)
(* replaced (by a rename) while they are read: the handle outlives the     *)
(* replacement as long as the reader is in that entry, and it never comes  *)
(* back to it.  Only when the source itself becomes a file, or a directory *)
(* again, does the entry go on from the file of another path.              *)
(***************************************************************************)
OneVersionPerEntry == \A i \in DOMAIN seen : \A v, w \in seen[i] : v = w

\* While no file is shorter than its entry, the stream of a range comes to an end.
Uncut == \A i \in DOMAIN seen : Opened(i).file.len >= entries[i].size

StreamEnds == reader = "idle" /\ Uncut ~> reader \in {"ended", "failed"} \/ ~ Uncut

(***************************************************************************)
(* Why it does: no call and no turn is for nothing.  Each byte is worth    *)
(* the three steps it can cost (the call, the turn and the return), so     *)
(* that every step of the reader leaves less than there was, except at the *)
(* end of a file that has been cut, where the loop would turn for ever.    *)
(***************************************************************************)
Remaining == CASE reader = "idle" -> 3 * (end - reader_pos) + 1
               [] reader = "loop" -> 3 * (end - pos) + (IF written = 0 THEN 0 ELSE 2)
               [] OTHER -> 0

EveryStepCounts == [][Step => Remaining' < Remaining \/ ~ Uncut]_vars

\* The reader implements RangeReader: what it has delivered is what finished
\* calls have returned, and a call in progress is not visible.
Range == INSTANCE RangeReader WITH
  first <- start, last <- end, at <- reader_pos,
  status <- CASE reader = "none" -> "closed"
              [] reader \in {"idle", "loop"} -> "open"
              [] reader = "ended" -> "ended"
              [] OTHER -> "failed"

ImplementsRangeReader == Range!Spec
=============================================================================
