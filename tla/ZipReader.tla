----------------------------- MODULE ZipReader ------------------------------
(***************************************************************************)
(* ZipRangeReader (src/archive/zip.rs): several requests read ranges of    *)
(* one archive at the same time, each with a reader of its own, turn by    *)
(* turn of the loop of read_into_buffer.  They share the archive and with  *)
(* it the cell of each entry that holds its CRC-32 once some reader has    *)
(* needed a header of the entry and has read the file for it.  Files may   *)
(* change at any time.                                                     *)
(***************************************************************************)
EXTENDS ZipIndex

CONSTANTS Reader,      \* the requests
          RangePoints, \* where the ranges asked for begin and end
          BufSizes,    \* sizes of the buffer read is given
          ShortReads,  \* counts a read of a file may fall short to
          CrcEnabled,  \* the feature zip-crc32
          CrcBuffer,   \* size of the buffer compute_crc32 reads with
          NewSizes,    \* sizes changed files get
          MaxChanges,  \* bound on changes of files
          IoErrors     \* whether opening and reading files may fail

ASSUME ReaderAssumption ==
  /\ RangePoints \subseteq Nat /\ BufSizes \subseteq Nat \ {0}
  /\ ShortReads \subseteq Nat \ {0} /\ NewSizes \subseteq Nat
  /\ CrcBuffer \in Nat \ {0} /\ MaxChanges \in Nat
  /\ CrcEnabled \in BOOLEAN /\ IoErrors \in BOOLEAN

VARIABLES
  rd,        \* the state of each reader
  crc,       \* the cell of each entry
  file,      \* the file behind each entry: its length now and its version
  disturbed, \* whether a file has changed or an I/O error has happened
  sent       \* the CRCs that went out in headers of each entry

readerVars == <<rd, crc, file, disturbed, sent>>
vars == <<indexVars, readerVars>>

Run == [kind : SegmentKind, entry : Nat, from : Nat, at : Nat, count : Nat]

State ==
  [start : Nat, end : Nat, buf : Nat \ {0},
   current_pos : Nat,              \* what finished calls have delivered up to
   pos : Nat, written : Nat,       \* of the call in progress
   run : Run,                      \* what the last turn of its loop produced
   status : {"none", "idle", "loop", "crc", "ended", "failed"}]

\* A cell: empty, being computed (bytes read so far, versions seen), or a result.
Cell == [state : {"empty", "busy", "ok", "error"}, total : Nat, seen : SUBSET Nat]

NoCell == [state |-> "empty", total |-> 0, seen |-> {}]

Set(r, s) == rd' = [rd EXCEPT ![r] = s]

More(s) == s.written < s.buf /\ s.pos < s.end /\ s.pos < total_size

PartitionPointStrict(p) ==
  CHOOSE c \in 0..Len(segments) :
    \A k \in 1..Len(segments) : segments[k].start < p <=> k <= c

\* find_segment: the last segment that begins at or before p, if p is in it, else 0.
PartitionPoint(p) ==
  CHOOSE c \in 0..Len(segments) :
    \A k \in 1..Len(segments) : segments[k].start <= p <=> k <= c

FindSegment(p) ==
  LET c == PartitionPoint(p) IN IF c # 0 /\ p < SegmentEnd(c) THEN c ELSE 0

WantAcrossSegments(s, segment) == Lower(s.buf - s.written, s.end - s.pos)
WantAcrossEnd(s, segment) ==
  Lower(s.buf - s.written, segment.len - (s.pos - segment.start))

\* want: the rest of the buffer, of the segment and of the range.
Want(s, segment) ==
  Lower(s.buf - s.written, Lower(segment.len - (s.pos - segment.start), s.end - s.pos))

\* Headers that hold a CRC are those of files.
HoldsCrc(segment) ==
  segment.kind \in {"local", "central"} /\ ~ entries[segment.entry].dir

NeedsCrc(segment) == CrcEnabled /\ HoldsCrc(segment)

-----------------------------------------------------------------------------
Init ==
  /\ IndexInit
  /\ rd = [r \in Reader |->
             [start |-> 0, end |-> 0, buf |-> 1, current_pos |-> 0, pos |-> 0, written |-> 0,
              run |-> [kind |-> "eocd", entry |-> 0, from |-> 0, at |-> 0, count |-> 0],
              status |-> "none"]]
  /\ crc = <<>> /\ file = <<>> /\ sent = <<>>
  /\ disturbed = FALSE

\* create has laid the archive out; from here on requests share it.
Publish ==
  /\ FinishIndex
  /\ crc' = [i \in 1..Len(entries) |-> NoCell]
  /\ file' = [i \in 1..Len(entries) |-> [len |-> entries[i].size, version |-> 0]]
  /\ sent' = [i \in 1..Len(entries) |-> {}]
  /\ UNCHANGED <<rd, disturbed>>

Build == \/ (LayLocal \/ StartCentral \/ LayCentral) /\ UNCHANGED readerVars
         \/ Publish

\* stream_range, with a range that parse_range_header has clipped to the size.
Open(r) ==
  /\ index = "ready" /\ rd[r].status = "none"
  /\ \E s, e \in {p \in RangePoints : p <= total_size} \cup {total_size}, b \in BufSizes :
       /\ s < e
       /\ Set(r, [rd[r] EXCEPT !.start = s, !.end = e, !.buf = b, !.current_pos = s,
                               !.pos = s, !.status = "idle"])
  /\ UNCHANGED <<indexVars, crc, file, disturbed, sent>>

\* read is called: Ok(0) at the end of the range, otherwise into the loop.
CallAtEnd(r) ==
  /\ rd[r].status = "idle"
  /\ rd[r].current_pos >= rd[r].end \/ rd[r].current_pos >= total_size
  /\ Set(r, [rd[r] EXCEPT !.status = "ended"])
  /\ UNCHANGED <<indexVars, crc, file, disturbed, sent>>

Call(r) ==
  /\ rd[r].status = "idle"
  /\ rd[r].current_pos < rd[r].end /\ rd[r].current_pos < total_size
  /\ Set(r, [rd[r] EXCEPT !.pos = rd[r].current_pos, !.written = 0, !.status = "loop"])
  /\ UNCHANGED <<indexVars, crc, file, disturbed, sent>>

\* A call that did not fill the buffer is taken for the last.
ReturnShortIsEnd(r) ==
  /\ rd[r].status = "loop" /\ ~ More(rd[r])
  /\ Set(r, [rd[r] EXCEPT !.current_pos = rd[r].pos,
                          !.status = IF rd[r].written < rd[r].buf THEN "ended" ELSE "idle"])
  /\ UNCHANGED <<indexVars, crc, file, disturbed, sent>>

\* The loop is over: read returns Ok(written), and only now current_pos moves.
Return(r) ==
  /\ rd[r].status = "loop" /\ ~ More(rd[r])
  /\ Set(r, [rd[r] EXCEPT !.current_pos = rd[r].pos,
                          !.status = IF rd[r].written = 0 THEN "ended" ELSE "idle"])
  /\ UNCHANGED <<indexVars, crc, file, disturbed, sent>>

\* An error leaves the call: what it had written is lost, current_pos stays.
Fail(r) == Set(r, [rd[r] EXCEPT !.status = "failed"])

\* No segment is found ("cannot locate offset"); no step takes it.
Unlocated(r) == rd[r].status = "loop" /\ More(rd[r]) /\ FindSegment(rd[r].pos) = 0

-----------------------------------------------------------------------------
\* A turn of the loop that has found the segment it is in.
InSegment(r, k) == /\ rd[r].status = "loop" /\ More(rd[r])
                   /\ k = FindSegment(rd[r].pos) /\ k # 0

Produce(r, segment, n) ==
  LET s == rd[r] IN
  Set(r, [s EXCEPT !.pos = s.pos + n, !.written = s.written + n,
                   !.run = [kind |-> segment.kind, entry |-> segment.entry, from |-> s.pos,
                            at |-> s.pos - segment.start, count |-> n]])

\* write_segment_into, when no CRC is needed or it is known: a slice of the record.
CopyRecord(r) ==
  LET k == FindSegment(rd[r].pos)
      segment == segments[k]
      i == segment.entry
  IN /\ InSegment(r, k) /\ segment.kind # "data"
     /\ NeedsCrc(segment) => crc[i].state = "ok"
     /\ Produce(r, segment, Want(rd[r], segment))
     /\ sent' = IF NeedsCrc(segment) THEN [sent EXCEPT ![i] = @ \cup {crc[i]}] ELSE sent
     /\ UNCHANGED <<indexVars, crc, file, disturbed>>

\* The cell holds an error: it is every later reader's error too.
RecordFails(r) ==
  LET segment == segments[FindSegment(rd[r].pos)] IN
  /\ InSegment(r, FindSegment(rd[r].pos))
  /\ NeedsCrc(segment) /\ crc[segment.entry].state = "error"
  /\ Fail(r)
  /\ UNCHANGED <<indexVars, crc, file, disturbed, sent>>

\* Without the cell every reader computes for itself.
StartCrcTwice(r) ==
  LET segment == segments[FindSegment(rd[r].pos)] IN
  /\ InSegment(r, FindSegment(rd[r].pos))
  /\ NeedsCrc(segment) /\ crc[segment.entry].state # "busy"
  /\ Set(r, [rd[r] EXCEPT !.status = "crc"])
  /\ crc' = [crc EXCEPT ![segment.entry] = [NoCell EXCEPT !.state = "busy"]]
  /\ UNCHANGED <<indexVars, file, disturbed, sent>>

\* get_or_init: one reader computes, and the others wait (a cell that is "busy"
\* enables none of the actions above).
StartCrc(r) ==
  LET segment == segments[FindSegment(rd[r].pos)] IN
  /\ InSegment(r, FindSegment(rd[r].pos))
  /\ NeedsCrc(segment) /\ crc[segment.entry].state = "empty"
  /\ Set(r, [rd[r] EXCEPT !.status = "crc"])
  /\ crc' = [crc EXCEPT ![segment.entry] = [NoCell EXCEPT !.state = "busy"]]
  /\ UNCHANGED <<indexVars, file, disturbed, sent>>

CrcEntry(r) == segments[FindSegment(rd[r].pos)].entry

\* compute_crc32 reads a buffer at a time, up to what the file holds then.
ReadForCrc(r) ==
  LET i == CrcEntry(r) IN
  /\ rd[r].status = "crc" /\ crc[i].total < file[i].len
  /\ crc' = [crc EXCEPT ![i].total = @ + Lower(CrcBuffer, file[i].len - @),
                        ![i].seen = @ \cup {file[i].version}]
  /\ UNCHANGED <<indexVars, rd, file, disturbed, sent>>

\* Without get_or_init an error would leave no result, for waiters or for itself.
FinishCrcUnset(r) ==
  LET i == CrcEntry(r) IN
  /\ rd[r].status = "crc" /\ file[i].len <= crc[i].total
  /\ IF crc[i].total = entries[i].size
     THEN crc' = [crc EXCEPT ![i].state = "ok"] /\ Set(r, [rd[r] EXCEPT !.status = "loop"])
     ELSE UNCHANGED crc /\ Fail(r)
  /\ UNCHANGED <<indexVars, file, disturbed, sent>>

\* An error is not kept: whoever needs the CRC next computes again.
FinishCrcAgain(r) ==
  LET i == CrcEntry(r) IN
  /\ rd[r].status = "crc" /\ file[i].len <= crc[i].total
  /\ crc' = [crc EXCEPT ![i].state = IF crc[i].total = entries[i].size THEN "ok" ELSE "empty"]
  /\ Set(r, [rd[r] EXCEPT !.status = "loop"])
  /\ UNCHANGED <<indexVars, file, disturbed, sent>>

\* At the end of the file: a total that differs from the indexed size is an error.
FinishCrc(r) ==
  LET i == CrcEntry(r) IN
  /\ rd[r].status = "crc" /\ file[i].len <= crc[i].total
  /\ crc' = [crc EXCEPT ![i].state = IF crc[i].total = entries[i].size THEN "ok" ELSE "error"]
  /\ Set(r, [rd[r] EXCEPT !.status = "loop"])
  /\ UNCHANGED <<indexVars, file, disturbed, sent>>

\* The file cannot be opened or read; the error stays in the cell.
CrcFails(r) ==
  /\ IoErrors /\ rd[r].status = "crc"
  /\ crc' = [crc EXCEPT ![CrcEntry(r)].state = "error"]
  /\ Set(r, [rd[r] EXCEPT !.status = "loop"])
  /\ disturbed' = TRUE
  /\ UNCHANGED <<indexVars, file, sent>>

\* read_at: as many bytes as are asked for and there, or fewer.
CopyData(r) ==
  LET k == FindSegment(rd[r].pos)
      segment == segments[k]
      at == rd[r].pos - segment.start
      there == file[segment.entry].len
      most == Lower(Want(rd[r], segment), there - at)
  IN /\ InSegment(r, k) /\ segment.kind = "data"
     /\ at < there
     /\ \E n \in {most} \cup {m \in ShortReads : m < most} : Produce(r, segment, n)
     /\ UNCHANGED <<indexVars, crc, file, disturbed, sent>>

\* read_at answers 0 where the file has been cut: UnexpectedEof.
DataEnds(r) ==
  LET k == FindSegment(rd[r].pos) IN
  /\ InSegment(r, k) /\ segments[k].kind = "data"
  /\ file[segments[k].entry].len <= rd[r].pos - segments[k].start
  /\ Fail(r)
  /\ UNCHANGED <<indexVars, crc, file, disturbed, sent>>

DataFails(r) ==
  LET k == FindSegment(rd[r].pos) IN
  /\ IoErrors
  /\ InSegment(r, k) /\ segments[k].kind = "data"
  /\ Fail(r)
  /\ disturbed' = TRUE
  /\ UNCHANGED <<indexVars, crc, file, sent>>

\* Somebody writes a file, cuts it or makes it longer.
Change ==
  /\ index = "ready"
  /\ \E i \in 1..Len(entries), n \in NewSizes :
       /\ ~ entries[i].dir
       /\ file[i].version < MaxChanges
       /\ file' = [file EXCEPT ![i] = [len |-> n, version |-> file[i].version + 1]]
  /\ disturbed' = TRUE
  /\ UNCHANGED <<indexVars, rd, crc, sent>>

Turn(r) == \/ CopyRecord(r) \/ RecordFails(r)
           \/ StartCrc(r) \/ ReadForCrc(r) \/ FinishCrc(r) \/ CrcFails(r)
           \/ CopyData(r) \/ DataEnds(r) \/ DataFails(r)

Step(r) == CallAtEnd(r) \/ Call(r) \/ Turn(r) \/ Return(r)

Next == \/ Build
        \/ \E r \in Reader : Open(r) \/ Step(r)
        \/ Change

\* The blocking thread runs create and a call of read to its end, and the stream
\* body calls read until it ends.
Fairness == WF_vars(Build) /\ \A r \in Reader : WF_vars(Step(r))

Spec == Init /\ [][Next]_vars /\ Fairness

-----------------------------------------------------------------------------
TypeOK ==
  /\ IndexTypeOK
  /\ rd \in [Reader -> State]
  /\ disturbed \in BOOLEAN
  /\ index = "ready" =>
       /\ crc \in [1..Len(entries) -> Cell]
       /\ file \in [1..Len(entries) -> [len : Nat, version : Nat]]
       /\ sent \in [1..Len(entries) -> SUBSET Cell]

(***************************************************************************)
(* Every byte is the byte of the layout: a run lies within the piece of    *)
(* the archive that create laid out for it (told from the entries, not     *)
(* from the segments) and is taken from the matching place of it.          *)
(***************************************************************************)
Begins(kind, i) ==
  CASE kind = "local" -> entries[i].local_offset
    [] kind = "data" -> DataStart(entries[i])
    [] kind = "central" -> entries[i].central_offset
    [] kind = "zip64_eocd" -> zip64_eocd_offset
    [] kind = "zip64_locator" -> zip64_eocd_offset + ZIP64_EOCD_LEN
    [] OTHER -> total_size - EOCD_FIXED

PieceLength(kind, i) == IF kind = "data" THEN entries[i].size ELSE WrittenLength(kind, i)

Faithful(run) ==
  /\ run.from = Begins(run.kind, run.entry) + run.at
  /\ run.at + run.count <= PieceLength(run.kind, run.entry)

BytesFaithful ==
  \A r \in Reader : rd[r].status = "loop" /\ rd[r].written > 0 => Faithful(rd[r].run)

(***************************************************************************)
(* A call neither skips nor repeats a byte, whatever turns its loop took,  *)
(* and stays within the buffer and the range (beyond either is a panic in  *)
(* the blocking thread).                                                   *)
(***************************************************************************)
CallExact ==
  \A r \in Reader : LET s == rd[r] IN
    s.status \in {"loop", "crc"} =>
      /\ s.pos = s.current_pos + s.written
      /\ s.written <= s.buf /\ s.pos <= s.end /\ s.end <= total_size
      /\ s.written > 0 => s.run.from + s.run.count = s.pos

(***************************************************************************)
(* All headers of an entry, local and central, in all responses, carry the *)
(* same CRC-32, and it is that of as many bytes as the headers announce    *)
(* ("computed and cached when a header is first needed", zip.rs:12), even  *)
(* when the file changes while one reader computes and others wait.        *)
(***************************************************************************)
CrcAgrees ==
  index = "ready" =>
    \A i \in 1..Len(entries) :
      \A c \in sent[i] : c.total = entries[i].size /\ \A d \in sent[i] : c = d

(***************************************************************************)
(* As long as no file has changed and no I/O error has happened, no        *)
(* request fails: none of the reader's own checks (the search for the      *)
(* segment, the size of what the CRC was computed of, the read of 0 bytes) *)
(* ever goes off by itself.                                                *)
(***************************************************************************)
IntactServed ==
  ~ disturbed => \A r \in Reader : rd[r].status # "failed" /\ ~ Unlocated(r)

(***************************************************************************)
(* Nobody waits in vain: a cell is busy as long as one reader computes it, *)
(* and no longer, whatever becomes of the computation.                     *)
(***************************************************************************)
BusyHasReader ==
  index = "ready" =>
    \A i \in 1..Len(entries) :
      crc[i].state = "busy" <=> \E r \in Reader : rd[r].status = "crc" /\ CrcEntry(r) = i

(***************************************************************************)
(* No call, no turn and no read of a file for a CRC is for nothing: what a *)
(* reader has left to deliver becomes less with every step of its own, or  *)
(* what it has left to read first does.  Each byte to deliver is worth the *)
(* three steps it can cost (the call, the turn and the return).            *)
(***************************************************************************)
ToDeliver(r) ==
  LET s == rd[r] IN
  CASE s.status = "idle" -> 3 * (s.end - s.current_pos) + 1
    [] s.status \in {"loop", "crc"} -> 3 * (s.end - s.pos) + (IF s.written = 0 THEN 0 ELSE 2)
    [] OTHER -> 0

MustCompute(r) ==
  LET k == FindSegment(rd[r].pos) IN
  InSegment(r, k) /\ NeedsCrc(segments[k]) /\ crc[segments[k].entry].state = "empty"

ToRead(r) ==
  LET i == CrcEntry(r) IN
  CASE rd[r].status = "crc" -> 1 + (IF crc[i].total < file[i].len THEN file[i].len - crc[i].total ELSE 0)
    [] MustCompute(r) -> 2 + file[i].len
    [] OTHER -> 0

EveryStepCounts ==
  [][\A r \in Reader : Step(r) =>
       \/ ToDeliver(r)' < ToDeliver(r)
       \/ ToDeliver(r)' = ToDeliver(r) /\ ToRead(r)' < ToRead(r)]_vars

\* Every read comes to an end, whatever happens to the files and whoever else
\* is computing the CRC it waits for.
StreamEnds == \A r \in Reader : rd[r].status = "idle" ~> rd[r].status \in {"ended", "failed"}

\* Each reader implements RangeReader: what it has delivered is what finished
\* calls have returned, and a call in progress is not visible.
Range(r) == INSTANCE RangeReader WITH
  first <- rd[r].start, last <- rd[r].end, at <- rd[r].current_pos,
  status <- CASE rd[r].status = "none" -> "closed"
              [] rd[r].status \in {"idle", "loop", "crc"} -> "open"
              [] rd[r].status = "ended" -> "ended"
              [] OTHER -> "failed"

RangeStep(r) == Range(r)!Next \/ UNCHANGED Range(r)!rangeVars

ImplementsRangeReader ==
  (\A r \in Reader : Range(r)!Init) /\ [][\A r \in Reader : RangeStep(r)]_rd
=============================================================================
