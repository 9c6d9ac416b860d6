------------------------------ MODULE ZipIndex ------------------------------
(***************************************************************************)
(* ZipArchive::create (src/archive/zip.rs): a first pass lays out local    *)
(* headers and data, a second the central directory, then the records that *)
(* end the archive; every piece is a segment.  Sizes and offsets that do   *)
(* not fit their 32-bit field leave a sentinel there and stand in a Zip64  *)
(* extension.  Also what the four write_* functions put into those fields, *)
(* and what a reader of the format makes of them.                          *)
(***************************************************************************)
EXTENDS Naturals, Sequences

CONSTANTS Item,      \* scanned entries: the length of the path, size, directory or not
          MaxItems,  \* bound on the entries of one scan
          U32_MAX,   \* the sentinels: 2^32 - 1 and 2^16 - 1, smaller in the
          U16_MAX    \* instances so that archives reach them

ASSUME ZipIndexAssumption ==
  /\ Item \subseteq [name : Nat, dir : BOOLEAN, size : Nat]
  /\ \A item \in Item : item.dir => item.size = 0
  /\ MaxItems \in Nat /\ U32_MAX \in Nat \ {0} /\ U16_MAX \in Nat

VARIABLES
  scanned,     \* scanned entries not laid out yet
  entries,     \* the entries laid out
  segments,    \* the pieces of the archive in the order of their offsets
  layout_pos,  \* pos of the first pass, cpos of the second
  listed,      \* entries the second pass has dealt with
  cd_offset,   \* where the central directory begins
  zip64,       \* needs_zip64_eocd
  total_size,
  index        \* "local", "central" or "ready"

indexVars ==
  <<scanned, entries, segments, layout_pos, listed, cd_offset, zip64, total_size, index>>

LOCAL_HEADER_FIXED == 30
CENTRAL_ENTRY_FIXED == 46
EOCD_FIXED == 22
ZIP64_EOCD_LEN == 56
ZIP64_LOCATOR_LEN == 20
ZIP64_EXTRA_HEADER == 4
ZIP64_LOCAL_DATA == 16

Entry == [name : Nat, dir : BOOLEAN, size : Nat,
          local_offset : Nat, local_header_len : Nat, local_zip64 : BOOLEAN,
          central_size_zip64 : BOOLEAN, central_offset_zip64 : BOOLEAN,
          central_offset : Nat, central_len : Nat]

SegmentKind == {"local", "data", "central", "zip64_eocd", "zip64_locator", "eocd"}
Segment == [start : Nat, len : Nat, kind : SegmentKind, entry : Nat]

Piece(start, len, kind, entry) == [start |-> start, len |-> len, kind |-> kind, entry |-> entry]

DataStart(e) == e.local_offset + e.local_header_len

-----------------------------------------------------------------------------
IndexInit ==
  /\ scanned \in UNION {[1..n -> Item] : n \in 0..MaxItems}
  /\ entries = <<>> /\ segments = <<>>
  /\ layout_pos = 0 /\ listed = 0 /\ cd_offset = 0 /\ total_size = 0
  /\ zip64 = FALSE
  /\ index = "local"

\* The extension of a local header names both sizes, so it is there or not.
Big(item) == ~ item.dir /\ item.size >= U32_MAX

LocalEntry(item) ==
  [name |-> item.name, dir |-> item.dir, size |-> item.size,
   local_offset |-> layout_pos,
   local_header_len |-> LOCAL_HEADER_FIXED + item.name
                        + (IF Big(item) THEN ZIP64_EXTRA_HEADER + ZIP64_LOCAL_DATA ELSE 0),
   local_zip64 |-> Big(item),
   central_size_zip64 |-> FALSE, central_offset_zip64 |-> FALSE,
   central_offset |-> 0, central_len |-> 0]

\* The first pass, with the segments the last loop makes of the entry: a file
\* without content and a directory have no data segment.
LayLocal ==
  /\ index = "local" /\ scanned # <<>>
  /\ LET e == LocalEntry(Head(scanned))
         k == Len(entries) + 1
         header == Piece(e.local_offset, e.local_header_len, "local", k)
         data == Piece(DataStart(e), e.size, "data", k)
     IN /\ entries' = Append(entries, e)
        /\ segments' = IF e.size > 0 THEN Append(Append(segments, header), data)
                                     ELSE Append(segments, header)
        /\ layout_pos' = DataStart(e) + e.size
  /\ scanned' = Tail(scanned)
  /\ UNCHANGED <<listed, cd_offset, zip64, total_size, index>>

StartCentral ==
  /\ index = "local" /\ scanned = <<>>
  /\ cd_offset' = layout_pos
  /\ index' = "central"
  /\ UNCHANGED <<scanned, entries, segments, layout_pos, listed, zip64, total_size>>

\* The extension is reserved for a large size only, not for a far offset.
CentralExtraSizeOnly(size64, offset64) ==
  IF size64 THEN ZIP64_EXTRA_HEADER + 16 ELSE 0

CentralExtra(size64, offset64) ==
  LET extra_data == (IF size64 THEN 16 ELSE 0) + (IF offset64 THEN 8 ELSE 0)
  IN IF extra_data > 0 THEN ZIP64_EXTRA_HEADER + extra_data ELSE 0

CentralFields(e) ==
  LET size64 == ~ e.dir /\ e.size >= U32_MAX
      offset64 == e.local_offset >= U32_MAX
  IN [e EXCEPT !.central_size_zip64 = size64, !.central_offset_zip64 = offset64,
               !.central_offset = layout_pos,
               !.central_len = CENTRAL_ENTRY_FIXED + e.name + CentralExtra(size64, offset64)]

\* The second pass.
LayCentral ==
  /\ index = "central" /\ listed < Len(entries)
  /\ LET k == listed + 1
         e == CentralFields(entries[k])
     IN /\ entries' = [entries EXCEPT ![k] = e]
        /\ segments' = Append(segments, Piece(e.central_offset, e.central_len, "central", k))
        /\ layout_pos' = layout_pos + e.central_len
        /\ listed' = k
  /\ UNCHANGED <<scanned, cd_offset, zip64, total_size, index>>

cd_size == layout_pos - cd_offset
zip64_eocd_offset == layout_pos

NeedsZip64EocdBySize == cd_size >= U32_MAX \/ cd_offset >= U32_MAX
NeedsZip64Eocd == Len(entries) > U16_MAX \/ cd_size >= U32_MAX \/ cd_offset >= U32_MAX

\* The records at the end and the total.
FinishIndex ==
  /\ index = "central" /\ listed = Len(entries)
  /\ zip64' = NeedsZip64Eocd
  /\ LET after == IF NeedsZip64Eocd THEN layout_pos + ZIP64_EOCD_LEN + ZIP64_LOCATOR_LEN
                                    ELSE layout_pos
         eocd64 == Piece(layout_pos, ZIP64_EOCD_LEN, "zip64_eocd", 0)
         locator == Piece(layout_pos + ZIP64_EOCD_LEN, ZIP64_LOCATOR_LEN, "zip64_locator", 0)
         before == IF NeedsZip64Eocd THEN Append(Append(segments, eocd64), locator) ELSE segments
     IN /\ segments' = Append(before, Piece(after, EOCD_FIXED, "eocd", 0))
        /\ total_size' = after + EOCD_FIXED
  /\ index' = "ready"
  /\ UNCHANGED <<scanned, entries, layout_pos, listed, cd_offset>>

IndexNext == LayLocal \/ StartCentral \/ LayCentral \/ FinishIndex

-----------------------------------------------------------------------------
(***************************************************************************)
(* The records: their numeric fields, their extension and their length.    *)
(***************************************************************************)
Lower(a, b) == IF a < b THEN a ELSE b
AsU32(n) == n % (U32_MAX + 1)

\* write_local_header
LocalHeader(e) ==
  [size |-> IF e.local_zip64 THEN U32_MAX ELSE AsU32(e.size),
   extra |-> IF e.local_zip64 THEN <<e.size, e.size>> ELSE <<>>,
   length |-> LOCAL_HEADER_FIXED + e.name
              + (IF e.local_zip64 THEN ZIP64_EXTRA_HEADER + ZIP64_LOCAL_DATA ELSE 0)]

\* write_central_entry: the extension holds the fields that have the sentinel,
\* the sizes before the offset, and is left out when it would be empty.
CentralEntry(e) ==
  LET sizes == IF e.central_size_zip64 THEN <<e.size, e.size>> ELSE <<>>
      offset == IF e.central_offset_zip64 THEN <<e.local_offset>> ELSE <<>>
      extra == sizes \o offset
  IN [size |-> IF e.central_size_zip64 THEN U32_MAX ELSE AsU32(e.size),
      offset |-> IF e.central_offset_zip64 THEN U32_MAX ELSE AsU32(e.local_offset),
      extra |-> extra,
      length |-> CENTRAL_ENTRY_FIXED + e.name
                 + (IF extra = <<>> THEN 0 ELSE ZIP64_EXTRA_HEADER + 8 * Len(extra))]

\* write_eocd
EndRecord == [count |-> Lower(Len(entries), U16_MAX),
              cd_size |-> Lower(cd_size, U32_MAX),
              cd_offset |-> Lower(cd_offset, U32_MAX)]

\* write_zip64_eocd and write_zip64_locator
EndRecord64 == [count |-> Len(entries), cd_size |-> cd_size, cd_offset |-> cd_offset]
Locator == [zip64_eocd |-> zip64_eocd_offset]

\* The length of what write_segment_into leaves in the scratch buffer.
WrittenLength(kind, k) ==
  CASE kind = "local" -> LocalHeader(entries[k]).length
    [] kind = "central" -> CentralEntry(entries[k]).length
    [] kind = "zip64_eocd" -> ZIP64_EOCD_LEN
    [] kind = "zip64_locator" -> ZIP64_LOCATOR_LEN
    [] OTHER -> EOCD_FIXED

-----------------------------------------------------------------------------
IndexTypeOK ==
  /\ scanned \in Seq(Item)
  /\ entries \in Seq(Entry)
  /\ segments \in Seq(Segment)
  /\ layout_pos \in Nat /\ listed \in 0..Len(entries)
  /\ cd_offset \in Nat /\ total_size \in Nat
  /\ zip64 \in BOOLEAN
  /\ index \in {"local", "central", "ready"}

(***************************************************************************)
(* The segments are in the order of their offsets, none is empty and they  *)
(* follow one another from the first byte to the last ("ascending by       *)
(* offset and contiguous", zip.rs:206), so that every position is in       *)
(* exactly one.                                                            *)
(***************************************************************************)
SegmentEnd(k) == segments[k].start + segments[k].len
Extent == IF index = "ready" THEN total_size ELSE layout_pos

Contiguous ==
  /\ segments # <<>> => segments[1].start = 0 /\ SegmentEnd(Len(segments)) = Extent
  /\ \A k \in 1..Len(segments) : segments[k].len > 0
  /\ \A k \in 1..Len(segments) : k < Len(segments) => SegmentEnd(k) = segments[k + 1].start

(***************************************************************************)
(* Each segment is as long as what write_segment_into will produce for it: *)
(* create and the write_* functions decide about extensions separately,    *)
(* and the reader takes a slice of the segment's length from what they     *)
(* wrote (the debug assertions at zip.rs:341 and 414; in a release build   *)
(* a shorter buffer is a panic, a longer one shifts the archive).          *)
(***************************************************************************)
LengthsAgree ==
  \A k \in 1..Len(segments) :
    segments[k].kind # "data" => segments[k].len = WrittenLength(segments[k].kind, segments[k].entry)

(***************************************************************************)
(* Reading the format back finds what create knew: a field that holds the  *)
(* sentinel is resolved by the extension of the same record, in the order  *)
(* the format prescribes, and any other field is the value itself.         *)
(***************************************************************************)
SizeRead(record) == IF record.size = U32_MAX THEN record.extra[1] ELSE record.size

OffsetRead(record) ==
  IF record.offset # U32_MAX THEN record.offset
  ELSE IF record.size = U32_MAX THEN record.extra[3] ELSE record.extra[1]

EndRead(field) == IF zip64 THEN EndRecord64[field] ELSE EndRecord[field]

Decodable ==
  index = "ready" =>
    /\ \A k \in 1..Len(entries) :
         /\ SizeRead(LocalHeader(entries[k])) = entries[k].size
         /\ SizeRead(CentralEntry(entries[k])) = entries[k].size
         /\ OffsetRead(CentralEntry(entries[k])) = entries[k].local_offset
    /\ EndRead("count") = Len(entries)
    /\ \A k \in 1..Len(segments) :
         /\ segments[k].kind = "zip64_eocd" => segments[k].start = Locator.zip64_eocd
         /\ segments[k].kind = "central" /\ segments[k].entry = 1 =>
              segments[k].start = EndRead("cd_offset")
         /\ segments[k].kind = (IF zip64 THEN "zip64_eocd" ELSE "eocd") =>
              segments[k].start = EndRead("cd_offset") + EndRead("cd_size")

(***************************************************************************)
(* A sentinel in the end record means "see the Zip64 extension"            *)
(* (zip.rs:46): then there has to be one.                                  *)
(***************************************************************************)
SentinelHasExtension ==
  index = "ready" =>
    (EndRecord.count = U16_MAX \/ EndRecord.cd_size = U32_MAX \/ EndRecord.cd_offset = U32_MAX
      => zip64)
=============================================================================
