------------------------------ MODULE TarIndex ------------------------------
(***************************************************************************)
(* TarArchive::create (src/archive/tar.rs): one pass over the scanned      *)
(* entries that lays the archive out - the header, the content and the     *)
(* padding of each entry, then the end-of-archive blocks - without reading *)
(* a byte of content.  Of a scanned entry the layout depends on the length *)
(* of its path and on its size.                                            *)
(***************************************************************************)
EXTENDS Naturals, Sequences

CONSTANTS Item,      \* scanned entries
          MaxItems   \* bound on the entries of one scan

ASSUME IndexAssumption ==
  /\ Item \subseteq [name : Nat, dir : BOOLEAN, size : Nat, legal : BOOLEAN]
  /\ MaxItems \in Nat

VARIABLES
  scanned,      \* scanned entries not laid out yet
  entries,      \* the entries laid out: offset, length of the header, size
  current_pos,  \* where the next entry may begin
  total_size,   \* the size of the archive, once it is known
  index         \* "building", "ready" or "failed"

indexVars == <<scanned, entries, current_pos, total_size, index>>

BLOCK_SIZE == 512
END_OF_ARCHIVE_BLOCKS == 2
NAME_FIELD == 100           \* the name field of a tar header

\* calculate_padding
Padding(n) == (BLOCK_SIZE - (n % BLOCK_SIZE)) % BLOCK_SIZE

\* align_to_boundary(n, BLOCK_SIZE)
Align(n) == IF n % BLOCK_SIZE = 0 THEN n ELSE n + (BLOCK_SIZE - (n % BLOCK_SIZE))

\* create_header: a path too long for the name field is preceded by a LongLink
\* header and by the path itself, null-terminated and padded.
HeaderLenUnterminated(name) ==
  IF name <= NAME_FIELD THEN BLOCK_SIZE ELSE 2 * BLOCK_SIZE + name + Padding(name + 1)

HeaderLen(name) ==
  IF name <= NAME_FIELD
  THEN BLOCK_SIZE
  ELSE BLOCK_SIZE + (name + 1 + Padding(name + 1)) + BLOCK_SIZE

Entry == [offset : Nat, header : Nat, size : Nat]

\* item_end: header and content, not the padding
ItemEnd(i) == entries[i].offset + entries[i].header + entries[i].size

-----------------------------------------------------------------------------
IndexInit ==
  /\ scanned \in UNION {[1..n -> Item] : n \in 0..MaxItems}
  /\ entries = <<>>
  /\ current_pos = 0 /\ total_size = 0
  /\ index = "building"

AddEntry ==
  LET item == Head(scanned)
      entry == [offset |-> Align(current_pos),
                header |-> HeaderLen(item.name),
                size   |-> IF item.dir THEN 0 ELSE item.size]
  IN /\ index = "building" /\ scanned # <<>>
     /\ item.legal \/ item.name > NAME_FIELD
     /\ entries' = Append(entries, entry)
     /\ current_pos' = entry.offset + entry.header + entry.size + Padding(entry.size)
     /\ scanned' = Tail(scanned)
     /\ UNCHANGED <<total_size, index>>

\* A path the header refuses ("..", say) makes create fail; when it is also too
\* long, the retry with a truncated path may or may not be refused.
RejectEntry ==
  /\ index = "building" /\ scanned # <<>>
  /\ ~ Head(scanned).legal
  /\ index' = "failed"
  /\ UNCHANGED <<scanned, entries, current_pos, total_size>>

FinishIndex ==
  /\ index = "building" /\ scanned = <<>>
  /\ total_size' = current_pos + END_OF_ARCHIVE_BLOCKS * BLOCK_SIZE
  /\ index' = "ready"
  /\ UNCHANGED <<scanned, entries, current_pos>>

IndexNext == AddEntry \/ RejectEntry \/ FinishIndex

-----------------------------------------------------------------------------
IndexTypeOK ==
  /\ scanned \in Seq(Item)
  /\ entries \in Seq(Entry)
  /\ current_pos \in Nat /\ total_size \in Nat
  /\ index \in {"building", "ready", "failed"}

(***************************************************************************)
(* The layout a tar reader relies on: entries follow one another without a *)
(* gap ("entries contiguous, without gaps", tar.rs:46), each begins and    *)
(* ends its padding on a block boundary, and the archive ends in two zero  *)
(* blocks after the last one.                                              *)
(***************************************************************************)
NextOffset(i) == IF i < Len(entries) THEN entries[i + 1].offset ELSE current_pos

Layout ==
  /\ IF Len(entries) = 0 THEN current_pos = 0 ELSE entries[1].offset = 0
  /\ \A i \in 1..Len(entries) :
       /\ entries[i].offset % BLOCK_SIZE = 0
       /\ entries[i].header % BLOCK_SIZE = 0 /\ entries[i].header > 0
       /\ NextOffset(i) = ItemEnd(i) + Padding(entries[i].size)
  /\ current_pos % BLOCK_SIZE = 0
  /\ index = "ready" => total_size = current_pos + 2 * BLOCK_SIZE
=============================================================================
