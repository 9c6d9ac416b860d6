----------------------------- MODULE TarProofs ------------------------------
(***************************************************************************)
(* The tar layout and its reader for every scan, every range, every buffer *)
(* and every way files are cut short or replaced: the layout has no gap, a *)
(* reader delivers exactly the bytes of the layout, of one version of each *)
(* file, and it implements RangeReader.                                    *)
(***************************************************************************)
EXTENDS TarReader, WellFoundedInduction, TLAPS

-----------------------------------------------------------------------------
(***************************************************************************)
(* Arithmetic of blocks.                                                   *)
(***************************************************************************)
LEMMA PaddingCompletes ==
  ASSUME NEW n \in Nat
  PROVE  /\ Padding(n) \in 0..511 /\ Padding(n) \in Nat
         /\ (n + Padding(n)) % BLOCK_SIZE = 0
         /\ Padding(n) = 0 <=> n % BLOCK_SIZE = 0
<1>1. n % 512 \in 0..511
  OBVIOUS
<1>2. CASE n % 512 = 0
  BY <1>2 DEF Padding, BLOCK_SIZE
<1>3. CASE n % 512 # 0
  <2>1. Padding(n) = 512 - (n % 512)
    BY <1>1, <1>3 DEF Padding, BLOCK_SIZE
  <2> QED BY <1>1, <1>3, <2>1 DEF BLOCK_SIZE
<1> QED BY <1>2, <1>3

LEMMA HeaderBlocks ==
  ASSUME NEW n \in Nat
  PROVE  HeaderLen(n) \in Nat /\ HeaderLen(n) > 0 /\ HeaderLen(n) % BLOCK_SIZE = 0
<1> DEFINE m == n + 1
           p == Padding(m)
<1>1. m \in Nat
  OBVIOUS
<1>2. p \in 0..511 /\ (m + p) % BLOCK_SIZE = 0
  BY <1>1, PaddingCompletes
<1>3. HeaderLen(n) = IF n <= 100 THEN 512 ELSE 512 + (m + p) + 512
  BY DEF HeaderLen, BLOCK_SIZE, NAME_FIELD
<1> HIDE DEF m, p
<1>4. 512 + (m + p) + 512 \in Nat /\ (512 + (m + p) + 512) % 512 = 0
  BY <1>1, <1>2 DEF BLOCK_SIZE
<1> QED BY <1>1, <1>2, <1>3, <1>4 DEF BLOCK_SIZE

\* Padding the content of an entry that begins on a boundary, after a header of
\* whole blocks, leads to a boundary.
LEMMA EntryBlocks ==
  ASSUME NEW offset \in Nat, NEW header \in Nat, NEW size \in Nat,
         offset % BLOCK_SIZE = 0, header % BLOCK_SIZE = 0
  PROVE  (offset + header + size + Padding(size)) % BLOCK_SIZE = 0
<1> DEFINE p == Padding(size)
<1>1. p \in 0..511 /\ (size + p) % BLOCK_SIZE = 0
  BY PaddingCompletes
<1> HIDE DEF p
<1>2. (offset + header + size + p) % 512 = 0
  BY <1>1 DEF BLOCK_SIZE
<1> QED BY <1>2 DEF p, BLOCK_SIZE

\* Between a position less than a block away from a boundary and that boundary
\* there is just the padding of the position.
LEMMA PaddingReaches ==
  ASSUME NEW b \in Nat, NEW at \in Nat,
         b % BLOCK_SIZE = 0, at < b, b - at < BLOCK_SIZE
  PROVE  Padding(at) # 0 /\ at + Padding(at) = b
<1> DEFINE p == Padding(at)
<1>1. p \in 0..511 /\ (at + p) % BLOCK_SIZE = 0
  BY PaddingCompletes
<1> HIDE DEF p
<1>2. p # 0 /\ at + p = b
  BY <1>1 DEF BLOCK_SIZE
<1> QED BY <1>2 DEF p

-----------------------------------------------------------------------------
(***************************************************************************)
(* The layout.  That neighbours meet does not by itself order entries that *)
(* are far apart, so the inductive invariant says so of any two of them.   *)
(***************************************************************************)
PaddedEnd(i) == ItemEnd(i) + Padding(entries[i].size)

LEMMA PaddedEndNat ==
  ASSUME entries \in Seq(Entry), NEW i \in 1..Len(entries)
  PROVE  ItemEnd(i) \in Nat /\ PaddedEnd(i) \in Nat /\ ItemEnd(i) <= PaddedEnd(i)
<1>0. entries[i] \in Entry
  OBVIOUS
<1>1. entries[i].offset \in Nat /\ entries[i].header \in Nat /\ entries[i].size \in Nat
  BY <1>0 DEF Entry
<1>2. ItemEnd(i) \in Nat
  BY <1>1 DEF ItemEnd
<1>3. Padding(entries[i].size) \in Nat
  BY <1>1, PaddingCompletes
<1> QED BY <1>2, <1>3 DEF PaddedEnd

Ordered ==
  /\ \A i \in 1..Len(entries) : PaddedEnd(i) <= current_pos
  /\ \A i, j \in 1..Len(entries) : i < j => PaddedEnd(i) <= entries[j].offset

IndexInv == IndexTypeOK /\ Layout /\ Ordered

LEMMA IndexInitInv == IndexInit => IndexInv
<1> SUFFICES ASSUME IndexInit PROVE IndexInv
  OBVIOUS
<1>1. scanned \in Seq(Item)
  BY DEF IndexInit
<1> QED BY <1>1 DEF IndexInit, IndexInv, IndexTypeOK, Layout, Ordered, BLOCK_SIZE

LEMMA AddEntryInv ==
  ASSUME IndexInv, AddEntry
  PROVE  IndexInv'
<1> DEFINE item == Head(scanned)
           entry == [offset |-> Align(current_pos),
                     header |-> HeaderLen(item.name),
                     size   |-> IF item.dir THEN 0 ELSE item.size]
<1> USE DEF IndexInv, IndexTypeOK
<1>0. PICK n \in Nat : n = Len(entries)
  OBVIOUS
<1>1. item \in Item /\ item.name \in Nat /\ item.size \in Nat
  BY IndexAssumption DEF AddEntry
<1>2. Align(current_pos) = current_pos
  BY DEF Align, Layout
<1>3. entry \in Entry /\ entry.offset = current_pos /\ entry.size \in Nat
  BY <1>1, <1>2, HeaderBlocks DEF Entry
<1>4. entry.header % BLOCK_SIZE = 0 /\ entry.header > 0 /\ entry.header \in Nat
  BY <1>1, HeaderBlocks
<1>5. /\ entries' = Append(entries, entry)
      /\ current_pos' = entry.offset + entry.header + entry.size + Padding(entry.size)
      /\ scanned' = Tail(scanned)
      /\ UNCHANGED <<total_size, index>> /\ index = "building"
  BY DEF AddEntry
<1> DEFINE pad == Padding(entry.size)
           after == entry.offset + entry.header + entry.size + pad
<1> HIDE DEF entry, item
<1>6. /\ n \in Nat /\ n = Len(entries) /\ Len(entries') = n + 1
      /\ entries' \in Seq(Entry) /\ entries'[n + 1] = entry
      /\ \A i \in 1..n : entries'[i] = entries[i] /\ entries[i] \in Entry
  BY <1>0, <1>3, <1>5
<1>7. pad \in 0..511
  BY <1>3, PaddingCompletes
<1>8. after \in Nat /\ after % BLOCK_SIZE = 0 /\ current_pos' = after /\ current_pos <= after
  <2>1. entry.offset \in Nat /\ entry.offset % BLOCK_SIZE = 0
    BY <1>3 DEF Layout
  <2>2. after % BLOCK_SIZE = 0
    BY <2>1, <1>3, <1>4, EntryBlocks
  <2>3. current_pos' = after
    BY <1>5
  <2> HIDE DEF pad
  <2>4. after \in Nat /\ current_pos <= after
    <3>1. \A a, b, c, d \in Nat : a + b + c + d \in Nat /\ a <= a + b + c + d
      OBVIOUS
    <3>2. pad \in Nat
      BY <1>7
    <3> QED BY <1>3, <1>4, <2>1, <3>1, <3>2
  <2> QED BY <2>2, <2>3, <2>4
<1> HIDE DEF pad, after
<1>9. \A i \in 1..n : ItemEnd(i)' = ItemEnd(i) /\ PaddedEnd(i)' = PaddedEnd(i)
  BY <1>6 DEF ItemEnd, PaddedEnd
<1>10. PaddedEnd(n + 1)' = after
  <2>1. PaddedEnd(n + 1)' = entries'[n + 1].offset + entries'[n + 1].header
                            + entries'[n + 1].size + Padding(entries'[n + 1].size)
    BY DEF PaddedEnd, ItemEnd
  <2> QED BY <1>6, <2>1 DEF after, pad
<1>11. IndexTypeOK'
  <2>1. scanned' \in Seq(Item)
    BY <1>5 DEF AddEntry
  <2> QED BY <1>5, <1>6, <1>8, <2>1
<1>12. Layout'
  <2>1. entries'[1].offset = 0
    <3>1. CASE n = 0
      BY <1>3, <1>6, <3>1 DEF Layout
    <3>2. CASE n # 0
      BY <1>6, <3>2 DEF Layout
    <3> QED BY <3>1, <3>2
  <2>2. ASSUME NEW i \in 1..n
        PROVE  (/\ entries[i].offset % BLOCK_SIZE = 0
                /\ entries[i].header % BLOCK_SIZE = 0 /\ entries[i].header > 0
                /\ NextOffset(i) = PaddedEnd(i))'
    <3>1. NextOffset(i) = PaddedEnd(i)
      BY <1>6 DEF Layout, PaddedEnd
    <3>2. NextOffset(i)' = NextOffset(i)
      <4>1. CASE i < n
        BY <1>6, <4>1 DEF NextOffset
      <4>2. CASE i = n
        BY <1>3, <1>6, <4>2 DEF NextOffset
      <4> QED BY <1>6, <4>1, <4>2
    <3> QED BY <1>6, <1>9, <3>1, <3>2 DEF Layout
  <2>3. (/\ entries[n + 1].offset % BLOCK_SIZE = 0
         /\ entries[n + 1].header % BLOCK_SIZE = 0 /\ entries[n + 1].header > 0)'
    BY <1>3, <1>4, <1>6 DEF Layout
  <2>4. NextOffset(n + 1)' = PaddedEnd(n + 1)'
    BY <1>6, <1>8, <1>10 DEF NextOffset
  <2>5. \A i \in 1..(n + 1) : i \in 1..n \/ i = n + 1
    BY <1>6
  <2> QED BY <1>5, <1>6, <1>8, <2>1, <2>2, <2>3, <2>4, <2>5 DEF Layout, PaddedEnd
<1>13. Ordered'
  <2>1. \A i \in 1..n : PaddedEnd(i) <= current_pos /\ PaddedEnd(i) \in Nat
    BY <1>6, PaddedEndNat DEF Ordered
  <2>2. \A i \in 1..n : PaddedEnd(i)' <= current_pos'
    BY <1>8, <1>9, <2>1
  <2>3. \A i, j \in 1..n : i < j => PaddedEnd(i)' <= entries'[j].offset
    BY <1>6, <1>9 DEF Ordered
  <2>4. \A i \in 1..n : PaddedEnd(i)' <= entries'[n + 1].offset
    BY <1>3, <1>6, <1>9, <2>1
  <2>5. \A i \in 1..(n + 1) : i \in 1..n \/ i = n + 1
    BY <1>6
  <2> QED BY <1>6, <1>8, <1>10, <2>2, <2>3, <2>4, <2>5 DEF Ordered
<1> QED BY <1>11, <1>12, <1>13

LEMMA IndexNextInv ==
  ASSUME IndexInv, IndexNext \/ UNCHANGED indexVars
  PROVE  IndexInv'
<1> USE DEF IndexInv, IndexTypeOK, Layout, Ordered, PaddedEnd, ItemEnd, NextOffset
<1>1. CASE RejectEntry
  BY <1>1 DEF RejectEntry
<1>2. CASE FinishIndex
  BY <1>2 DEF FinishIndex, END_OF_ARCHIVE_BLOCKS, BLOCK_SIZE
<1>3. CASE UNCHANGED indexVars
  BY <1>3 DEF indexVars
<1> QED BY <1>1, <1>2, <1>3, AddEntryInv DEF IndexNext

-----------------------------------------------------------------------------
(***************************************************************************)
(* locate.  The offsets grow, so there is a last entry that begins at or   *)
(* before a position, and the position is in that entry or in none.        *)
(***************************************************************************)
LEMMA OffsetsGrow ==
  ASSUME IndexInv, NEW i \in 1..Len(entries), NEW j \in 1..Len(entries), i < j
  PROVE  /\ entries[i].offset \in Nat /\ entries[j].offset \in Nat
         /\ ItemEnd(i) <= entries[j].offset /\ entries[i].offset < entries[j].offset
<1>1. entries[i] \in Entry /\ entries[j] \in Entry /\ entries \in Seq(Entry)
  BY DEF IndexInv, IndexTypeOK
<1>2. PaddedEnd(i) <= entries[j].offset /\ entries[i].header > 0
  BY DEF IndexInv, Ordered, Layout
<1>3. PaddedEnd(i) \in Nat /\ ItemEnd(i) \in Nat /\ ItemEnd(i) <= PaddedEnd(i)
  BY <1>1, PaddedEndNat
<1>4. /\ entries[i].offset \in Nat /\ entries[i].header \in Nat /\ entries[i].size \in Nat
      /\ entries[j].offset \in Nat
  BY <1>1 DEF Entry
<1>5. entries[i].offset < ItemEnd(i)
  BY <1>2, <1>4 DEF ItemEnd
<1> QED BY <1>2, <1>3, <1>4, <1>5

LEMMA CandidateIsLast ==
  ASSUME IndexInv, NEW p \in Nat
  PROVE  /\ Candidate(p) \in 0..Len(entries)
         /\ \A i \in 1..Len(entries) : entries[i].offset <= p <=> i <= Candidate(p)
<1>0. PICK n \in Nat : n = Len(entries)
  BY DEF IndexInv, IndexTypeOK
<1> DEFINE later == {i \in 1..(n + 1) : i = n + 1 \/ entries[i].offset > p}
<1>1. PICK m \in later : \A i \in later : ~ (i < m)
  <2>1. later \subseteq Nat /\ later # {}
    BY <1>0
  <2>2. PICK m \in later : \A i \in later : <<i, m>> \notin OpToRel(<, Nat)
    BY <2>1, NatLessThanWellFounded, WFMin
  <2> QED BY <2>1, <2>2 DEF OpToRel
<1>2. m \in 1..(n + 1) /\ m - 1 \in 0..n
  OBVIOUS
<1>3. ASSUME NEW i \in 1..n PROVE entries[i].offset <= p <=> i <= m - 1
  <2>0. entries[i] \in Entry
    BY <1>0 DEF IndexInv, IndexTypeOK
  <2>1. entries[i].offset \in Nat
    BY <2>0 DEF Entry
  <2>2. CASE i < m
    <3>1. i \notin later
      BY <1>1, <2>2
    <3> QED BY <1>2, <2>1, <2>2, <3>1
  <2>3. CASE i >= m
    <3>1. m \in 1..n /\ entries[m].offset > p
      BY <1>2, <2>3
    <3>2. entries[m].offset \in Nat /\ entries[m].offset <= entries[i].offset
      <4>1. CASE i = m
        BY <2>1, <4>1
      <4>2. CASE m < i
        BY <1>0, <3>1, <4>2, OffsetsGrow
      <4> QED BY <1>2, <2>3, <4>1, <4>2
    <3> QED BY <1>2, <2>1, <2>3, <3>1, <3>2
  <2> QED BY <1>2, <2>2, <2>3
<1>4. \E c \in 0..Len(entries) : \A i \in 1..Len(entries) : entries[i].offset <= p <=> i <= c
  BY <1>0, <1>2, <1>3
<1> QED BY <1>4 DEF Candidate

LEMMA LocateWithin ==
  ASSUME IndexInv, NEW p \in Nat, cursor \in Nat \ {0}, Len(entries) > 0 => cursor <= Len(entries),
         Locate(p) # 0
  PROVE  Locate(p) \in 1..Len(entries) /\ Within(Locate(p), p)
<1>0. PICK n \in Nat : n = Len(entries)
  BY DEF IndexInv, IndexTypeOK
<1>1. CASE Len(entries) > 0 /\ Within(cursor, p)
  BY <1>0, <1>1 DEF Locate
<1>2. CASE ~ (Len(entries) > 0 /\ Within(cursor, p))
  <2> DEFINE c == Candidate(p)
  <2>1. c \in 0..n /\ \A i \in 1..n : entries[i].offset <= p <=> i <= c
    BY <1>0, CandidateIsLast
  <2> HIDE DEF c
  <2>2. Locate(p) = c /\ c # 0 /\ p < ItemEnd(c)
    BY <1>2 DEF Locate, c
  <2> QED BY <1>0, <2>1, <2>2 DEF Within
<1> QED BY <1>1, <1>2

\* When locate finds no entry, none is reached before the next block boundary,
\* and on a boundary none is left at all.
LEMMA NothingNear ==
  ASSUME IndexInv, NEW p \in Nat, cursor \in Nat \ {0}, Locate(p) = 0,
         NEW i \in 1..Len(entries)
  PROVE  \/ ItemEnd(i) <= p
         \/ Padding(p) # 0 /\ p + Padding(p) <= entries[i].offset
<1>0. PICK n \in Nat : n = Len(entries)
  BY DEF IndexInv, IndexTypeOK
<1> DEFINE c == Candidate(p)
<1>1. c \in 0..n /\ \A j \in 1..n : entries[j].offset <= p <=> j <= c
  BY <1>0, CandidateIsLast
<1>2. c # 0 => ItemEnd(c) <= p
  <2>0. ~ (Len(entries) > 0 /\ Within(cursor, p))
    BY DEF Locate
  <2>1. c # 0 => ~ (p < ItemEnd(c))
    BY <1>0, <1>1, <2>0 DEF Locate
  <2>2. c # 0 => c \in 1..n
    BY <1>1
  <2>3. c # 0 => ItemEnd(c) \in Nat
    BY <1>0, <2>2, PaddedEndNat DEF IndexInv, IndexTypeOK
  <2> QED BY <2>1, <2>3
<1> HIDE DEF c
<1>3. c # 0
  <2>1. entries[1].offset = 0
    BY <1>0 DEF IndexInv, Layout
  <2> QED BY <1>0, <1>1, <2>1
<1>4. c \in 1..n /\ ItemEnd(c) \in Nat /\ PaddedEnd(c) \in Nat
  BY <1>0, <1>1, <1>3, PaddedEndNat DEF IndexInv, IndexTypeOK
<1>5. CASE i < c
  <2>1. ItemEnd(i) <= entries[c].offset /\ entries[c].offset <= p /\ entries[c].offset \in Nat
    BY <1>0, <1>1, <1>4, <1>5, OffsetsGrow
  <2>2. ItemEnd(i) \in Nat
    BY PaddedEndNat DEF IndexInv, IndexTypeOK
  <2> QED BY <2>1, <2>2
<1>6. CASE i = c
  BY <1>2, <1>3, <1>6
<1>7. CASE i > c
  <2>1. c + 1 \in 1..n /\ i \in 1..n
    BY <1>0, <1>4, <1>7
  <2>2. PICK b \in Nat : b = entries[c + 1].offset
    <3>1. entries[c + 1] \in Entry
      BY <1>0, <2>1 DEF IndexInv, IndexTypeOK
    <3> QED BY <3>1 DEF Entry
  <2>3. b % BLOCK_SIZE = 0 /\ p < b /\ b - p < BLOCK_SIZE
    <3>1. ~ (b <= p)
      BY <1>1, <1>4, <2>1, <2>2
    <3>2. b % BLOCK_SIZE = 0
      BY <1>0, <2>1, <2>2 DEF IndexInv, Layout
    <3>3. b = ItemEnd(c) + Padding(entries[c].size)
      BY <1>0, <1>4, <2>1, <2>2 DEF IndexInv, Layout, NextOffset
    <3>4. entries[c] \in Entry
      BY <1>0, <1>4 DEF IndexInv, IndexTypeOK
    <3>5. entries[c].size \in Nat
      BY <3>4 DEF Entry
    <3>6. PICK q \in 0..511 : q = Padding(entries[c].size)
      BY <3>5, PaddingCompletes
    <3>7. PICK e \in Nat : e = ItemEnd(c)
      BY <1>4
    <3>8. e <= p /\ b = e + q
      BY <1>2, <1>3, <3>3, <3>6, <3>7
    <3>9. b - p < 512
      BY <3>8
    <3> QED BY <3>1, <3>2, <3>9 DEF BLOCK_SIZE
  <2>4. Padding(p) # 0 /\ p + Padding(p) = b
    BY <2>3, PaddingReaches
  <2>5. b <= entries[i].offset
    <3>1. CASE i = c + 1
      BY <2>2, <3>1
    <3>2. CASE c + 1 < i
      BY <1>0, <2>1, <2>2, <3>2, OffsetsGrow
    <3> QED BY <1>4, <1>7, <2>1, <3>1, <3>2
  <2> QED BY <2>4, <2>5
<1> QED BY <1>0, <1>4, <1>5, <1>6, <1>7

-----------------------------------------------------------------------------
(***************************************************************************)
(* The reader.  To the properties the invariant adds where the reader may  *)
(* stand: in a range clipped to an archive that is laid out, and before    *)
(* the end of it while a call is in progress, so that no call ends empty.  *)
(***************************************************************************)
InRange ==
  /\ reader = "none" => cursor = 1
  /\ reader # "none" => /\ index = "ready" /\ reader_pos <= end /\ end <= total_size
  /\ reader = "loop" => reader_pos < end

ReaderInv == TypeOK /\ IndexInv /\ InRange /\ CallExact /\ BytesFaithful

\* What a turn of the loop may fill: it is within the buffer and the range.
LEMMA RoomBound ==
  ASSUME ReaderInv, reader = "loop", More
  PROVE  /\ Room \in Nat /\ Room > 0
         /\ written + Room <= buf /\ pos + Room <= end /\ pos + Room <= total_size
<1>1. /\ written \in Nat /\ buf \in Nat /\ pos \in Nat /\ end \in Nat /\ total_size \in Nat
      /\ end <= total_size /\ written < buf /\ pos < end
  BY DEF ReaderInv, TypeOK, IndexTypeOK, InRange, More
<1> QED BY <1>1 DEF Room, Least

\* The zeros of a turn fit, and no entry is among them.
LEMMA ZerosTouchNothing ==
  ASSUME ReaderInv, reader = "loop", More, Locate(pos) = 0
  PROVE  /\ Zeros \in Nat /\ Zeros <= Room /\ Zeros > 0
         /\ \A i \in 1..Len(entries) : pos + Zeros <= entries[i].offset \/ ItemEnd(i) <= pos
<1>1. PICK room \in Nat : room = Room /\ room > 0
  BY RoomBound
<1>2. pos \in Nat /\ total_size \in Nat /\ pos + room <= total_size
  BY <1>1, RoomBound DEF ReaderInv, TypeOK, IndexTypeOK
<1>3. PICK pad \in Nat : pad = Padding(pos)
  BY <1>2, PaddingCompletes
<1>4. PICK left \in Nat : left = total_size - pos /\ left > 0
  BY <1>1, <1>2
<1>5. Zeros = IF pad = 0 THEN Least(room, left) ELSE Least(pad, Least(room, left))
  BY <1>1, <1>3, <1>4 DEF Zeros
<1>6. Zeros \in Nat /\ Zeros <= room /\ (pad # 0 => Zeros <= pad) /\ Zeros > 0
  BY <1>1, <1>4, <1>5 DEF Least
<1>7. ASSUME NEW i \in 1..Len(entries)
      PROVE  pos + Zeros <= entries[i].offset \/ ItemEnd(i) <= pos
  <2>1. \/ ItemEnd(i) <= pos
        \/ pad # 0 /\ pos + pad <= entries[i].offset
    BY <1>2, <1>3, NothingNear DEF ReaderInv, TypeOK
  <2>2. entries[i] \in Entry
    BY DEF ReaderInv, TypeOK, IndexTypeOK
  <2>3. PICK offset \in Nat : offset = entries[i].offset
    BY <2>2 DEF Entry
  <2>4. PICK zeros \in Nat : zeros = Zeros
    BY <1>6
  <2> QED BY <1>2, <1>6, <2>1, <2>3, <2>4
<1> QED BY <1>1, <1>6, <1>7

\* A turn that produces faithful bytes, no more than fit, keeps the invariant.
LEMMA ProduceInv ==
  ASSUME ReaderInv, reader = "loop", More,
         NEW kind \in {"zero", "header", "content"}, NEW i \in Nat, NEW at \in Nat, NEW n \in Nat,
         Produce(kind, i, at, n), n <= Room,
         cursor' \in Nat \ {0}, Len(entries) > 0 => cursor' <= Len(entries),
         handle' \in Handle, seen' \in [1..Len(entries) -> SUBSET Nat],
         Faithful([kind |-> kind, from |-> pos, count |-> n, entry |-> i, at |-> at])
  PROVE  ReaderInv'
<1>0. PICK r : r = [kind |-> kind, from |-> pos, count |-> n, entry |-> i, at |-> at]
  OBVIOUS
<1>1. /\ run' = r /\ pos' = pos + n /\ written' = written + n
      /\ UNCHANGED <<scanned, entries, current_pos, total_size, index>>
      /\ UNCHANGED <<start, end, buf, reader_pos, reader, source_is_file, file>>
  BY <1>0 DEF Produce, indexVars, rangeOf
<1>2. /\ pos \in Nat /\ written \in Nat /\ buf \in Nat /\ end \in Nat /\ reader_pos \in Nat
      /\ pos = reader_pos + written /\ end <= total_size
  BY DEF ReaderInv, TypeOK, CallExact
<1>3. Room \in Nat /\ written + Room <= buf /\ pos + Room <= end
  BY RoomBound
<1>4. written + n <= buf /\ pos + n <= end
  BY <1>2, <1>3
<1>5. TypeOK'
  <2>1. r \in [kind : {"zero", "header", "content"}, from : Nat, count : Nat, entry : Nat, at : Nat]
    BY <1>0, <1>2
  <2>2. pos' \in Nat /\ written' \in Nat
    BY <1>1, <1>2
  <2> QED BY <1>1, <2>1, <2>2 DEF ReaderInv, TypeOK, IndexTypeOK, Paths, SourcePath
<1>6. IndexInv'
  BY <1>1, IndexNextInv DEF ReaderInv, indexVars
<1>7. InRange'
  BY <1>1 DEF ReaderInv, InRange
<1>8. CallExact'
  <2>1. run'.from + run'.count = pos'
    BY <1>0, <1>1
  <2>2. pos' = reader_pos' + written'
    BY <1>1, <1>2
  <2> QED BY <1>1, <1>2, <1>4, <2>1, <2>2 DEF CallExact
<1>9. BytesFaithful'
  <2>1. Faithful(r)
    BY <1>0
  <2>2. Faithful(r)'
    BY <1>1, <2>1 DEF Faithful, HeaderEnd, ItemEnd
  <2> QED BY <1>1, <2>2 DEF BytesFaithful, Faithful, HeaderEnd, ItemEnd
<1> QED BY <1>5, <1>6, <1>7, <1>8, <1>9 DEF ReaderInv

\* What locate returns is a legal cursor, and 0 or the entry of the position.
LEMMA LocatedEntry ==
  ASSUME ReaderInv, reader = "loop", Locate(pos) # 0
  PROVE  LET i == Locate(pos) IN
         /\ i \in 1..Len(entries) /\ i \in Nat \ {0} /\ i <= Len(entries)
         /\ entries[i].offset \in Nat /\ HeaderEnd(i) \in Nat /\ ItemEnd(i) \in Nat
         /\ entries[i].offset <= pos /\ pos < ItemEnd(i)
         /\ Opened(i) \in Handle /\ Opened(i).path = PathOf(i) /\ PathOf(i) \in Paths
         /\ Opened(i).file.len \in Nat /\ Opened(i).file.version \in Nat
<1>1. PICK i \in Nat : i = Locate(pos) /\ i \in 1..Len(entries) /\ Within(i, pos)
  BY LocateWithin DEF ReaderInv, TypeOK, IndexTypeOK
<1>2. PICK n \in Nat : n = Len(entries)
  BY DEF ReaderInv, TypeOK, IndexTypeOK
<1>3. entries[i] \in Entry
  BY <1>1 DEF ReaderInv, TypeOK, IndexTypeOK
<1>4. entries[i].offset \in Nat /\ entries[i].header \in Nat /\ entries[i].size \in Nat
  BY <1>3 DEF Entry
<1>9. PathOf(i) \in Paths /\ PathOf(i) \in Nat
  BY <1>1, <1>2 DEF PathOf, Paths, SourcePath
<1>5. file[PathOf(i)] \in File /\ handle \in Handle
  BY <1>9 DEF ReaderInv, TypeOK
<1>6. Opened(i) \in Handle /\ Opened(i).path = PathOf(i)
  BY <1>5, <1>9 DEF Opened, Handle
<1>7. Opened(i).file \in File
  BY <1>6 DEF Handle
<1>8. Opened(i).file.len \in Nat /\ Opened(i).file.version \in Nat
  BY <1>7 DEF File
<1> QED BY <1>1, <1>2, <1>4, <1>6, <1>8, <1>9 DEF Within, HeaderEnd, ItemEnd

LEMMA TurnInv ==
  ASSUME ReaderInv, Turn
  PROVE  ReaderInv'
<1>0. /\ pos \in Nat /\ cursor \in Nat \ {0} /\ (Len(entries) > 0 => cursor <= Len(entries))
      /\ reader = "loop"
  BY DEF ReaderInv, TypeOK, Turn, FillZeros, CopyHeader, CopyContent, ReadNothing, ContentFails,
         InContent
<1>00. handle \in Handle /\ seen \in [1..Len(entries) -> SUBSET Nat]
  BY <1>0 DEF ReaderInv, TypeOK
<1>1. CASE FillZeros
  <2>1. /\ More /\ Locate(pos) = 0 /\ cursor' = cursor /\ Produce("zero", 0, 0, Zeros)
        /\ handle' = handle /\ seen' = seen
    BY <1>1 DEF FillZeros
  <2>2. /\ Zeros \in Nat /\ Zeros <= Room
        /\ \A i \in 1..Len(entries) : pos + Zeros <= entries[i].offset \/ ItemEnd(i) <= pos
    BY <1>0, <2>1, ZerosTouchNothing
  <2>3. Faithful([kind |-> "zero", from |-> pos, count |-> Zeros, entry |-> 0, at |-> 0])
    BY <2>2 DEF Faithful
  <2>4. "zero" \in {"zero", "header", "content"} /\ 0 \in Nat
    OBVIOUS
  <2>5. PICK zeros \in Nat : zeros = Zeros
    BY <2>2
  <2>6. cursor' \in Nat \ {0} /\ handle' \in Handle /\ seen' \in [1..Len(entries) -> SUBSET Nat]
        /\ (Len(entries) > 0 => cursor' <= Len(entries))
    BY <1>0, <1>00, <2>1
  <2> QED BY <1>0, <2>1, <2>2, <2>3, <2>4, <2>5, <2>6, ProduceInv
<1>2. CASE CopyHeader
  <2> DEFINE i == Locate(pos)
             at == pos - entries[i].offset
             n == Least(HeaderEnd(i) - pos, Room)
  <2>1. /\ More /\ i # 0 /\ pos < HeaderEnd(i) /\ cursor' = i
        /\ Produce("header", i, at, n)
        /\ handle' = handle /\ seen' = seen
    BY <1>2 DEF CopyHeader
  <2>2. /\ i \in Nat \ {0} /\ i <= Len(entries)
        /\ entries[i].offset \in Nat /\ HeaderEnd(i) \in Nat /\ entries[i].offset <= pos
    BY <1>0, <2>1, LocatedEntry
  <2>3. Room \in Nat
    BY <1>0, <2>1, RoomBound
  <2>4. n \in Nat /\ n <= Room /\ pos + n <= HeaderEnd(i) /\ at \in Nat
    BY <1>0, <2>1, <2>2, <2>3 DEF Least
  <2>5. Faithful([kind |-> "header", from |-> pos, count |-> n, entry |-> i, at |-> at])
    BY <2>2, <2>4 DEF Faithful
  <2> QED BY <1>0, <1>00, <2>1, <2>2, <2>4, <2>5, ProduceInv
<1>3. CASE CopyContent
  <2> DEFINE i == Locate(pos)
             at == pos - HeaderEnd(i)
             asked == Least(Room, ItemEnd(i) - pos)
             there == Opened(i).file.len
             most == Least(asked, there - at)
  <2>1. PICK n \in {most} \cup {k \in ShortReads : k < most} : Produce("content", i, at, n)
    BY <1>3 DEF CopyContent
  <2>2. /\ More /\ i # 0 /\ HeaderEnd(i) <= pos /\ pos < ItemEnd(i) /\ at < there /\ cursor' = i
        /\ handle' = Opened(i)
        /\ seen' = [seen EXCEPT ![i] = @ \cup {Opened(i).file.version}]
    BY <1>3 DEF CopyContent, InContent
  <2>3. /\ i \in Nat \ {0} /\ i <= Len(entries)
        /\ HeaderEnd(i) \in Nat /\ ItemEnd(i) \in Nat /\ there \in Nat
    BY <1>0, <2>2, LocatedEntry
  <2>0. handle' \in Handle /\ seen' \in [1..Len(entries) -> SUBSET Nat]
    <3>1. Opened(i) \in Handle /\ Opened(i).file.version \in Nat
      BY <1>0, <2>2, LocatedEntry
    <3> HIDE DEF i
    <3> QED BY <1>00, <2>2, <3>1
  <2>4. Room \in Nat
    BY <1>0, <2>2, RoomBound
  <2>5. at \in Nat /\ most \in Nat /\ most <= Room /\ pos + most <= ItemEnd(i)
    <3>1. at \in Nat
      BY <1>0, <2>2, <2>3
    <3>2. asked \in Nat /\ asked <= Room /\ pos + asked <= ItemEnd(i)
      BY <1>0, <2>2, <2>3, <2>4 DEF Least
    <3>3. there - at \in Nat
      BY <2>2, <2>3, <3>1
    <3> HIDE DEF at, asked, there
    <3>4. most \in Nat /\ most <= asked
      BY <3>2, <3>3 DEF Least
    <3> HIDE DEF most
    <3> QED BY <1>0, <2>3, <2>4, <3>1, <3>2, <3>4
  <2> HIDE DEF most, there
  <2>6. n \in Nat /\ n <= most
    <3>1. CASE n = most
      BY <2>5, <3>1
    <3>2. CASE n \in ShortReads /\ n < most
      BY <2>5, <3>2, ReaderAssumption
    <3> QED BY <2>1, <3>1, <3>2
  <2> HIDE DEF at, most, i, there
  <2>7. n <= Room /\ pos + n <= ItemEnd(i)
    BY <1>0, <2>3, <2>4, <2>5, <2>6
  <2>8. at = pos - HeaderEnd(i)
    BY DEF at
  <2>9. Faithful([kind |-> "content", from |-> pos, count |-> n, entry |-> i, at |-> at])
    BY <2>2, <2>7, <2>8 DEF Faithful
  <2> QED BY <1>0, <2>0, <2>1, <2>2, <2>3, <2>5, <2>6, <2>7, <2>9, ProduceInv
<1>4. CASE ReadNothing \/ ContentFails
  <2>1. /\ UNCHANGED <<scanned, entries, current_pos, total_size, index>>
        /\ UNCHANGED <<start, end, buf, reader_pos, pos, written, run, source_is_file, file, seen>>
        /\ cursor' = Locate(pos) /\ Locate(pos) # 0 /\ reader' \in {reader, "failed"}
        /\ handle' \in {handle, Opened(Locate(pos))}
    BY <1>4 DEF ReadNothing, ContentFails, InContent, indexVars, rangeOf
  <2>2. cursor' \in Nat \ {0} /\ (Len(entries') > 0 => cursor' <= Len(entries'))
    BY <1>0, <2>1, LocatedEntry
  <2>6. handle' \in Handle
    BY <1>0, <1>00, <2>1, LocatedEntry
  <2>3. TypeOK'
    BY <1>0, <2>1, <2>2, <2>6 DEF ReaderInv, TypeOK, IndexTypeOK, Paths, SourcePath
  <2>4. IndexInv'
    BY <2>1, IndexNextInv DEF ReaderInv, indexVars
  <2>5. InRange' /\ CallExact'
    BY <1>0, <2>1 DEF ReaderInv, InRange, CallExact
  <2>7. BytesFaithful'
    BY <1>0, <2>1 DEF ReaderInv, BytesFaithful, Faithful, HeaderEnd, ItemEnd
  <2> QED BY <2>3, <2>4, <2>5, <2>7 DEF ReaderInv
<1> QED BY <1>1, <1>2, <1>3, <1>4 DEF Turn

LEMMA ReaderInitInv == Init => ReaderInv
<1> SUFFICES ASSUME Init PROVE ReaderInv
  OBVIOUS
<1>1. IndexInv
  BY IndexInitInv DEF Init
<1>2. handle \in Handle
  BY DEF Init, Handle, File
<1>3. TypeOK
  <2>1. Len(entries) = 0 /\ IndexTypeOK
    BY <1>1 DEF Init, IndexInit, IndexInv
  <2>2. source_is_file \in BOOLEAN
    BY Zenon DEF Init
  <2>3. run \in [kind : {"zero", "header", "content"}, from : Nat, count : Nat, entry : Nat, at : Nat]
    BY DEF Init
  <2>4. reader = "none" /\ cursor = 1
    BY DEF Init
  <2> QED BY <1>2, <2>1, <2>2, <2>3, <2>4 DEF Init, TypeOK
<1> QED BY <1>1, <1>3 DEF Init, ReaderInv, InRange, CallExact, BytesFaithful

\* Files that are cut or replaced remain files, and the handle one of them.
LEMMA FilesChange ==
  ASSUME ReaderInv, Cut \/ Replace
  PROVE  /\ file' \in [Paths -> File] /\ handle' \in Handle
         /\ handle'.path = handle.path /\ handle'.file.version = handle.file.version
<1>1. file \in [Paths -> File] /\ handle \in Handle
  BY DEF ReaderInv, TypeOK, Cut, Replace
<1>2. ASSUME NEW i \in 1..Len(entries) PROVE PathOf(i) \in Paths
  <2>1. Len(entries) \in Nat
    BY DEF ReaderInv, TypeOK, IndexTypeOK
  <2> QED BY <2>1 DEF PathOf, Paths, SourcePath
<1>3. CASE Cut
  <2>1. PICK p \in Paths, n \in CutTo :
          /\ file' = [file EXCEPT ![p].len = n]
          /\ handle' = IF handle.path = p /\ handle.file.version = file[p].version
                       THEN [handle EXCEPT !.file = file'[p]] ELSE handle
    BY <1>2, <1>3 DEF Cut
  <2>2. n \in Nat /\ file[p] \in File
    BY <1>1, ReaderAssumption
  <2>3. [file[p] EXCEPT !.len = n] \in File /\ [file[p] EXCEPT !.len = n].version = file[p].version
    BY <2>2 DEF File
  <2>4. file' \in [Paths -> File] /\ file'[p] \in File /\ file'[p].version = file[p].version
    BY <1>1, <2>1, <2>3
  <2>5. /\ [handle EXCEPT !.file = file'[p]] \in Handle
        /\ [handle EXCEPT !.file = file'[p]].path = handle.path
        /\ [handle EXCEPT !.file = file'[p]].file = file'[p]
    BY <1>1, <2>4 DEF Handle
  <2> QED BY <1>1, <2>1, <2>4, <2>5
<1>4. CASE Replace
  <2>1. PICK p \in Paths, n \in NewSizes :
          file' = [file EXCEPT ![p] = [version |-> file[p].version + 1, len |-> n]]
    BY <1>2, <1>4 DEF Replace
  <2>2. n \in Nat /\ file[p] \in File
    BY <1>1, ReaderAssumption
  <2>3. [version |-> file[p].version + 1, len |-> n] \in File
    BY <2>2 DEF File
  <2>4. handle' = handle
    BY <1>4 DEF Replace
  <2> QED BY <1>1, <2>1, <2>3, <2>4
<1> QED BY <1>3, <1>4

LEMMA ReaderNextInv ==
  ASSUME ReaderInv, [Next]_vars
  PROVE  ReaderInv'
<1> USE DEF ReaderInv
<1>1. CASE IndexNext /\ UNCHANGED readerVars
  <2>1. IndexInv'
    BY <1>1, IndexNextInv
  <2>2. reader = "none"
    BY <1>1 DEF InRange, IndexNext, AddEntry, RejectEntry, FinishIndex
  <2>3. UNCHANGED <<start, end, buf, reader_pos, pos, written, run, cursor, reader, source_is_file, file, handle,
                  seen>>
    BY <1>1 DEF readerVars, rangeOf, callVars, fileVars
  <2>4. TypeOK'
    <3>1. cursor = 1 /\ (Len(entries') > 0 => 1 <= Len(entries')) /\ IndexTypeOK'
      BY <2>1, <2>2 DEF IndexInv, IndexTypeOK, InRange
    <3> QED BY <2>2, <2>3, <3>1 DEF TypeOK
  <2> QED BY <2>1, <2>2, <2>3, <2>4 DEF InRange, CallExact, BytesFaithful
<1>2. CASE Open
  <2>1. IndexInv'
    BY <1>2, IndexNextInv DEF Open
  <2>0. /\ UNCHANGED <<scanned, entries, current_pos, total_size, index, written, run, handle>>
        /\ cursor' = 1 /\ reader' = "idle" /\ index = "ready" /\ buf' \in BufSizes
        /\ seen' = [i \in 1..Len(entries) |-> {}] /\ source_is_file' \in BOOLEAN
    BY <1>2 DEF Open, indexVars
  <2>2. TypeOK'
    <3>1. start' \in Nat /\ end' \in Nat /\ reader_pos' \in Nat /\ pos' \in Nat
      BY <1>2, ReaderAssumption DEF Open, TypeOK, IndexTypeOK
    <3>2. \A i \in 1..Len(entries) : entries[i].size \in Nat
      <4>1. \A i \in 1..Len(entries) : entries[i] \in Entry
        BY DEF TypeOK, IndexTypeOK
      <4> QED BY <4>1 DEF Entry
    <3>4. Len(entries) \in Nat
      BY DEF TypeOK, IndexTypeOK
    <3>3. file' \in [Paths' -> File] /\ seen' \in [1..Len(entries') -> SUBSET Nat]
      <4>1. PICK n \in NewSizes :
              file' = [p \in Paths |-> [version |-> 0,
                                        len |-> IF p = SourcePath THEN n ELSE entries[p].size]]
        BY <1>2 DEF Open
      <4>2. ASSUME NEW p \in Paths
            PROVE  [version |-> 0, len |-> IF p = SourcePath THEN n ELSE entries[p].size] \in File
        <5>1. p # SourcePath => p \in 1..Len(entries)
          BY <3>4 DEF Paths, SourcePath
        <5>2. (IF p = SourcePath THEN n ELSE entries[p].size) \in Nat
          BY <3>2, <5>1, ReaderAssumption
        <5> QED BY <5>2 DEF File
      <4>3. Paths' = Paths
        BY <2>0 DEF Paths, SourcePath
      <4> QED BY <2>0, <4>1, <4>2, <4>3
    <3>5. buf' \in Nat \ {0}
      BY <2>0, ReaderAssumption
    <3> QED BY <2>0, <3>1, <3>3, <3>4, <3>5 DEF TypeOK, IndexTypeOK
  <2> QED BY <1>2, <2>0, <2>1, <2>2 DEF Open, indexVars, TypeOK, IndexTypeOK, InRange, CallExact,
                                BytesFaithful
<1>3. CASE CallAtEnd \/ Call \/ Return
  <2>1. IndexInv'
    BY <1>3, IndexNextInv DEF CallAtEnd, Call, Return
  <2>2. /\ UNCHANGED <<scanned, entries, current_pos, total_size, index>>
        /\ UNCHANGED <<start, end, buf, cursor, run, source_is_file, file, handle, seen>>
        /\ reader # "none"
    BY <1>3 DEF CallAtEnd, Call, Return, indexVars, rangeOf, callVars, fileVars
  <2>3. CASE CallAtEnd
    <3>1. UNCHANGED <<reader_pos, pos, written>> /\ reader' = "ended"
      BY <2>3 DEF CallAtEnd, callVars
    <3> QED BY <2>1, <2>2, <3>1 DEF TypeOK, IndexTypeOK, Paths, SourcePath, InRange, CallExact, BytesFaithful
  <2>4. CASE Call
    <3>1. UNCHANGED reader_pos /\ pos' = reader_pos /\ written' = 0 /\ reader' = "loop" /\ reader_pos < end
      BY <2>4 DEF Call
    <3> QED BY <2>1, <2>2, <3>1 DEF TypeOK, IndexTypeOK, Paths, SourcePath, InRange, CallExact, BytesFaithful
  <2>5. CASE Return
    <3>1. UNCHANGED <<pos, written>> /\ reader_pos' = pos /\ reader' \in {"ended", "idle"} /\ reader = "loop"
      BY <2>5 DEF Return, callVars
    <3> QED BY <2>1, <2>2, <3>1 DEF TypeOK, IndexTypeOK, Paths, SourcePath, InRange, CallExact, BytesFaithful
  <2> QED BY <1>3, <2>3, <2>4, <2>5
<1>4. CASE Turn
  BY <1>4, TurnInv
<1>5. CASE Cut \/ Replace \/ Reshape
  <2>1. /\ UNCHANGED <<scanned, entries, current_pos, total_size, index>>
        /\ UNCHANGED <<start, end, buf, reader_pos, pos, written, run, cursor, reader>>
        /\ reader # "none"
    BY <1>5 DEF Cut, Replace, Reshape, indexVars, rangeOf, callVars
  <2>2. /\ source_is_file' \in BOOLEAN /\ seen' \in [1..Len(entries) -> SUBSET Nat]
        /\ file' \in [Paths -> File] /\ handle' \in Handle
    <3>1. CASE Cut \/ Replace
      BY <2>1, <3>1, FilesChange DEF Cut, Replace, TypeOK
    <3>2. CASE Reshape
      BY <2>1, <3>2 DEF Reshape, TypeOK
    <3> QED BY <1>5, <3>1, <3>2
  <2>3. IndexInv'
    BY <2>1, IndexNextInv DEF indexVars
  <2> QED BY <2>1, <2>2, <2>3 DEF TypeOK, IndexTypeOK, Paths, SourcePath, InRange, CallExact, BytesFaithful, Faithful,
                                HeaderEnd, ItemEnd
<1>6. CASE UNCHANGED vars
  <2>1. /\ UNCHANGED <<scanned, entries, current_pos, total_size, index>>
        /\ UNCHANGED <<start, end, buf, reader_pos, pos, written, run, cursor, reader, source_is_file, file, handle,
                  seen>>
    BY <1>6 DEF vars, readerVars, indexVars, rangeOf, callVars, fileVars
  <2>2. IndexInv'
    BY <2>1, IndexNextInv DEF indexVars
  <2> QED BY <2>1, <2>2 DEF TypeOK, IndexTypeOK, Paths, SourcePath, InRange, CallExact, BytesFaithful, Faithful,
                            HeaderEnd, ItemEnd
<1> QED BY <1>1, <1>2, <1>3, <1>4, <1>5, <1>6 DEF Next, Step

\* The invariant holds throughout, so each of its conjuncts does.
LEMMA ReaderInvariant == Spec => []ReaderInv
<1>1. Init => ReaderInv
  BY ReaderInitInv
<1>2. ReaderInv /\ [Next]_vars => ReaderInv'
  BY ReaderNextInv
<1> QED BY <1>1, <1>2, PTL DEF Spec

-----------------------------------------------------------------------------
\* The variables of create and of the reader keep their types, the cursor
\* among the entries.
THEOREM TarTypeCorrect == Spec => []TypeOK
<1>1. ReaderInv => TypeOK
  BY DEF ReaderInv
<1> QED BY <1>1, ReaderInvariant, PTL

(***************************************************************************)
(* Every archive, of any entries, is laid out without a gap on block       *)
(* boundaries and closed by two blocks (create, the offsets it records).   *)
(***************************************************************************)
THEOREM LayoutCorrect == Spec => []Layout
<1>1. ReaderInv => Layout
  BY DEF ReaderInv, IndexInv
<1> QED BY <1>1, ReaderInvariant, PTL

(***************************************************************************)
(* Whatever turns the loop of read_into_buffer takes, each run of bytes is *)
(* the bytes of the layout at its position.                                *)
(***************************************************************************)
THEOREM BytesCorrect == Spec => []BytesFaithful
<1>1. ReaderInv => BytesFaithful
  BY DEF ReaderInv
<1> QED BY <1>1, ReaderInvariant, PTL

(***************************************************************************)
(* A call of read neither skips nor repeats a byte and writes outside      *)
(* neither its buffer nor its range.                                       *)
(***************************************************************************)
THEOREM CallsExact == Spec => []CallExact
<1>1. ReaderInv => CallExact
  BY DEF ReaderInv
<1> QED BY <1>1, ReaderInvariant, PTL

\* locate never sends the loop to its "Unexpected position" branch.
THEOREM UnexpectedUnreachable == Spec => []NeverUnexpected
<1>1. ASSUME ReaderInv PROVE NeverUnexpected
  <2> SUFFICES ASSUME Unexpected PROVE FALSE
    BY DEF NeverUnexpected
  <2> DEFINE i == Locate(pos)
  <2>1. /\ reader = "loop" /\ i # 0
        /\ ~ (entries[i].offset <= pos /\ pos < HeaderEnd(i))
        /\ ~ (HeaderEnd(i) <= pos /\ pos < ItemEnd(i))
    BY DEF Unexpected
  <2>2. HeaderEnd(i) \in Nat /\ entries[i].offset <= pos /\ pos < ItemEnd(i) /\ pos \in Nat
    BY <1>1, <2>1, LocatedEntry DEF ReaderInv, TypeOK
  <2> QED BY <2>1, <2>2
<1> QED BY <1>1, ReaderInvariant, PTL

-----------------------------------------------------------------------------
(***************************************************************************)
(* One version of a file per entry.  The reader only moves forward, so an  *)
(* entry it has read from lies behind it, or the handle it keeps is of the *)
(* path it would read that entry by: while the source stays what it is,    *)
(* the handle is never reopened in the middle of an entry.                 *)
(***************************************************************************)
SeenBehind(i) ==
  /\ entries[i].offset <= pos
  /\ \/ handle.path = PathOf(i) /\ seen[i] \subseteq {handle.file.version}
     \/ ItemEnd(i) <= pos
  /\ \A v, w \in seen[i] : v = w

SeenInv ==
  /\ reader = "idle" => pos = reader_pos
  /\ reader = "none" => seen = <<>>
  /\ reader # "none" => \A i \in 1..Len(entries) : seen[i] # {} => SeenBehind(i)

\* The turns within entry j open its file or keep the handle they have.
LEMMA EntryTurnSeen ==
  ASSUME ReaderInv, SeenInv, reader = "loop", UNCHANGED <<entries, source_is_file>>,
         NEW j \in 1..Len(entries), j = Locate(pos), j # 0,
         pos' \in Nat, pos <= pos', reader' \in {"loop", "failed"},
         handle' \in {handle, Opened(j)},
         \/ seen' = seen
         \/ /\ handle' = Opened(j)
            /\ seen' = [seen EXCEPT ![j] = @ \cup {Opened(j).file.version}]
  PROVE  SeenInv'
<1>1. /\ entries[j].offset \in Nat /\ ItemEnd(j) \in Nat
      /\ entries[j].offset <= pos /\ pos < ItemEnd(j) /\ Opened(j).path = PathOf(j)
  BY LocatedEntry
<1>2. pos \in Nat /\ seen \in [1..Len(entries) -> SUBSET Nat]
  BY DEF ReaderInv, TypeOK
<1>3. /\ entries \in Seq(Entry)
      /\ \A i \in 1..Len(entries) : seen[i] # {} => SeenBehind(i)
  BY DEF ReaderInv, TypeOK, IndexTypeOK, SeenInv
<1>4. ASSUME NEW i \in 1..Len(entries), seen'[i] # {}, i # j PROVE SeenBehind(i)'
  <2>1. seen'[i] = seen[i]
    BY <1>2, <1>4
  <2>2. SeenBehind(i)
    BY <1>3, <1>4, <2>1
  <2>3. ItemEnd(i) \in Nat /\ entries[i].offset \in Nat
    <3>1. entries[i] \in Entry
      BY <1>3
    <3> QED BY <1>3, <3>1, PaddedEndNat DEF Entry
  <2>4. i < j
    <3>1. ASSUME j < i PROVE FALSE
      <4>1. ItemEnd(j) <= entries[i].offset
        BY <3>1, OffsetsGrow DEF ReaderInv
      <4> QED BY <1>1, <1>2, <2>2, <2>3, <4>1 DEF SeenBehind
    <3> QED BY <1>4, <3>1
  <2>5. ItemEnd(i) <= pos
    <3>1. ItemEnd(i) <= entries[j].offset
      BY <2>4, OffsetsGrow DEF ReaderInv
    <3> QED BY <1>1, <1>2, <2>3, <3>1
  <2>6. ItemEnd(i)' = ItemEnd(i) /\ entries'[i].offset = entries[i].offset
    BY DEF ItemEnd
  <2>7. ItemEnd(i) <= pos' /\ entries[i].offset <= pos'
    BY <1>2, <2>2, <2>3, <2>5 DEF SeenBehind
  <2> QED BY <2>1, <2>2, <2>6, <2>7 DEF SeenBehind
<1>5. ASSUME seen'[j] # {} PROVE SeenBehind(j)'
  <2>1. entries'[j].offset <= pos'
    BY <1>1, <1>2
  <2>2. handle.path # PathOf(j) => seen[j] = {}
    BY <1>1, <1>2, <1>3 DEF SeenBehind
  <2>3. handle.path = PathOf(j) => Opened(j) = handle /\ seen[j] \subseteq {handle.file.version}
    <3>1. CASE seen[j] = {}
      BY <3>1 DEF Opened
    <3>2. CASE seen[j] # {}
      BY <1>1, <1>2, <1>3, <3>2 DEF Opened, SeenBehind
    <3> QED BY <3>1, <3>2
  <2>4. seen[j] \subseteq {Opened(j).file.version}
    BY <2>2, <2>3
  <2>5. seen'[j] = seen[j] \/ seen'[j] = seen[j] \cup {Opened(j).file.version}
    BY <1>2
  <2>6. handle' = Opened(j)
    BY <1>5, <2>2, <2>3
  <2>7. PathOf(j)' = PathOf(j)
    BY DEF PathOf, SourcePath
  <2> QED BY <1>1, <2>1, <2>4, <2>5, <2>6, <2>7 DEF SeenBehind
<1>6. reader' # "idle" /\ reader' # "none"
  OBVIOUS
<1> QED BY <1>4, <1>5, <1>6 DEF SeenInv

\* Steps that move on without a file, or change files that are not open.
LEMMA OtherSeen ==
  ASSUME ReaderInv, SeenInv, UNCHANGED <<entries, seen, source_is_file>>, reader # "none", reader' # "none",
         pos' \in Nat, pos <= pos', reader' = "idle" => pos' = reader_pos',
         handle'.path = handle.path, handle'.file.version = handle.file.version
  PROVE  SeenInv'
<1>1. pos \in Nat /\ entries \in Seq(Entry)
  BY DEF ReaderInv, TypeOK, IndexTypeOK
<1>2. ASSUME NEW i \in 1..Len(entries), seen[i] # {} PROVE SeenBehind(i)'
  <2>1. SeenBehind(i)
    BY <1>2 DEF SeenInv
  <2>2. entries[i] \in Entry
    BY <1>1
  <2>3. ItemEnd(i) \in Nat /\ entries[i].offset \in Nat /\ ItemEnd(i)' = ItemEnd(i)
    BY <1>1, <2>2, PaddedEndNat DEF Entry, ItemEnd
  <2>4. PathOf(i)' = PathOf(i)
    BY DEF PathOf, SourcePath
  <2> QED BY <1>1, <2>1, <2>3, <2>4 DEF SeenBehind
<1> QED BY <1>2 DEF SeenInv

LEMMA SeenNext ==
  ASSUME ReaderInv, ReaderInv', SeenInv, [Next]_vars
  PROVE  SeenInv'
<1>0. /\ pos' \in Nat /\ pos \in Nat /\ reader_pos \in Nat /\ handle \in Handle
      /\ entries \in Seq(Entry)
  BY DEF ReaderInv, TypeOK, IndexTypeOK
<1>1. CASE IndexNext /\ UNCHANGED readerVars
  <2>1. reader = "none"
    BY <1>1 DEF ReaderInv, InRange, IndexNext, AddEntry, RejectEntry, FinishIndex
  <2> QED BY <1>1, <2>1 DEF SeenInv, readerVars, fileVars, callVars
<1>2. CASE Open
  <2>1. /\ reader' = "idle" /\ reader_pos' = pos' /\ UNCHANGED entries
        /\ seen' = [i \in 1..Len(entries) |-> {}]
    BY <1>2 DEF Open, indexVars
  <2> QED BY <2>1 DEF SeenInv
<1>3. CASE CallAtEnd \/ Call \/ Return
  <2>1. /\ UNCHANGED <<entries, seen, source_is_file, handle>> /\ reader # "none" /\ reader' # "none"
        /\ pos' = pos /\ (reader' = "idle" => pos' = reader_pos')
    BY <1>3 DEF CallAtEnd, Call, Return, indexVars, callVars, fileVars, SeenInv
  <2> QED BY <1>0, <2>1, OtherSeen
<1>4. CASE FillZeros
  <2>1. /\ UNCHANGED <<entries, seen, source_is_file, handle, reader>> /\ reader = "loop"
        /\ pos' = pos + Zeros /\ More /\ Locate(pos) = 0
    BY <1>4 DEF FillZeros, Produce, indexVars
  <2>2. Zeros \in Nat
    BY <2>1, ZerosTouchNothing
  <2> QED BY <1>0, <2>1, <2>2, OtherSeen
<1>5. CASE CopyHeader
  <2> DEFINE i == Locate(pos)
             n == Least(HeaderEnd(i) - pos, Room)
  <2>1. /\ UNCHANGED <<entries, seen, source_is_file, handle, reader>> /\ reader = "loop" /\ i # 0
        /\ pos' = pos + n /\ More /\ pos < HeaderEnd(i)
    BY <1>5 DEF CopyHeader, Produce, indexVars
  <2>2. HeaderEnd(i) \in Nat /\ Room \in Nat
    BY <2>1, LocatedEntry, RoomBound
  <2>3. n \in Nat
    BY <1>0, <2>1, <2>2 DEF Least
  <2> QED BY <1>0, <2>1, <2>3, OtherSeen
<1>6. CASE CopyContent \/ ReadNothing \/ ContentFails
  <2> DEFINE i == Locate(pos)
  <2>1. /\ reader = "loop" /\ i # 0 /\ UNCHANGED <<entries, source_is_file>>
        /\ reader' \in {"loop", "failed"}
        /\ handle' \in {handle, Opened(i)}
        /\ \/ seen' = seen
           \/ /\ handle' = Opened(i)
              /\ seen' = [seen EXCEPT ![i] = @ \cup {Opened(i).file.version}]
    BY <1>6 DEF CopyContent, ReadNothing, ContentFails, InContent, Produce, indexVars
  <2>2. i \in 1..Len(entries)
    BY <2>1, LocatedEntry
  <2>3. pos <= pos'
    <3>1. CASE CopyContent
      <4>1. CallExact /\ CallExact' /\ reader' = "loop" /\ reader_pos' = reader_pos
        BY <2>1, <3>1 DEF ReaderInv, CopyContent, Produce, rangeOf
      <4>2. PICK n : pos' = pos + n /\ run'.count = n
        BY <3>1 DEF CopyContent, Produce
      <4>3. n \in Nat
        BY <4>2 DEF ReaderInv, TypeOK
      <4> QED BY <1>0, <4>2, <4>3
    <3>2. CASE ReadNothing \/ ContentFails
      BY <1>0, <3>2 DEF ReadNothing, ContentFails
    <3> QED BY <1>6, <3>1, <3>2
  <2> QED BY <1>0, <2>1, <2>2, <2>3, EntryTurnSeen
<1>7. CASE Cut \/ Replace
  <2>1. /\ UNCHANGED <<entries, seen, source_is_file, pos, reader, reader_pos>> /\ reader # "none"
    BY <1>7 DEF Cut, Replace, indexVars, callVars
  <2>2. handle'.path = handle.path /\ handle'.file.version = handle.file.version
    BY <1>7, FilesChange
  <2>3. reader' = "idle" => pos' = reader_pos'
    BY <2>1 DEF SeenInv
  <2> QED BY <1>0, <2>1, <2>2, <2>3, OtherSeen
<1>9. CASE Reshape
  <2>1. /\ UNCHANGED <<entries, pos, reader, reader_pos>> /\ reader # "none"
        /\ seen' = [i \in DOMAIN seen |-> {}]
    BY <1>9 DEF Reshape, indexVars, callVars
  <2>2. DOMAIN seen = 1..Len(entries)
    BY <2>1 DEF ReaderInv, TypeOK
  <2> QED BY <2>1, <2>2 DEF SeenInv
<1>8. CASE UNCHANGED vars
  BY <1>8 DEF vars, readerVars, indexVars, callVars, fileVars, SeenInv, SeenBehind, ItemEnd, PathOf,
              SourcePath
<1> QED BY <1>1, <1>2, <1>3, <1>4, <1>5, <1>6, <1>7, <1>8, <1>9 DEF Next, Step, Turn

(***************************************************************************)
(* However files are replaced while the reader is at work, what a response *)
(* has of an entry comes from one version of one file as long as the       *)
(* source stays a directory, or a file (read_at and the handle it keeps by *)
(* path, the path read_into_buffer chooses anew at every turn).            *)
(***************************************************************************)
THEOREM OneVersion == Spec => []OneVersionPerEntry
<1>1. Init => SeenInv
  BY DEF Init, SeenInv
<1>2. ReaderInv /\ ReaderInv' /\ SeenInv /\ [Next]_vars => SeenInv'
  BY SeenNext
<1>3. ReaderInv /\ SeenInv => OneVersionPerEntry
  <2> SUFFICES ASSUME ReaderInv, SeenInv, NEW i \in DOMAIN seen
               PROVE  \A v, w \in seen[i] : v = w
    BY DEF OneVersionPerEntry
  <2>1. reader # "none"
    BY DEF SeenInv
  <2>2. i \in 1..Len(entries)
    BY <2>1 DEF ReaderInv, TypeOK
  <2>3. CASE seen[i] = {}
    BY <2>3
  <2>4. CASE seen[i] # {}
    BY <2>1, <2>2, <2>4 DEF SeenInv, SeenBehind
  <2> QED BY <2>3, <2>4
<1> QED BY <1>1, <1>2, <1>3, ReaderInvariant, PTL DEF Spec

LEMMA StepsRefine ==
  ASSUME ReaderInv, ReaderInv', [Next]_vars
  PROVE  [Range!Next]_Range!rangeVars
<1> USE DEF Range!Next, Range!rangeVars
<1>1. CASE Open
  <2>1. /\ reader = "none" /\ reader' = "idle" /\ reader_pos' = start'
        /\ start' \in Nat /\ end' \in Nat
    BY <1>1, ReaderAssumption DEF Open, ReaderInv, TypeOK, IndexTypeOK
  <2>2. start' <= end'
    BY <1>1, <2>1 DEF Open
  <2> QED BY <2>1, <2>2 DEF Range!Open
<1>2. CASE CallAtEnd
  <2>1. reader = "idle" /\ reader' = "ended" /\ UNCHANGED <<start, end, reader_pos>>
    BY <1>2 DEF CallAtEnd, rangeOf
  <2>2. reader_pos = end
    BY <1>2 DEF CallAtEnd, ReaderInv, TypeOK, IndexTypeOK, InRange
  <2> QED BY <2>1, <2>2 DEF Range!End
<1>3. CASE Return
  <2>1. reader = "loop" /\ reader_pos' = pos /\ UNCHANGED <<start, end>> /\ ~ More
        /\ reader' = IF written = 0 THEN "ended" ELSE "idle"
    BY <1>3 DEF Return, rangeOf
  <2>2. /\ pos = reader_pos + written /\ pos <= end /\ end <= total_size /\ reader_pos < end
        /\ pos \in Nat /\ written \in Nat /\ buf \in Nat \ {0} /\ reader_pos \in Nat /\ end \in Nat
        /\ total_size \in Nat
    BY <2>1 DEF ReaderInv, TypeOK, IndexTypeOK, InRange, CallExact
  <2>3. written > 0
    BY <2>1, <2>2 DEF More
  <2> QED BY <2>1, <2>2, <2>3 DEF Range!Deliver
<1>4. CASE ContentFails
  <2>1. reader = "loop" /\ reader' = "failed" /\ UNCHANGED <<start, end, reader_pos>>
    BY <1>4 DEF ContentFails, InContent, rangeOf
  <2> QED BY <2>1 DEF Range!Fail
<1>5. CASE Call \/ FillZeros \/ CopyHeader \/ CopyContent \/ ReadNothing
  <2>1. UNCHANGED <<start, end, reader_pos>> /\ reader \in {"idle", "loop"} /\ reader' \in {"idle", "loop"}
    BY <1>5 DEF Call, FillZeros, CopyHeader, CopyContent, ReadNothing, InContent, Produce, rangeOf
  <2> QED BY <2>1
<1>6. CASE (IndexNext /\ UNCHANGED readerVars) \/ Cut \/ Replace \/ Reshape \/ UNCHANGED vars
  <2>1. UNCHANGED <<start, end, reader_pos, reader>>
    BY <1>6 DEF Cut, Replace, Reshape, vars, readerVars, rangeOf, callVars
  <2> QED BY <2>1
<1> QED BY <1>1, <1>2, <1>3, <1>4, <1>5, <1>6 DEF Next, Step, Turn

(***************************************************************************)
(* The tar reader is a RangeReader: what Archive::stream_range promises    *)
(* holds of it for every archive, range, buffer and file cut short.        *)
(***************************************************************************)
THEOREM TarImplementsRangeReader == Spec => ImplementsRangeReader
<1>1. Init => Range!Init
  BY DEF Init, Range!Init
<1>2. ReaderInv /\ ReaderInv' /\ [Next]_vars => [Range!Next]_Range!rangeVars
  BY StepsRefine
<1> QED BY <1>1, <1>2, ReaderInvariant, PTL DEF Spec, ImplementsRangeReader, Range!Spec

-----------------------------------------------------------------------------
(***************************************************************************)
(* Progress.  A turn that produces something leaves less to produce.       *)
(***************************************************************************)
LEMMA RemainingInLoop ==
  ASSUME ReaderInv, reader = "loop"
  PROVE  /\ end \in Nat /\ pos \in Nat /\ written \in Nat /\ pos <= end
         /\ written = 0 => pos < end /\ Remaining = 3 * (end - pos)
         /\ written > 0 => Remaining = 3 * (end - pos) + 2
<1>1. /\ end \in Nat /\ pos \in Nat /\ written \in Nat /\ pos <= end
      /\ pos = reader_pos + written /\ reader_pos < end /\ reader_pos \in Nat
  BY DEF ReaderInv, TypeOK, InRange, CallExact
<1>2. written = 0 => Remaining = 3 * (end - pos) + 0
  BY DEF Remaining
<1>3. written > 0 => Remaining = 3 * (end - pos) + 2
  BY <1>1 DEF Remaining
<1> QED BY <1>1, <1>2, <1>3

LEMMA ProducedCounts ==
  ASSUME ReaderInv, ReaderInv', reader = "loop", reader' = "loop", end' = end,
         NEW n \in Nat, n > 0, pos' = pos + n, written' = written + n
  PROVE  Remaining' < Remaining
<1>1. /\ end \in Nat /\ pos \in Nat /\ written \in Nat
      /\ Remaining >= 3 * (end - pos) /\ Remaining \in Int
  BY RemainingInLoop
<1>2. written' > 0 /\ Remaining' = 3 * (end' - pos') + 2
  BY <1>1 DEF Remaining
<1>3. Remaining' = 3 * (end - (pos + n)) + 2
  BY <1>2
<1>4. 3 * (end - (pos + n)) + 2 < 3 * (end - pos)
  BY <1>1
<1> QED BY <1>1, <1>3, <1>4

LEMMA StepCounts ==
  ASSUME ReaderInv, ReaderInv', Step, Uncut
  PROVE  Remaining' < Remaining
<1>0. /\ pos \in Nat /\ reader_pos \in Nat /\ end \in Nat /\ total_size \in Nat /\ written \in Nat
      /\ entries \in Seq(Entry)
  BY DEF ReaderInv, TypeOK, IndexTypeOK
<1>1. CASE CallAtEnd
  <2>1. reader = "idle" /\ reader' = "ended" /\ reader_pos <= end
    BY <1>1 DEF CallAtEnd, ReaderInv, InRange
  <2>2. Remaining' = 0 /\ Remaining = 3 * (end - reader_pos) + 1
    BY <2>1 DEF Remaining
  <2> QED BY <1>0, <2>1, <2>2
<1>2. CASE Call
  <2>1. reader = "idle" /\ reader' = "loop" /\ pos' = reader_pos /\ written' = 0 /\ end' = end
    BY <1>2 DEF Call, rangeOf
  <2>2. Remaining' = 3 * (end - reader_pos) + 0 /\ Remaining = 3 * (end - reader_pos) + 1
    BY <2>1 DEF Remaining
  <2> QED BY <1>0, <2>2
<1>3. CASE FillZeros
  <2>1. /\ reader = "loop" /\ More /\ Locate(pos) = 0 /\ Produce("zero", 0, 0, Zeros)
    BY <1>3 DEF FillZeros
  <2>2. Zeros \in Nat /\ Zeros > 0
    BY <2>1, ZerosTouchNothing
  <2>3. reader' = "loop" /\ end' = end /\ pos' = pos + Zeros /\ written' = written + Zeros
    BY <2>1 DEF Produce, rangeOf
  <2> QED BY <2>1, <2>2, <2>3, ProducedCounts
<1>4. CASE CopyHeader
  <2> DEFINE i == Locate(pos)
             n == Least(HeaderEnd(i) - pos, Room)
  <2>1. reader = "loop" /\ More /\ i # 0 /\ pos < HeaderEnd(i)
    BY <1>4 DEF CopyHeader
  <2>2. HeaderEnd(i) \in Nat /\ Room \in Nat /\ Room > 0
    BY <2>1, LocatedEntry, RoomBound
  <2>3. n \in Nat /\ n > 0
    BY <1>0, <2>1, <2>2 DEF Least
  <2>4. reader' = "loop" /\ end' = end /\ pos' = pos + n /\ written' = written + n
    BY <1>4 DEF CopyHeader, Produce, rangeOf
  <2> QED BY <2>1, <2>3, <2>4, ProducedCounts
<1>5. CASE CopyContent
  <2> DEFINE i == Locate(pos)
             at == pos - HeaderEnd(i)
             asked == Least(Room, ItemEnd(i) - pos)
             there == Opened(i).file.len
             most == Least(asked, there - at)
  <2>1. /\ reader = "loop" /\ More /\ i # 0 /\ HeaderEnd(i) <= pos /\ pos < ItemEnd(i)
        /\ at < there
    BY <1>5 DEF CopyContent, InContent
  <2>2. PICK n \in {most} \cup {k \in ShortReads : k < most} : Produce("content", i, at, n)
    BY <1>5 DEF CopyContent
  <2>3. HeaderEnd(i) \in Nat /\ ItemEnd(i) \in Nat /\ there \in Nat /\ Room \in Nat /\ Room > 0
    BY <2>1, LocatedEntry, RoomBound
  <2>4. most \in Nat /\ most > 0
    <3>1. asked \in Nat /\ asked > 0
      BY <1>0, <2>1, <2>3 DEF Least
    <3>2. there - at \in Nat /\ there - at > 0
      BY <1>0, <2>1, <2>3
    <3> HIDE DEF asked, there, at
    <3> QED BY <3>1, <3>2 DEF Least
  <2> HIDE DEF most
  <2>5. n \in Nat /\ n > 0
    BY <2>4, ReaderAssumption
  <2>6. reader' = "loop" /\ end' = end /\ pos' = pos + n /\ written' = written + n
    BY <2>1, <2>2 DEF Produce, rangeOf
  <2> QED BY <2>1, <2>5, <2>6, ProducedCounts
<1>6. CASE ReadNothing
  <2> DEFINE i == Locate(pos)
  <2>1. /\ reader = "loop" /\ i # 0 /\ HeaderEnd(i) <= pos /\ pos < ItemEnd(i)
        /\ pos - HeaderEnd(i) >= Opened(i).file.len
    BY <1>6 DEF ReadNothing, InContent
  <2>2. /\ i \in 1..Len(entries) /\ HeaderEnd(i) \in Nat /\ ItemEnd(i) \in Nat
        /\ Opened(i).file.len \in Nat
    BY <2>1, LocatedEntry
  <2> HIDE DEF i
  <2>3. entries[i].size \in Nat /\ ItemEnd(i) = HeaderEnd(i) + entries[i].size
    <3>1. entries[i] \in Entry
      BY <1>0, <2>2
    <3>2. entries[i].size \in Nat /\ entries[i].offset \in Nat /\ entries[i].header \in Nat
      BY <3>1 DEF Entry
    <3> QED BY <3>2 DEF ItemEnd, HeaderEnd
  <2>4. i \in DOMAIN seen
    BY <2>1, <2>2 DEF ReaderInv, TypeOK
  <2>5. Opened(i).file.len >= entries[i].size
    BY <2>4 DEF Uncut
  <2> QED BY <1>0, <2>1, <2>2, <2>3, <2>5
<1>7. CASE ContentFails
  <2>1. reader = "loop" /\ reader' = "failed" /\ More
    BY <1>7 DEF ContentFails, InContent
  <2>2. Remaining' = 0 /\ pos < end
    BY <2>1 DEF Remaining, More
  <2> QED BY <2>1, <2>2, RemainingInLoop
<1>8. CASE Return
  <2>1. reader = "loop" /\ reader_pos' = pos /\ end' = end /\ ~ More
        /\ reader' = IF written = 0 THEN "ended" ELSE "idle"
    BY <1>8 DEF Return, rangeOf
  <2>2. written > 0
    BY <1>0, <2>1 DEF More, ReaderInv, TypeOK, IndexTypeOK, InRange, CallExact
  <2>3. Remaining' = 3 * (end - pos) + 1
    BY <2>1, <2>2 DEF Remaining
  <2> QED BY <1>0, <2>1, <2>2, <2>3, RemainingInLoop
<1> QED BY <1>1, <1>2, <1>3, <1>4, <1>5, <1>6, <1>7, <1>8 DEF Step, Turn

(***************************************************************************)
(* Every call and every turn of read_into_buffer's loop brings the end of  *)
(* the range closer, unless a file has been cut: the length of a response  *)
(* bounds the steps it takes, for every archive, range and buffer.         *)
(***************************************************************************)
THEOREM TarStepsCount == Spec => EveryStepCounts
<1>1. ReaderInv /\ ReaderInv' /\ [Next]_vars => [Step => Remaining' < Remaining \/ ~ Uncut]_vars
  BY StepCounts
<1> QED BY <1>1, ReaderInvariant, PTL DEF Spec, EveryStepCounts
=============================================================================
