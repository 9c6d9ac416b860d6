----------------------------- MODULE ZipProofs ------------------------------
(***************************************************************************)
(* The zip layout and its readers for every scan, any number of requests,  *)
(* every range and buffer, and every way files change and I/O fails: the   *)
(* segments tile the archive and are as long as the records written for    *)
(* them, readers deliver exactly the bytes of the layout and agree on the  *)
(* CRCs, and each implements RangeReader.                                  *)
(***************************************************************************)
EXTENDS ZipReader, WellFoundedInduction, TLAPS

-----------------------------------------------------------------------------
(***************************************************************************)
(* Segments that tile 0..x.  That neighbours meet does not order segments  *)
(* that are far apart, so the chain says so of any two of them.            *)
(***************************************************************************)
EndOf(segment) == segment.start + segment.len

Chain(s, x) ==
  /\ s \in Seq(Segment) /\ x \in Nat
  /\ s = <<>> => x = 0
  /\ s # <<>> => s[1].start = 0 /\ EndOf(s[Len(s)]) = x
  /\ \A k \in 1..Len(s) : s[k].len > 0 /\ EndOf(s[k]) <= x
  /\ \A k \in 1..Len(s) : k < Len(s) => EndOf(s[k]) = s[k + 1].start
  /\ \A j, k \in 1..Len(s) : j < k => EndOf(s[j]) <= s[k].start

LEMMA ChainAppend ==
  ASSUME NEW s, NEW x, Chain(s, x),
         NEW p \in Segment, p.start = x, p.len > 0
  PROVE  Chain(Append(s, p), x + p.len)
<1> DEFINE t == Append(s, p)
<1>0. PICK n \in Nat : n = Len(s)
  BY DEF Chain
<1>1. /\ t \in Seq(Segment) /\ Len(t) = n + 1 /\ t[n + 1] = p
      /\ \A k \in 1..n : t[k] = s[k]
      /\ t # <<>> /\ (n = 0 <=> s = <<>>) /\ s \in Seq(Segment)
  BY <1>0 DEF Chain
<1>2. p.len \in Nat /\ p.start \in Nat /\ x \in Nat
  BY DEF Segment, Chain
<1>3. \A k \in 1..n : s[k] \in Segment
  BY <1>0, <1>1
<1>4. \A k \in 1..n : EndOf(s[k]) \in Nat /\ s[k].start \in Nat /\ s[k].len \in Nat
  BY <1>3 DEF Segment, EndOf
<1>5. EndOf(p) = x + p.len /\ EndOf(p) \in Nat
  BY <1>2 DEF EndOf
<1> HIDE DEF t
<1>6. \A k \in 1..(n + 1) : k \in 1..n \/ k = n + 1
  OBVIOUS
<1>7. t[1].start = 0
  <2>1. CASE n = 0
    BY <1>1, <2>1 DEF Chain
  <2>2. CASE n # 0
    BY <1>1, <2>2 DEF Chain
  <2> QED BY <2>1, <2>2
<1>8. \A k \in 1..(n + 1) : t[k].len > 0 /\ EndOf(t[k]) <= x + p.len
  <2>1. \A k \in 1..n : t[k].len > 0 /\ EndOf(t[k]) <= x + p.len
    BY <1>0, <1>1, <1>2, <1>4 DEF Chain
  <2> QED BY <1>1, <1>5, <1>6, <2>1
<1>9. \A k \in 1..(n + 1) : k < n + 1 => EndOf(t[k]) = t[k + 1].start
  <2> SUFFICES ASSUME NEW k \in 1..n PROVE EndOf(t[k]) = t[k + 1].start
    BY <1>6
  <2>1. CASE k = n
    BY <1>0, <1>1, <2>1 DEF Chain
  <2>2. CASE k # n
    <3>1. k + 1 \in 1..n
      BY <2>2
    <3> QED BY <1>0, <1>1, <3>1 DEF Chain
  <2> QED BY <2>1, <2>2
<1>10. \A j, k \in 1..(n + 1) : j < k => EndOf(t[j]) <= t[k].start
  <2>1. \A j, k \in 1..n : j < k => EndOf(t[j]) <= t[k].start
    BY <1>0, <1>1 DEF Chain
  <2>2. \A j \in 1..n : EndOf(t[j]) <= t[n + 1].start
    BY <1>0, <1>1 DEF Chain
  <2> QED BY <1>6, <2>1, <2>2
<1>11. EndOf(t[Len(t)]) = x + p.len /\ x + p.len \in Nat
  BY <1>1, <1>2, <1>5
<1> QED BY <1>1, <1>7, <1>8, <1>9, <1>10, <1>11 DEF Chain, t

\* The last segment that begins at or before a position exists and holds it.
LEMMA ChainSearch ==
  ASSUME NEW x, Chain(segments, x), NEW p \in Nat, p < x
  PROVE  /\ FindSegment(p) \in 1..Len(segments)
         /\ segments[FindSegment(p)] \in Segment
         /\ segments[FindSegment(p)].start <= p
         /\ p < EndOf(segments[FindSegment(p)])
<1>0. PICK n \in Nat : n = Len(segments) /\ segments \in Seq(Segment) /\ x \in Nat
  BY DEF Chain
<1>1. n > 0
  BY <1>0 DEF Chain
<1>2. \A k \in 1..n : segments[k] \in Segment
  BY <1>0
<1>3. \A k \in 1..n : /\ segments[k].start \in Nat /\ segments[k].len \in Nat
                      /\ EndOf(segments[k]) \in Nat
                      /\ segments[k].start < EndOf(segments[k])
  <2>1. \A k \in 1..n : segments[k].len > 0
    BY <1>0 DEF Chain
  <2>2. \A k \in 1..n : segments[k].start \in Nat /\ segments[k].len \in Nat
    BY <1>2 DEF Segment
  <2> QED BY <2>1, <2>2 DEF EndOf
<1>4. \A j, k \in 1..n : j < k => segments[j].start < segments[k].start
  <2>1. \A j, k \in 1..n : j < k => EndOf(segments[j]) <= segments[k].start
    BY <1>0 DEF Chain
  <2> QED BY <1>3, <2>1
<1> DEFINE later == {k \in 1..(n + 1) : k = n + 1 \/ segments[k].start > p}
<1>5. PICK m \in later : \A k \in later : ~ (k < m)
  <2>1. later \subseteq Nat /\ later # {}
    OBVIOUS
  <2>2. PICK m \in later : \A k \in later : <<k, m>> \notin OpToRel(<, Nat)
    BY <2>1, NatLessThanWellFounded, WFMin
  <2> QED BY <2>1, <2>2 DEF OpToRel
<1>6. m \in 1..(n + 1) /\ m - 1 \in 0..n
  OBVIOUS
<1>7. \A k \in 1..n : segments[k].start <= p <=> k <= m - 1
  <2> SUFFICES ASSUME NEW k \in 1..n PROVE segments[k].start <= p <=> k <= m - 1
    OBVIOUS
  <2>1. CASE k < m
    <3>1. k \notin later
      BY <1>5, <2>1
    <3> QED BY <1>3, <1>6, <2>1, <3>1
  <2>2. CASE k >= m
    <3>1. m \in 1..n /\ segments[m].start > p
      BY <1>6, <2>2
    <3>2. segments[m].start <= segments[k].start
      <4>1. CASE k = m
        BY <1>3, <3>1, <4>1
      <4>2. CASE m < k
        BY <1>3, <1>4, <3>1, <4>2
      <4> QED BY <1>6, <2>2, <4>1, <4>2
    <3> QED BY <1>3, <1>6, <2>2, <3>1, <3>2
  <2> QED BY <1>6, <2>1, <2>2
<1> DEFINE c == PartitionPoint(p)
<1>8. c \in 0..n /\ \A k \in 1..n : segments[k].start <= p <=> k <= c
  <2>1. \E d \in 0..Len(segments) :
          \A k \in 1..Len(segments) : segments[k].start <= p <=> k <= d
    BY <1>0, <1>6, <1>7
  <2> QED BY <1>0, <2>1 DEF PartitionPoint
<1> HIDE DEF c, later
<1>9. c \in 1..n
  <2>1. segments[1].start = 0
    BY <1>0, <1>1 DEF Chain
  <2> QED BY <1>1, <1>8, <2>1
<1>10. p < EndOf(segments[c])
  <2>1. CASE c = n
    BY <1>0, <1>1, <2>1 DEF Chain
  <2>2. CASE c < n
    <3>1. c + 1 \in 1..n /\ EndOf(segments[c]) = segments[c + 1].start
      BY <1>0, <1>9, <2>2 DEF Chain
    <3>2. ~ (segments[c + 1].start <= p)
      BY <1>8, <1>9, <3>1
    <3> QED BY <1>3, <3>1, <3>2
  <2> QED BY <1>9, <2>1, <2>2
<1>11. FindSegment(p) = c
  BY <1>9, <1>10 DEF FindSegment, SegmentEnd, EndOf, c
<1> QED BY <1>0, <1>2, <1>8, <1>9, <1>10, <1>11

-----------------------------------------------------------------------------
(***************************************************************************)
(* The layout.  Every segment describes its piece of the archive, and the  *)
(* lengths reserved for headers are those of the records written.          *)
(***************************************************************************)
Describes(g) ==
  \/ /\ g.kind = "local" /\ g.entry \in 1..Len(entries)
     /\ g.start = entries[g.entry].local_offset /\ g.len = entries[g.entry].local_header_len
  \/ /\ g.kind = "data" /\ g.entry \in 1..Len(entries)
     /\ g.start = DataStart(entries[g.entry]) /\ g.len = entries[g.entry].size
  \/ /\ g.kind = "central" /\ g.entry \in 1..listed
     /\ g.start = entries[g.entry].central_offset /\ g.len = entries[g.entry].central_len
  \/ /\ index = "ready"
     /\ \/ g.kind = "zip64_eocd" /\ g.start = layout_pos /\ g.len = ZIP64_EOCD_LEN
        \/ /\ g.kind = "zip64_locator" /\ g.start = layout_pos + ZIP64_EOCD_LEN
           /\ g.len = ZIP64_LOCATOR_LEN
        \/ g.kind = "eocd" /\ g.start = total_size - EOCD_FIXED /\ g.len = EOCD_FIXED

LocalFits(e) == e.local_header_len = LocalHeader(e).length /\ e.local_zip64 = Big(e)

CentralFits(e) ==
  /\ e.central_len = CentralEntry(e).length
  /\ e.central_size_zip64 = Big(e)
  /\ e.central_offset_zip64 = (e.local_offset >= U32_MAX)

IndexInv ==
  /\ IndexTypeOK
  /\ Chain(segments, Extent)
  /\ \A k \in 1..Len(segments) : Describes(segments[k])
  /\ \A i \in 1..Len(entries) : LocalFits(entries[i]) /\ (entries[i].dir => entries[i].size = 0)
  /\ \A i \in 1..listed : CentralFits(entries[i])
  /\ index = "local" => listed = 0
  /\ index = "ready" => segments # <<>>

LEMMA PieceType ==
  ASSUME NEW start \in Nat, NEW len \in Nat, NEW kind \in SegmentKind, NEW i \in Nat
  PROVE  LET p == Piece(start, len, kind, i) IN
         p \in Segment /\ p.start = start /\ p.len = len /\ p.kind = kind /\ p.entry = i
BY DEF Piece, Segment

LEMMA IndexInitInv == IndexInit => IndexInv
<1> SUFFICES ASSUME IndexInit PROVE IndexInv
  OBVIOUS
<1>1. scanned \in Seq(Item)
  BY DEF IndexInit
<1>2. Chain(segments, Extent)
  BY DEF IndexInit, Chain, Extent
<1>3. entries = <<>> /\ segments = <<>> /\ listed = 0 /\ index = "local"
  BY DEF IndexInit
<1>4. IndexTypeOK
  <2>1. /\ layout_pos = 0 /\ cd_offset = 0 /\ total_size = 0 /\ zip64 = FALSE
        /\ listed \in 0..Len(entries)
    BY <1>3 DEF IndexInit
  <2>2. entries \in Seq(Entry) /\ segments \in Seq(Segment)
    BY <1>3
  <2> QED BY <1>1, <1>3, <2>1, <2>2 DEF IndexTypeOK
<1> QED BY <1>2, <1>3, <1>4 DEF IndexInv

LEMMA LocalEntryFits ==
  ASSUME NEW item \in Item, layout_pos \in Nat
  PROVE  LET e == LocalEntry(item) IN
         /\ e \in Entry /\ LocalFits(e) /\ (e.dir => e.size = 0)
         /\ e.local_offset = layout_pos /\ e.local_header_len > 0
         /\ e.size \in Nat /\ e.local_header_len \in Nat
<1> DEFINE e == LocalEntry(item)
<1>1. item.name \in Nat /\ item.size \in Nat /\ item.dir \in BOOLEAN /\ (item.dir => item.size = 0)
  BY ZipIndexAssumption
<1>2. PICK extra \in Nat : extra = IF Big(item) THEN ZIP64_EXTRA_HEADER + ZIP64_LOCAL_DATA ELSE 0
  BY DEF ZIP64_EXTRA_HEADER, ZIP64_LOCAL_DATA
<1>3. Big(item) \in BOOLEAN
  BY DEF Big
<1>4. /\ e.name = item.name /\ e.dir = item.dir /\ e.size = item.size
      /\ e.local_offset = layout_pos
      /\ e.local_header_len = LOCAL_HEADER_FIXED + item.name + extra
      /\ e.local_zip64 = Big(item)
  BY <1>2 DEF LocalEntry
<1>5. e.local_header_len \in Nat /\ e.local_header_len > 0
  BY <1>1, <1>2, <1>4 DEF LOCAL_HEADER_FIXED
<1>6. e \in Entry
  <2>1. PICK b \in BOOLEAN, d \in BOOLEAN, n \in Nat, z \in Nat, h \in Nat :
          b = Big(item) /\ d = item.dir /\ n = item.name /\ z = item.size /\ h = e.local_header_len
    BY <1>1, <1>3, <1>5
  <2>2. e = [name |-> n, dir |-> d, size |-> z, local_offset |-> layout_pos,
             local_header_len |-> h, local_zip64 |-> b,
             central_size_zip64 |-> FALSE, central_offset_zip64 |-> FALSE,
             central_offset |-> 0, central_len |-> 0]
    BY <1>2, <1>4, <2>1 DEF LocalEntry
  <2> HIDE DEF e
  <2>3. [name |-> n, dir |-> d, size |-> z, local_offset |-> layout_pos,
         local_header_len |-> h, local_zip64 |-> b,
         central_size_zip64 |-> FALSE, central_offset_zip64 |-> FALSE,
         central_offset |-> 0, central_len |-> 0] \in Entry
    BY DEF Entry
  <2> QED BY <2>2, <2>3
<1>7. Big(e) = Big(item)
  BY <1>4 DEF Big
<1>8. LocalFits(e)
  BY <1>2, <1>4, <1>7 DEF LocalFits, LocalHeader
<1> QED BY <1>1, <1>4, <1>5, <1>6, <1>8

LEMMA ExtraLength ==
  ASSUME NEW a \in Nat, NEW b \in Nat
  PROVE  /\ <<a, a>> \o <<b>> # <<>> /\ Len(<<a, a>> \o <<b>>) = 3
         /\ <<a, a>> \o <<>> # <<>> /\ Len(<<a, a>> \o <<>>) = 2
         /\ <<>> \o <<b>> # <<>> /\ Len(<<>> \o <<b>>) = 1
         /\ <<>> \o <<>> = <<>> /\ Len(<<>> \o <<>>) = 0
<1>1. <<a, a>> \o <<b>> # <<>> /\ Len(<<a, a>> \o <<b>>) = 3
  OBVIOUS
<1>2. Len(<<a, a>> \o <<>>) = 2
  OBVIOUS
<1>3. <<a, a>> \o <<>> # <<>>
  OBVIOUS
<1>4. Len(<<>> \o <<b>>) = 1
  OBVIOUS
<1>5. <<>> \o <<b>> # <<>>
  OBVIOUS
<1>6. <<>> \o <<>> = <<>>
  OBVIOUS
<1>7. Len(<<>>) = 0
  OBVIOUS
<1> QED BY <1>1, <1>2, <1>3, <1>4, <1>5, <1>6, <1>7

\* What both passes decide separately comes to the same length.
LEMMA CentralFieldsFit ==
  ASSUME NEW f \in Entry, layout_pos \in Nat
  PROVE  LET e == CentralFields(f) IN
         /\ e \in Entry /\ CentralFits(e) /\ (LocalFits(f) => LocalFits(e))
         /\ e.dir = f.dir /\ e.size = f.size
         /\ e.local_offset = f.local_offset /\ e.local_header_len = f.local_header_len
         /\ e.central_offset = layout_pos /\ e.central_len \in Nat /\ e.central_len > 0
<1> DEFINE e == CentralFields(f)
           size64 == ~ f.dir /\ f.size >= U32_MAX
           offset64 == f.local_offset >= U32_MAX
           reserved == CENTRAL_ENTRY_FIXED + f.name + CentralExtra(size64, offset64)
<1>1. /\ f.name \in Nat /\ f.size \in Nat /\ f.dir \in BOOLEAN
      /\ f.local_offset \in Nat /\ f.local_header_len \in Nat /\ f.local_zip64 \in BOOLEAN
  BY DEF Entry
<1>2. size64 \in BOOLEAN /\ offset64 \in BOOLEAN
  OBVIOUS
<1>3. /\ e.name = f.name /\ e.dir = f.dir /\ e.size = f.size
      /\ e.local_offset = f.local_offset /\ e.local_header_len = f.local_header_len
      /\ e.local_zip64 = f.local_zip64
      /\ e.central_size_zip64 = size64 /\ e.central_offset_zip64 = offset64
      /\ e.central_offset = layout_pos /\ e.central_len = reserved
  BY DEF CentralFields, Entry
<1>4. Big(e) = size64 /\ Big(f) = size64
  BY <1>3 DEF Big
<1>5. LocalFits(f) => LocalFits(e)
  BY <1>3, <1>4 DEF LocalFits, LocalHeader
<1>6. reserved \in Nat /\ reserved > 0
  BY <1>1, <1>2 DEF CentralExtra, CENTRAL_ENTRY_FIXED, ZIP64_EXTRA_HEADER
<1>7. reserved = CentralEntry(e).length
  <2> DEFINE sizes == IF e.central_size_zip64 THEN <<e.size, e.size>> ELSE <<>>
             offset == IF e.central_offset_zip64 THEN <<e.local_offset>> ELSE <<>>
             extra == sizes \o offset
             length == CENTRAL_ENTRY_FIXED + e.name
                       + (IF extra = <<>> THEN 0 ELSE ZIP64_EXTRA_HEADER + 8 * Len(extra))
  <2>1. CentralEntry(e).length = length
    BY DEF CentralEntry
  <2>2. e.size \in Nat /\ e.local_offset \in Nat
    BY <1>1, <1>3
  <2>3. CASE size64 /\ offset64
    <3>1. sizes = <<e.size, e.size>> /\ offset = <<e.local_offset>>
      BY <1>3, <2>3
    <3>2. extra # <<>> /\ Len(extra) = 3
      <4> HIDE DEF e
      <4> QED BY <2>2, <3>1, ExtraLength
    <3> HIDE DEF extra
    <3> QED BY <1>1, <1>3, <2>1, <2>3, <3>2
        DEF CentralExtra, CENTRAL_ENTRY_FIXED, ZIP64_EXTRA_HEADER
  <2>4. CASE size64 /\ ~ offset64
    <3>1. sizes = <<e.size, e.size>> /\ offset = <<>>
      BY <1>3, <2>4
    <3>2. extra # <<>> /\ Len(extra) = 2
      <4> HIDE DEF e
      <4> QED BY <2>2, <3>1, ExtraLength
    <3> HIDE DEF extra
    <3> QED BY <1>1, <1>3, <2>1, <2>4, <3>2
        DEF CentralExtra, CENTRAL_ENTRY_FIXED, ZIP64_EXTRA_HEADER
  <2>5. CASE ~ size64 /\ offset64
    <3>1. sizes = <<>> /\ offset = <<e.local_offset>>
      BY <1>3, <2>5
    <3>2. extra # <<>> /\ Len(extra) = 1
      <4> HIDE DEF e
      <4> QED BY <2>2, <3>1, ExtraLength
    <3> HIDE DEF extra
    <3> QED BY <1>1, <1>3, <2>1, <2>5, <3>2
        DEF CentralExtra, CENTRAL_ENTRY_FIXED, ZIP64_EXTRA_HEADER
  <2>6. CASE ~ size64 /\ ~ offset64
    <3>1. sizes = <<>> /\ offset = <<>>
      BY <1>3, <2>6
    <3>2. extra = <<>> /\ Len(extra) = 0
      <4> HIDE DEF e
      <4> QED BY <2>2, <3>1, ExtraLength
    <3> HIDE DEF extra
    <3> QED BY <1>1, <1>3, <2>1, <2>6, <3>2
        DEF CentralExtra, CENTRAL_ENTRY_FIXED, ZIP64_EXTRA_HEADER
  <2> QED BY <2>3, <2>4, <2>5, <2>6
<1>8. CentralFits(e)
  BY <1>3, <1>4, <1>7 DEF CentralFits
<1>9. e \in Entry
  <2>1. PICK a \in BOOLEAN, b \in BOOLEAN, r \in Nat : a = size64 /\ b = offset64 /\ r = reserved
    BY <1>2, <1>6
  <2>2. e = [f EXCEPT !.central_size_zip64 = a, !.central_offset_zip64 = b,
                      !.central_offset = layout_pos, !.central_len = r]
    BY <2>1 DEF CentralFields
  <2> HIDE DEF e
  <2> QED BY <2>2 DEF Entry
<1> QED BY <1>3, <1>5, <1>6, <1>8, <1>9

\* A description stays true while entries are added or get their central fields.
LEMMA DescriptionKept ==
  ASSUME NEW g, Describes(g), index # "ready",
         Len(entries) \in Nat, Len(entries') \in Nat, Len(entries) <= Len(entries'),
         listed \in Nat, listed' \in Nat, listed <= listed',
         \A i \in 1..listed : entries'[i] = entries[i],
         \A i \in 1..Len(entries) :
           /\ entries'[i].local_offset = entries[i].local_offset
           /\ entries'[i].local_header_len = entries[i].local_header_len
           /\ entries'[i].size = entries[i].size
  PROVE  Describes(g)'
<1>1. CASE g.kind = "local" /\ g.entry \in 1..Len(entries)
  BY <1>1 DEF Describes
<1>2. CASE g.kind = "data" /\ g.entry \in 1..Len(entries)
  BY <1>2 DEF Describes, DataStart
<1>3. CASE g.kind = "central" /\ g.entry \in 1..listed
  BY <1>3 DEF Describes
<1> QED BY <1>1, <1>2, <1>3 DEF Describes

LEMMA LayLocalInv ==
  ASSUME IndexInv, LayLocal
  PROVE  IndexInv'
<1> DEFINE item == Head(scanned)
           e == LocalEntry(item)
<1>0. PICK n \in Nat : n = Len(entries)
  BY DEF IndexInv, IndexTypeOK
<1>1. /\ index = "local" /\ scanned # <<>> /\ scanned \in Seq(Item) /\ listed = 0
      /\ layout_pos \in Nat /\ entries \in Seq(Entry) /\ Chain(segments, layout_pos)
  BY DEF LayLocal, IndexInv, IndexTypeOK, Extent
<1>2. item \in Item /\ Tail(scanned) \in Seq(Item)
  BY <1>1
<1>3. /\ e \in Entry /\ LocalFits(e) /\ (e.dir => e.size = 0)
      /\ e.local_offset = layout_pos /\ e.local_header_len > 0
      /\ e.size \in Nat /\ e.local_header_len \in Nat
  BY <1>1, <1>2, LocalEntryFits
<1>4. /\ entries' = Append(entries, e)
      /\ segments' = LET header == Piece(e.local_offset, e.local_header_len, "local", n + 1)
                         data == Piece(DataStart(e), e.size, "data", n + 1)
                     IN IF e.size > 0 THEN Append(Append(segments, header), data)
                                      ELSE Append(segments, header)
      /\ layout_pos' = DataStart(e) + e.size
      /\ scanned' = Tail(scanned)
      /\ UNCHANGED <<listed, cd_offset, zip64, total_size, index>>
  BY <1>0 DEF LayLocal
<1> HIDE DEF item, e
<1>5. PICK h \in Nat, z \in Nat, f \in Entry :
        f = e /\ h = e.local_header_len /\ z = e.size /\ h > 0
  BY <1>3
<1>6. PICK header, data :
        /\ header = Piece(layout_pos, h, "local", n + 1)
        /\ data = Piece(layout_pos + h, z, "data", n + 1)
  OBVIOUS
<1>7. DataStart(e) = layout_pos + h /\ DataStart(f) = layout_pos + h
      /\ layout_pos' = layout_pos + h + z
  BY <1>3, <1>4, <1>5 DEF DataStart
<1>8. header \in Segment /\ header.start = layout_pos /\ header.len = h
      /\ header.kind = "local" /\ header.entry = n + 1
  <2>1. n + 1 \in Nat /\ "local" \in SegmentKind
    BY <1>0 DEF SegmentKind
  <2> QED BY <1>1, <1>6, <2>1, PieceType
<1>9. data \in Segment /\ data.start = layout_pos + h /\ data.len = z
      /\ data.kind = "data" /\ data.entry = n + 1
  <2>1. n + 1 \in Nat /\ layout_pos + h \in Nat /\ "data" \in SegmentKind
    BY <1>0, <1>1 DEF SegmentKind
  <2> QED BY <1>6, <2>1, PieceType
<1>10. segments' = IF z > 0 THEN Append(Append(segments, header), data)
                            ELSE Append(segments, header)
  BY <1>3, <1>4, <1>5, <1>6, <1>7
<1>11. Chain(segments', layout_pos')
  <2>1. Chain(Append(segments, header), layout_pos + h)
    BY <1>1, <1>5, <1>8, ChainAppend
  <2>2. z > 0 => Chain(Append(Append(segments, header), data), layout_pos + h + z)
    BY <1>9, <2>1, ChainAppend
  <2>3. z = 0 => layout_pos + h + z = layout_pos + h
    BY <1>1
  <2> QED BY <1>7, <1>10, <2>1, <2>2, <2>3
<1>12. /\ Len(entries') = n + 1 /\ entries' \in Seq(Entry) /\ entries'[n + 1] = f
       /\ \A i \in 1..n : entries'[i] = entries[i]
       /\ \A i \in 1..(n + 1) : i \in 1..n \/ i = n + 1
  BY <1>0, <1>1, <1>3, <1>4, <1>5
<1>13. IndexTypeOK'
  <2>1. layout_pos' \in Nat /\ segments' \in Seq(Segment)
    BY <1>11 DEF Chain
  <2>2. listed' \in 0..Len(entries')
    BY <1>1, <1>4, <1>12
  <2> QED BY <1>2, <1>4, <1>12, <2>1, <2>2 DEF item, IndexInv, IndexTypeOK
<1>14. (\A k \in 1..Len(segments) : Describes(segments[k]))'
  <2>1. PICK m \in Nat : m = Len(segments) /\ segments \in Seq(Segment)
    BY <1>1 DEF Chain
  <2>2. Describes(header)' /\ Describes(data)'
    <3>1. n + 1 \in 1..Len(entries')
      BY <1>12
    <3>2. DataStart(entries'[n + 1]) = layout_pos + h
      BY <1>7, <1>12
    <3>3. Describes(header)'
      BY <1>3, <1>5, <1>8, <1>12, <3>1 DEF Describes
    <3>4. Describes(data)'
      BY <1>5, <1>9, <1>12, <3>1, <3>2 DEF Describes, DataStart
    <3> QED BY <3>3, <3>4
  <2>3. \A g : Describes(g) => Describes(g)'
    BY <1>0, <1>1, <1>4, <1>12, DescriptionKept
  <2>4. ASSUME NEW k \in 1..Len(segments')
        PROVE  segments'[k] = header \/ segments'[k] = data \/ \E j \in 1..m : segments'[k] = segments[j]
    BY <1>8, <1>9, <1>10, <2>1, <2>4
  <2> SUFFICES ASSUME NEW k \in 1..Len(segments') PROVE Describes(segments[k])'
    OBVIOUS
  <2>5. PICK g : g = segments'[k]
    OBVIOUS
  <2>6. Describes(g)'
    <3>1. \A j \in 1..m : Describes(segments[j])
      BY <2>1 DEF IndexInv
    <3>2. CASE \E j \in 1..m : g = segments[j]
      BY <2>3, <3>1, <3>2
    <3> QED BY <2>2, <2>4, <2>5, <3>2
  <2> QED BY <2>5, <2>6 DEF Describes
<1>15. (\A i \in 1..Len(entries) : LocalFits(entries[i]) /\ (entries[i].dir => entries[i].size = 0))'
  <2>1. \A i \in 1..n : LocalFits(entries[i]) /\ (entries[i].dir => entries[i].size = 0)
    BY <1>0 DEF IndexInv
  <2>2. LocalFits(f) /\ (f.dir => f.size = 0)
    BY <1>3, <1>5
  <2>3. \A i \in 1..(n + 1) : /\ LocalFits(entries'[i])
                              /\ entries'[i].dir => entries'[i].size = 0
    BY <1>12, <2>1, <2>2
  <2> QED BY <1>12, <2>3 DEF LocalFits, LocalHeader, Big
<1>16. listed' = 0 /\ index' = "local"
  BY <1>1, <1>4
<1>17. Extent' = layout_pos'
  BY <1>16 DEF Extent
<1>18. (\A i \in 1..listed : CentralFits(entries[i]))'
  BY <1>16
<1> QED BY <1>11, <1>13, <1>14, <1>15, <1>16, <1>17, <1>18 DEF IndexInv, Chain

LEMMA StartCentralInv ==
  ASSUME IndexInv, StartCentral
  PROVE  IndexInv'
<1>1. /\ index = "local" /\ index' = "central" /\ cd_offset' = layout_pos
      /\ UNCHANGED <<scanned, entries, segments, layout_pos, listed, zip64, total_size>>
  BY DEF StartCentral
<1>2. IndexTypeOK'
  BY <1>1 DEF IndexInv, IndexTypeOK
<1>3. Extent = layout_pos /\ Extent' = layout_pos
  BY <1>1 DEF Extent
<1>4. Chain(segments, Extent)'
  BY <1>1, <1>3 DEF IndexInv, Chain
<1>5. (\A k \in 1..Len(segments) : Describes(segments[k]))'
  <2> SUFFICES ASSUME NEW k \in 1..Len(segments) PROVE Describes(segments[k])'
    BY <1>1
  <2> QED BY <1>1 DEF IndexInv, Describes, DataStart
<1>6. /\ (\A i \in 1..Len(entries) :
            LocalFits(entries[i]) /\ (entries[i].dir => entries[i].size = 0))'
      /\ (\A i \in 1..listed : CentralFits(entries[i]))'
  BY <1>1 DEF IndexInv, LocalFits, LocalHeader, CentralFits, CentralEntry, Big
<1> QED BY <1>1, <1>2, <1>4, <1>5, <1>6 DEF IndexInv

LEMMA LayCentralInv ==
  ASSUME IndexInv, LayCentral
  PROVE  IndexInv'
<1>0. PICK n \in Nat : n = Len(entries)
  BY DEF IndexInv, IndexTypeOK
<1>1. /\ index = "central" /\ listed \in 0..n /\ listed < n /\ layout_pos \in Nat
      /\ entries \in Seq(Entry) /\ Chain(segments, layout_pos)
  BY <1>0 DEF LayCentral, IndexInv, IndexTypeOK, Extent
<1>2. PICK q \in 1..n : q = listed + 1
  BY <1>1
<1>3. PICK f \in Entry : f = entries[q]
  BY <1>0, <1>1, <1>2
<1>4. PICK e : e = CentralFields(f)
  OBVIOUS
<1>5. /\ e \in Entry /\ CentralFits(e) /\ (LocalFits(f) => LocalFits(e))
      /\ e.dir = f.dir /\ e.size = f.size
      /\ e.local_offset = f.local_offset /\ e.local_header_len = f.local_header_len
      /\ e.central_offset = layout_pos /\ e.central_len \in Nat /\ e.central_len > 0
  BY <1>1, <1>4, CentralFieldsFit
<1>6. /\ entries' = [entries EXCEPT ![q] = e]
      /\ segments' = Append(segments, Piece(e.central_offset, e.central_len, "central", q))
      /\ layout_pos' = layout_pos + e.central_len
      /\ listed' = q
      /\ UNCHANGED <<scanned, cd_offset, zip64, total_size, index>>
  BY <1>2, <1>3, <1>4 DEF LayCentral
<1>7. PICK g : g = Piece(e.central_offset, e.central_len, "central", q)
  OBVIOUS
<1>8. g \in Segment /\ g.start = layout_pos /\ g.len = e.central_len /\ g.kind = "central" /\ g.entry = q
  <2>1. q \in Nat /\ "central" \in SegmentKind /\ e.central_offset \in Nat
    BY <1>1, <1>5 DEF SegmentKind
  <2> QED BY <1>5, <1>7, <2>1, PieceType
<1>9. Chain(segments', layout_pos')
  BY <1>1, <1>5, <1>6, <1>7, <1>8, ChainAppend
<1>10. /\ entries' \in Seq(Entry) /\ Len(entries') = n /\ entries'[q] = e
       /\ \A i \in 1..n : i # q => entries'[i] = entries[i]
  BY <1>0, <1>1, <1>2, <1>5, <1>6
<1>11. IndexTypeOK'
  <2>1. layout_pos' \in Nat /\ segments' \in Seq(Segment)
    BY <1>9 DEF Chain
  <2>2. listed' \in 0..Len(entries')
    BY <1>2, <1>6, <1>10
  <2> QED BY <1>6, <1>10, <2>1, <2>2 DEF IndexInv, IndexTypeOK
<1>12. (\A k \in 1..Len(segments) : Describes(segments[k]))'
  <2>1. PICK m \in Nat : m = Len(segments) /\ segments \in Seq(Segment)
    BY <1>1 DEF Chain
  <2>2. Describes(g)'
    <3>1. q \in 1..listed'
      BY <1>2, <1>6
    <3> QED BY <1>5, <1>8, <1>10, <3>1 DEF Describes
  <2>3. \A d : Describes(d) => Describes(d)'
    <3>1. \A i \in 1..listed : entries'[i] = entries[i]
      BY <1>1, <1>2, <1>10
    <3>2. \A i \in 1..n : /\ entries'[i].local_offset = entries[i].local_offset
                          /\ entries'[i].local_header_len = entries[i].local_header_len
                          /\ entries'[i].size = entries[i].size
      BY <1>3, <1>5, <1>10
    <3>3. listed' \in Nat /\ listed <= listed' /\ listed \in Nat
      BY <1>1, <1>2, <1>6
    <3> QED BY <1>0, <1>1, <1>10, <3>1, <3>2, <3>3, DescriptionKept
  <2> SUFFICES ASSUME NEW k \in 1..Len(segments') PROVE Describes(segments[k])'
    OBVIOUS
  <2>4. segments'[k] = g \/ \E j \in 1..m : segments'[k] = segments[j]
    BY <1>6, <1>7, <1>8, <2>1
  <2>5. PICK d : d = segments'[k]
    OBVIOUS
  <2>6. \A j \in 1..m : Describes(segments[j])
    BY <2>1 DEF IndexInv
  <2>7. Describes(d)'
    BY <2>2, <2>3, <2>4, <2>5, <2>6
  <2> QED BY <2>5, <2>7 DEF Describes
<1>13. (\A i \in 1..Len(entries) : LocalFits(entries[i]) /\ (entries[i].dir => entries[i].size = 0))'
  <2>1. \A i \in 1..n : LocalFits(entries[i]) /\ (entries[i].dir => entries[i].size = 0)
    BY <1>0 DEF IndexInv
  <2>2. \A i \in 1..n : LocalFits(entries'[i]) /\ (entries'[i].dir => entries'[i].size = 0)
    BY <1>3, <1>5, <1>10, <2>1
  <2> QED BY <1>10, <2>2 DEF LocalFits, LocalHeader, Big
<1>14. (\A i \in 1..listed : CentralFits(entries[i]))'
  <2>1. \A i \in 1..q : CentralFits(entries'[i])
    <3> SUFFICES ASSUME NEW i \in 1..q PROVE CentralFits(entries'[i])
      OBVIOUS
    <3>1. CASE i = q
      BY <1>5, <1>10, <3>1
    <3>2. CASE i # q
      <4>1. i \in 1..listed /\ i \in 1..n
        BY <1>1, <1>2, <3>2
      <4>2. CentralFits(entries[i])
        BY <4>1 DEF IndexInv
      <4> QED BY <1>10, <3>2, <4>1, <4>2
    <3> QED BY <3>1, <3>2
  <2> QED BY <1>6, <2>1 DEF CentralFits, CentralEntry, Big
<1>15. Extent' = layout_pos' /\ index' = "central"
  BY <1>1, <1>6 DEF Extent
<1> QED BY <1>9, <1>11, <1>12, <1>13, <1>14, <1>15 DEF IndexInv, Chain

LEMMA FinishIndexInv ==
  ASSUME IndexInv, FinishIndex
  PROVE  IndexInv' /\ segments' # <<>> /\ index' = "ready"
<1>1. /\ index = "central" /\ index' = "ready" /\ listed = Len(entries)
      /\ layout_pos \in Nat /\ Chain(segments, layout_pos)
      /\ UNCHANGED <<scanned, entries, layout_pos, listed, cd_offset>>
      /\ zip64' = NeedsZip64Eocd
  BY DEF FinishIndex, IndexInv, IndexTypeOK, Extent
<1>2. PICK far \in BOOLEAN, x \in Nat : far = NeedsZip64Eocd /\ x = layout_pos
  BY <1>1 DEF NeedsZip64Eocd
<1>3. PICK after \in Nat : after = IF far THEN x + ZIP64_EOCD_LEN + ZIP64_LOCATOR_LEN ELSE x
  BY DEF ZIP64_EOCD_LEN, ZIP64_LOCATOR_LEN
<1>p. PICK p : p = Piece(x, ZIP64_EOCD_LEN, "zip64_eocd", 0)
  OBVIOUS
<1>q. PICK q : q = Piece(x + ZIP64_EOCD_LEN, ZIP64_LOCATOR_LEN, "zip64_locator", 0)
  OBVIOUS
<1>z. PICK z : z = Piece(after, EOCD_FIXED, "eocd", 0)
  OBVIOUS
<1>b. PICK before : before = IF far THEN Append(Append(segments, p), q) ELSE segments
  OBVIOUS
<1>4. segments' = Append(before, z) /\ total_size' = after + EOCD_FIXED
  BY <1>2, <1>3, <1>p, <1>q, <1>z, <1>b DEF FinishIndex
<1>5. /\ ZIP64_EOCD_LEN \in Nat \ {0} /\ ZIP64_LOCATOR_LEN \in Nat \ {0} /\ EOCD_FIXED \in Nat \ {0}
      /\ "zip64_eocd" \in SegmentKind /\ "zip64_locator" \in SegmentKind
      /\ "eocd" \in SegmentKind /\ 0 \in Nat
      /\ x + ZIP64_EOCD_LEN \in Nat
  BY DEF ZIP64_EOCD_LEN, ZIP64_LOCATOR_LEN, EOCD_FIXED, SegmentKind
<1>6. p \in Segment /\ p.start = x /\ p.len = ZIP64_EOCD_LEN /\ p.kind = "zip64_eocd"
  BY <1>p, <1>5, PieceType
<1>7. /\ q \in Segment /\ q.start = x + ZIP64_EOCD_LEN
      /\ q.len = ZIP64_LOCATOR_LEN /\ q.kind = "zip64_locator"
  BY <1>q, <1>5, PieceType
<1>8. z \in Segment /\ z.start = after /\ z.len = EOCD_FIXED /\ z.kind = "eocd"
  BY <1>z, <1>5, PieceType
<1>9. Chain(before, after)
  <2>1. CASE far
    <3>1. Chain(Append(segments, p), x + ZIP64_EOCD_LEN)
      <4>1. p.len > 0 /\ Chain(segments, x)
        BY <1>1, <1>2, <1>5, <1>6
      <4> QED BY <1>6, <4>1, ChainAppend
    <3>2. Chain(Append(Append(segments, p), q), x + ZIP64_EOCD_LEN + ZIP64_LOCATOR_LEN)
      <4>1. q.len > 0
        BY <1>5, <1>7
      <4> QED BY <1>7, <3>1, <4>1, ChainAppend
    <3> QED BY <1>3, <1>b, <2>1, <3>2
  <2>2. CASE ~ far
    BY <1>1, <1>2, <1>3, <1>b, <2>2
  <2> QED BY <2>1, <2>2
<1>10. Chain(segments', total_size')
  <2>1. z.len > 0
    BY <1>5, <1>8
  <2> QED BY <1>4, <1>8, <1>9, <2>1, ChainAppend
<1>11. segments' # <<>>
  BY <1>4, <1>8, <1>9 DEF Chain
<1>12. IndexTypeOK'
  <2>1. total_size' \in Nat /\ segments' \in Seq(Segment)
    BY <1>10 DEF Chain
  <2>2. zip64' \in BOOLEAN
    BY <1>1 DEF NeedsZip64Eocd
  <2> QED BY <1>1, <2>1, <2>2 DEF IndexInv, IndexTypeOK
<1>13. (\A k \in 1..Len(segments) : Describes(segments[k]))'
  <2>1. PICK m \in Nat : m = Len(segments) /\ segments \in Seq(Segment)
    BY <1>1 DEF Chain
  <2>2. Describes(p)' /\ Describes(q)' /\ Describes(z)'
    <3>1. total_size' - EOCD_FIXED = after
      BY <1>4 DEF EOCD_FIXED
    <3>2. Describes(z)'
      BY <1>1, <1>8, <3>1 DEF Describes
    <3>3. Describes(p)' /\ Describes(q)'
      BY <1>1, <1>2, <1>6, <1>7 DEF Describes
    <3> QED BY <3>2, <3>3
  <2>3. \A d : Describes(d) => Describes(d)'
    <3>1. Len(entries) \in Nat /\ listed \in Nat
      BY <1>1 DEF IndexInv, IndexTypeOK
    <3> QED BY <1>1, <3>1, DescriptionKept
  <2> SUFFICES ASSUME NEW k \in 1..Len(segments') PROVE Describes(segments[k])'
    OBVIOUS
  <2>4. segments'[k] \in {p, q, z} \/ \E j \in 1..m : segments'[k] = segments[j]
    <3>1. PICK b \in Nat : b = Len(before) /\ before \in Seq(Segment)
      BY <1>9 DEF Chain
    <3>2. segments'[k] = z \/ \E j \in 1..b : segments'[k] = before[j]
      BY <1>4, <1>8, <3>1
    <3>3. \A j \in 1..b : before[j] \in {p, q} \/ \E i \in 1..m : before[j] = segments[i]
      <4> SUFFICES ASSUME NEW j \in 1..b
                   PROVE before[j] \in {p, q} \/ \E i \in 1..m : before[j] = segments[i]
        OBVIOUS
      <4>1. CASE far
        BY <1>b, <1>6, <1>7, <2>1, <3>1, <4>1
      <4>2. CASE ~ far
        BY <1>b, <2>1, <3>1, <4>2
      <4> QED BY <4>1, <4>2
    <3> QED BY <3>2, <3>3
  <2>5. PICK d : d = segments'[k]
    OBVIOUS
  <2>6. \A j \in 1..m : Describes(segments[j])
    BY <2>1 DEF IndexInv
  <2>7. Describes(d)'
    BY <2>2, <2>3, <2>4, <2>5, <2>6
  <2> QED BY <2>5, <2>7 DEF Describes
<1>14. /\ (\A i \in 1..Len(entries) :
             LocalFits(entries[i]) /\ (entries[i].dir => entries[i].size = 0))'
       /\ (\A i \in 1..listed : CentralFits(entries[i]))'
  BY <1>1 DEF IndexInv, LocalFits, LocalHeader, CentralFits, CentralEntry, Big
<1>15. Extent' = total_size'
  BY <1>1 DEF Extent
<1> QED BY <1>1, <1>10, <1>11, <1>12, <1>13, <1>14, <1>15 DEF IndexInv, Chain

\* A slice of a segment is the slice of the piece it describes.
LEMMA SliceFaithful ==
  ASSUME IndexInv, index = "ready", NEW g \in Segment, Describes(g),
         NEW p \in Nat, NEW n \in Nat, g.start <= p, (p - g.start) + n <= g.len
  PROVE  Faithful([kind |-> g.kind, entry |-> g.entry, from |-> p,
                   at |-> p - g.start, count |-> n])
<1>1. g.start \in Nat /\ g.len \in Nat /\ g.entry \in Nat
  BY DEF Segment
<1>2. PICK i \in Nat, a \in Nat, z \in Nat : i = g.entry /\ a = g.start /\ z = g.len
  BY <1>1
<1>3. listed \in 0..Len(entries) /\ Len(entries) \in Nat
  BY DEF IndexInv, IndexTypeOK
<1>4. Begins(g.kind, i) = a /\ PieceLength(g.kind, i) = z
  <2>1. CASE g.kind = "local" /\ i \in 1..Len(entries)
    BY <1>2, <2>1 DEF IndexInv, Describes, Begins, PieceLength, WrittenLength, LocalFits
  <2>2. CASE g.kind = "data"
    BY <1>2, <2>2 DEF Describes, Begins, PieceLength
  <2>3. CASE g.kind = "central" /\ i \in 1..listed
    BY <1>2, <2>3 DEF IndexInv, Describes, Begins, PieceLength, WrittenLength, CentralFits
  <2>4. CASE g.kind = "zip64_eocd"
    BY <1>2, <2>4 DEF Describes, Begins, PieceLength, WrittenLength, zip64_eocd_offset
  <2>5. CASE g.kind = "zip64_locator"
    BY <1>2, <2>5 DEF Describes, Begins, PieceLength, WrittenLength, zip64_eocd_offset
  <2>6. CASE g.kind = "eocd"
    BY <1>2, <2>6 DEF Describes, Begins, PieceLength, WrittenLength
  <2> QED BY <1>2, <2>1, <2>2, <2>3, <2>4, <2>5, <2>6 DEF Describes
<1>5. p = a + (p - a) /\ (p - a) + n <= z
  BY <1>2
<1> QED BY <1>2, <1>4, <1>5 DEF Faithful

-----------------------------------------------------------------------------
(***************************************************************************)
(* The readers.  A reader that computes a CRC is the only one to compute   *)
(* this entry's, and its cell is busy until it has finished.               *)
(***************************************************************************)
EntryAt(p) == segments[FindSegment(p)].entry

ReaderInv(s) ==
  /\ s.status # "none" => index = "ready" /\ s.current_pos <= s.end /\ s.end <= total_size
  /\ s.status \in {"loop", "crc"} =>
       /\ s.pos = s.current_pos + s.written
       /\ s.written <= s.buf /\ s.pos <= s.end
       /\ s.written > 0 => s.run.from + s.run.count = s.pos /\ Faithful(s.run)
  /\ s.status = "crc" =>
       /\ More(s)
       /\ EntryAt(s.pos) \in 1..Len(entries) /\ crc[EntryAt(s.pos)].state = "busy"
  /\ s.status = "failed" => disturbed

CellsTypeOK ==
  /\ crc \in [1..Len(entries) -> Cell]
  /\ file \in [1..Len(entries) -> [len : Nat, version : Nat]]
  /\ sent \in [1..Len(entries) -> SUBSET Cell]

CellInv(i) ==
  /\ crc[i].state = "ok" => crc[i].total = entries[i].size
  /\ \A c \in sent[i] : c = crc[i] /\ c.state = "ok"
  /\ ~ disturbed => /\ file[i].len = entries[i].size
                    /\ crc[i].state # "error" /\ crc[i].total <= entries[i].size

Alone(q, r) ==
  rd[q].status = "crc" /\ rd[r].status = "crc" => EntryAt(rd[q].pos) # EntryAt(rd[r].pos)

ZipInv ==
  /\ IndexInv
  /\ rd \in [Reader -> State] /\ disturbed \in BOOLEAN
  /\ \A r \in Reader : ReaderInv(rd[r])
  /\ \A q, r \in Reader : q # r => Alone(q, r)
  /\ index = "ready" => CellsTypeOK /\ \A i \in 1..Len(entries) : CellInv(i)

LEMMA FrozenIndex ==
  ASSUME IndexInv, UNCHANGED indexVars
  PROVE  /\ IndexInv'
         /\ \A p : FindSegment(p)' = FindSegment(p) /\ EntryAt(p)' = EntryAt(p)
         /\ \A s : More(s)' <=> More(s)
         /\ \A run : Faithful(run)' <=> Faithful(run)
<1> USE DEF indexVars
<1>1. IndexInv'
  <2>1. IndexTypeOK' /\ Extent' = Extent
    BY DEF IndexInv, IndexTypeOK, Extent
  <2>2. (\A k \in 1..Len(segments) : Describes(segments[k]))'
    <3> SUFFICES ASSUME NEW k \in 1..Len(segments) PROVE Describes(segments[k])'
      OBVIOUS
    <3> QED BY DEF IndexInv, Describes, DataStart
  <2>3. /\ (\A i \in 1..Len(entries) :
              LocalFits(entries[i]) /\ (entries[i].dir => entries[i].size = 0))'
        /\ (\A i \in 1..listed : CentralFits(entries[i]))'
    BY DEF IndexInv, LocalFits, LocalHeader, CentralFits, CentralEntry, Big
  <2>4. Chain(segments, Extent)'
    BY <2>1 DEF IndexInv, Chain
  <2> QED BY <2>1, <2>2, <2>3, <2>4 DEF IndexInv
<1>2. ASSUME NEW p PROVE FindSegment(p)' = FindSegment(p) /\ EntryAt(p)' = EntryAt(p)
  <2>1. FindSegment(p)' = FindSegment(p)
    BY DEF FindSegment, PartitionPoint, SegmentEnd
  <2> QED BY <2>1 DEF EntryAt
<1>3. \A s : More(s)' <=> More(s)
  BY DEF More
<1>4. ASSUME NEW run PROVE Faithful(run)' <=> Faithful(run)
  <2>1. WrittenLength(run.kind, run.entry)' = WrittenLength(run.kind, run.entry)
    BY DEF WrittenLength, LocalHeader, CentralEntry
  <2>2. Begins(run.kind, run.entry)' = Begins(run.kind, run.entry)
    BY DEF Begins, DataStart, zip64_eocd_offset
  <2> QED BY <2>1, <2>2 DEF Faithful, PieceLength
<1> QED BY <1>1, <1>2, <1>3, <1>4

LEMMA ReaderKept ==
  ASSUME IndexInv, UNCHANGED indexVars, crc' = crc, disturbed => disturbed',
         NEW s, ReaderInv(s)
  PROVE  ReaderInv(s)'
<1>1. index' = index /\ total_size' = total_size /\ entries' = entries
  BY DEF indexVars
<1>2. More(s)' <=> More(s)
  BY FrozenIndex
<1>3. Faithful(s.run)' <=> Faithful(s.run)
  BY FrozenIndex
<1>4. EntryAt(s.pos)' = EntryAt(s.pos)
  BY FrozenIndex
<1> QED BY <1>1, <1>2, <1>3, <1>4 DEF ReaderInv

\* A step of one reader that gives it state s.
LEMMA ReaderStep ==
  ASSUME ZipInv, UNCHANGED indexVars, index = "ready",
         NEW r \in Reader, NEW s \in State, Set(r, s), ReaderInv(s)',
         disturbed' \in BOOLEAN, disturbed => disturbed',
         CellsTypeOK', \A i \in 1..Len(entries) : CellInv(i)',
         \A q \in Reader : q # r /\ rd[q].status = "crc" =>
           /\ crc'[EntryAt(rd[q].pos)] = crc[EntryAt(rd[q].pos)]
           /\ s.status = "crc" => EntryAt(rd[q].pos) # EntryAt(s.pos)
  PROVE  ZipInv'
<1>1. rd' \in [Reader -> State] /\ rd'[r] = s /\ \A q \in Reader : q # r => rd'[q] = rd[q]
  BY DEF ZipInv, Set
<1>2. IndexInv /\ IndexInv' /\ index' = "ready" /\ total_size' = total_size /\ entries' = entries
  BY FrozenIndex DEF ZipInv, indexVars
<1>3. \A p : EntryAt(p)' = EntryAt(p)
  BY <1>2, FrozenIndex
<1>4. (\A q \in Reader : ReaderInv(rd[q]))'
  <2> SUFFICES ASSUME NEW q \in Reader PROVE ReaderInv(rd[q])'
    OBVIOUS
  <2>1. PICK t : t = rd'[q]
    OBVIOUS
  <2>2. ReaderInv(t)'
    <3>1. CASE q = r
      BY <1>1, <2>1, <3>1
    <3>2. CASE q # r
      <4>1. t = rd[q] /\ ReaderInv(t)
        BY <1>1, <2>1, <3>2 DEF ZipInv
      <4>2. /\ More(t)' <=> More(t)
            /\ Faithful(t.run)' <=> Faithful(t.run)
            /\ EntryAt(t.pos)' = EntryAt(t.pos)
        BY <1>2, FrozenIndex
      <4>3. t.status = "crc" => crc'[EntryAt(t.pos)] = crc[EntryAt(t.pos)]
        BY <3>2, <4>1
      <4> QED BY <1>2, <4>1, <4>2, <4>3 DEF ReaderInv
    <3> QED BY <3>1, <3>2
  <2> QED BY <2>1, <2>2 DEF ReaderInv
<1>5. (\A p, q \in Reader : p # q => Alone(p, q))'
  <2> SUFFICES ASSUME NEW p \in Reader, NEW q \in Reader, p # q PROVE Alone(p, q)'
    OBVIOUS
  <2>1. rd'[p].status = "crc" /\ rd'[q].status = "crc" =>
          EntryAt(rd'[p].pos) # EntryAt(rd'[q].pos)
    <3>1. CASE p = r
      BY <1>1, <3>1
    <3>2. CASE q = r
      BY <1>1, <3>2
    <3>3. CASE p # r /\ q # r
      BY <1>1, <3>3 DEF ZipInv, Alone
    <3> QED BY <3>1, <3>2, <3>3
  <2>2. PICK a, b : a = rd'[p].pos /\ b = rd'[q].pos
    OBVIOUS
  <2>3. EntryAt(a)' = EntryAt(a) /\ EntryAt(b)' = EntryAt(b)
    BY <1>3
  <2> QED BY <2>1, <2>2, <2>3 DEF Alone, EntryAt
<1>6. (\A i \in 1..Len(entries) : CellInv(i))'
  BY <1>2 DEF CellInv
<1> QED BY <1>1, <1>2, <1>4, <1>5, <1>6 DEF ZipInv

\* A step of one reader that leaves cells and files alone.
LEMMA PlainStep ==
  ASSUME ZipInv, UNCHANGED <<indexVars, crc, file, sent>>, index = "ready",
         NEW r \in Reader, NEW s \in State, Set(r, s), ReaderInv(s)', s.status # "crc",
         disturbed' \in BOOLEAN, disturbed => disturbed'
  PROVE  ZipInv'
<1>1. CellsTypeOK' /\ entries' = entries
  BY DEF ZipInv, CellsTypeOK, indexVars
<1>2. \A i \in 1..Len(entries) : CellInv(i)'
  BY <1>1 DEF ZipInv, CellInv
<1> QED BY <1>1, <1>2, ReaderStep

LEMMA TurnSegment ==
  ASSUME ZipInv, NEW r \in Reader, rd[r].status \in {"loop", "crc"}, More(rd[r])
  PROVE  LET k == FindSegment(rd[r].pos) IN
         /\ index = "ready" /\ k \in 1..Len(segments)
         /\ segments[k] \in Segment /\ Describes(segments[k])
         /\ segments[k].start <= rd[r].pos /\ rd[r].pos < EndOf(segments[k])
<1>1. index = "ready" /\ rd[r].pos \in Nat /\ rd[r].pos < total_size
  BY DEF ZipInv, ReaderInv, State, More
<1>2. Chain(segments, total_size)
  BY <1>1 DEF ZipInv, IndexInv, Extent
<1>3. PICK p \in Nat : p = rd[r].pos
  BY <1>1
<1>4. /\ FindSegment(p) \in 1..Len(segments)
      /\ segments[FindSegment(p)] \in Segment
      /\ segments[FindSegment(p)].start <= p
      /\ p < EndOf(segments[FindSegment(p)])
  BY <1>1, <1>2, <1>3, ChainSearch
<1>5. Describes(segments[FindSegment(p)])
  BY <1>4 DEF ZipInv, IndexInv
<1> QED BY <1>1, <1>3, <1>4, <1>5

LEMMA HeaderHasEntry ==
  ASSUME ZipInv, NEW g, Describes(g), HoldsCrc(g)
  PROVE  g.entry \in 1..Len(entries)
<1>1. listed \in 0..Len(entries) /\ Len(entries) \in Nat
  BY DEF ZipInv, IndexInv, IndexTypeOK
<1> QED BY <1>1 DEF Describes, HoldsCrc

LEMMA WantBounds ==
  ASSUME NEW s \in State, NEW g \in Segment, s.written < s.buf, s.pos < s.end,
         g.start <= s.pos, s.pos < EndOf(g)
  PROVE  /\ Want(s, g) \in Nat \ {0} /\ s.written + Want(s, g) <= s.buf
         /\ (s.pos - g.start) + Want(s, g) <= g.len /\ s.pos + Want(s, g) <= s.end
<1>1. /\ s.written \in Nat /\ s.buf \in Nat /\ s.pos \in Nat /\ s.end \in Nat
      /\ g.start \in Nat /\ g.len \in Nat
  BY DEF State, Segment
<1> QED BY <1>1 DEF Want, Lower, EndOf

\* A turn of the loop that produces no more than it wants.
LEMMA Produces ==
  ASSUME ZipInv, NEW r \in Reader, NEW n \in Nat,
         rd[r].status = "loop", More(rd[r]),
         n <= Want(rd[r], segments[FindSegment(rd[r].pos)]),
         Produce(r, segments[FindSegment(rd[r].pos)], n)
  PROVE  \E s \in State : Set(r, s) /\ ReaderInv(s) /\ s.status = "loop"
<1>1. PICK g \in Segment :
        /\ g = segments[FindSegment(rd[r].pos)] /\ Describes(g) /\ index = "ready"
        /\ g.start <= rd[r].pos /\ rd[r].pos < EndOf(g)
  BY TurnSegment
<1>2. PICK s \in State : s = rd[r]
  BY DEF ZipInv
<1>3. /\ s.written \in Nat /\ s.buf \in Nat /\ s.pos \in Nat /\ s.end \in Nat
      /\ s.current_pos \in Nat /\ total_size \in Nat
      /\ g.start \in Nat /\ g.len \in Nat /\ g.kind \in SegmentKind /\ g.entry \in Nat
  BY DEF State, Segment, ZipInv, IndexInv, IndexTypeOK
<1>4. /\ Want(s, g) \in Nat /\ s.written + Want(s, g) <= s.buf
      /\ (s.pos - g.start) + Want(s, g) <= g.len /\ s.pos + Want(s, g) <= s.end
  BY <1>1, <1>2, WantBounds DEF More
<1>5. /\ s.written + n <= s.buf /\ (s.pos - g.start) + n <= g.len /\ s.pos + n <= s.end
      /\ s.pos - g.start \in Nat
  BY <1>1, <1>2, <1>3, <1>4
<1>6. PICK run : run = [kind |-> g.kind, entry |-> g.entry, from |-> s.pos,
                        at |-> s.pos - g.start, count |-> n]
  OBVIOUS
<1>7. run \in Run /\ run.from = s.pos /\ run.count = n /\ Faithful(run)
  <2>1. Faithful([kind |-> g.kind, entry |-> g.entry, from |-> s.pos,
                  at |-> s.pos - g.start, count |-> n])
    BY <1>1, <1>2, <1>3, <1>5, SliceFaithful DEF ZipInv
  <2> QED BY <1>3, <1>5, <1>6, <2>1 DEF Run
<1>8. PICK p \in Nat, w \in Nat : p = s.pos + n /\ w = s.written + n
  BY <1>3
<1>9. PICK t : t = [s EXCEPT !.pos = p, !.written = w, !.run = run]
  OBVIOUS
<1>10. t \in State
  BY <1>7, <1>9 DEF State
<1>11. /\ t.pos = p /\ t.written = w /\ t.run = run
       /\ t.current_pos = s.current_pos /\ t.end = s.end /\ t.buf = s.buf /\ t.status = s.status
  BY <1>9 DEF State
<1>12. Set(r, t)
  BY <1>1, <1>2, <1>6, <1>8, <1>9 DEF Produce
<1>13. ReaderInv(s) /\ s.status = "loop"
  BY <1>2 DEF ZipInv
<1>14. ReaderInv(t) /\ t.status = "loop"
  <2>1. index = "ready" /\ t.current_pos <= t.end /\ t.end <= total_size
    BY <1>11, <1>13 DEF ReaderInv
  <2>2. s.pos = s.current_pos + s.written
    BY <1>13 DEF ReaderInv
  <2>3. t.pos = t.current_pos + t.written
    BY <1>3, <1>8, <1>11, <2>2
  <2>4. t.written <= t.buf /\ t.pos <= t.end
    BY <1>5, <1>8, <1>11
  <2>5. t.run.from + t.run.count = t.pos /\ Faithful(t.run)
    BY <1>7, <1>8, <1>11
  <2>6. t.status = "loop"
    BY <1>11, <1>13
  <2> QED BY <2>1, <2>3, <2>4, <2>5, <2>6 DEF ReaderInv
<1> QED BY <1>10, <1>12, <1>14

LEMMA OpenInv ==
  ASSUME ZipInv, NEW r \in Reader, Open(r)
  PROVE  ZipInv'
<1>1. index = "ready" /\ UNCHANGED <<indexVars, crc, file, disturbed, sent>> /\ total_size \in Nat
  BY DEF Open, ZipInv, IndexInv, IndexTypeOK
<1>2. PICK a \in Nat, e \in Nat, b \in Nat \ {0} :
        /\ a < e /\ e <= total_size
        /\ Set(r, [rd[r] EXCEPT !.start = a, !.end = e, !.buf = b, !.current_pos = a,
                                !.pos = a, !.status = "idle"])
  <2>1. \A p \in {p \in RangePoints : p <= total_size} \cup {total_size} : p \in Nat /\ p <= total_size
    BY <1>1, ReaderAssumption
  <2> QED BY <2>1, ReaderAssumption DEF Open
<1>3. PICK s \in State : s = rd[r]
  BY DEF ZipInv
<1>4. PICK t : t = [s EXCEPT !.start = a, !.end = e, !.buf = b, !.current_pos = a,
                             !.pos = a, !.status = "idle"]
  OBVIOUS
<1>5. t \in State
  BY <1>3, <1>4 DEF State
<1>6. t.end = e /\ t.current_pos = a /\ t.status = "idle"
  BY <1>4 DEF State
<1>7. ReaderInv(t)
  BY <1>1, <1>2, <1>6 DEF ReaderInv
<1>8. ReaderInv(t)'
  BY <1>1, <1>7, ReaderKept DEF ZipInv
<1> QED BY <1>1, <1>2, <1>3, <1>4, <1>5, <1>6, <1>8, PlainStep DEF ZipInv

LEMMA CallAtEndInv ==
  ASSUME ZipInv, NEW r \in Reader, CallAtEnd(r)
  PROVE  ZipInv'
<1>1. PICK s \in State : s = rd[r]
  BY DEF ZipInv
<1>2. ReaderInv(s) /\ s.status = "idle" /\ UNCHANGED <<indexVars, crc, file, disturbed, sent>>
  BY <1>1 DEF ZipInv, CallAtEnd
<1>3. PICK t : t = [s EXCEPT !.status = "ended"]
  OBVIOUS
<1>4. t \in State /\ t.status = "ended" /\ t.current_pos = s.current_pos /\ t.end = s.end
  BY <1>3 DEF State
<1>5. ReaderInv(t) /\ index = "ready"
  BY <1>2, <1>4 DEF ReaderInv
<1>6. ReaderInv(t)'
  BY <1>2, <1>5, ReaderKept DEF ZipInv
<1>7. Set(r, t)
  BY <1>1, <1>3 DEF CallAtEnd
<1> QED BY <1>2, <1>4, <1>5, <1>6, <1>7, PlainStep DEF ZipInv

LEMMA CallInv ==
  ASSUME ZipInv, NEW r \in Reader, Call(r)
  PROVE  ZipInv'
<1>1. PICK s \in State : s = rd[r]
  BY DEF ZipInv
<1>2. /\ ReaderInv(s) /\ s.status = "idle" /\ s.current_pos < s.end
      /\ UNCHANGED <<indexVars, crc, file, disturbed, sent>>
  BY <1>1 DEF ZipInv, Call
<1>3. PICK t : t = [s EXCEPT !.pos = s.current_pos, !.written = 0, !.status = "loop"]
  OBVIOUS
<1>4. s.current_pos \in Nat /\ s.end \in Nat /\ s.buf \in Nat \ {0}
  BY DEF State
<1>5. /\ t \in State /\ t.status = "loop" /\ t.pos = s.current_pos /\ t.written = 0
      /\ t.current_pos = s.current_pos /\ t.end = s.end /\ t.buf = s.buf
  BY <1>3, <1>4 DEF State
<1>6. ReaderInv(t) /\ index = "ready"
  BY <1>2, <1>4, <1>5 DEF ReaderInv
<1>7. ReaderInv(t)'
  BY <1>2, <1>6, ReaderKept DEF ZipInv
<1>8. Set(r, t)
  BY <1>1, <1>3 DEF Call
<1> QED BY <1>2, <1>5, <1>6, <1>7, <1>8, PlainStep DEF ZipInv

LEMMA ReturnInv ==
  ASSUME ZipInv, NEW r \in Reader, Return(r)
  PROVE  ZipInv'
<1>1. PICK s \in State : s = rd[r]
  BY DEF ZipInv
<1>2. /\ ReaderInv(s) /\ s.status = "loop"
      /\ UNCHANGED <<indexVars, crc, file, disturbed, sent>>
  BY <1>1 DEF ZipInv, Return
<1>3. PICK status \in {"ended", "idle"} : status = IF s.written = 0 THEN "ended" ELSE "idle"
  OBVIOUS
<1>4. PICK t : t = [s EXCEPT !.current_pos = s.pos, !.status = status]
  OBVIOUS
<1>5. t \in State /\ t.status = status /\ t.current_pos = s.pos /\ t.end = s.end
  BY <1>4 DEF State
<1>6. ReaderInv(t) /\ index = "ready"
  BY <1>2, <1>3, <1>5 DEF ReaderInv
<1>7. ReaderInv(t)'
  BY <1>2, <1>6, ReaderKept DEF ZipInv
<1>8. Set(r, t)
  BY <1>1, <1>3, <1>4 DEF Return
<1> QED BY <1>2, <1>3, <1>5, <1>6, <1>7, <1>8, PlainStep DEF ZipInv

LEMMA FailInv ==
  ASSUME ZipInv, NEW r \in Reader, rd[r].status \in {"loop", "crc"}, Fail(r),
         UNCHANGED <<indexVars, crc, file, sent>>, disturbed' = TRUE
  PROVE  ZipInv'
<1>1. PICK s \in State : s = rd[r]
  BY DEF ZipInv
<1>2. ReaderInv(s) /\ s.status # "none"
  BY <1>1 DEF ZipInv
<1>3. PICK t : t = [s EXCEPT !.status = "failed"]
  OBVIOUS
<1>4. t \in State /\ t.status = "failed" /\ t.current_pos = s.current_pos /\ t.end = s.end
  BY <1>3 DEF State
<1>5. index = "ready" /\ s.current_pos <= s.end /\ s.end <= total_size
  BY <1>2 DEF ReaderInv
<1>6. ReaderInv(t)'
  BY <1>4, <1>5 DEF ReaderInv, indexVars
<1>7. Set(r, t)
  BY <1>1, <1>3 DEF Fail
<1> QED BY <1>4, <1>5, <1>6, <1>7, PlainStep

LEMMA RecordFailsInv ==
  ASSUME ZipInv, NEW r \in Reader, RecordFails(r)
  PROVE  ZipInv'
<1>1. PICK g \in Segment :
        g = segments[FindSegment(rd[r].pos)] /\ Describes(g) /\ index = "ready"
  BY TurnSegment DEF RecordFails, InSegment
<1>2. HoldsCrc(g) /\ crc[g.entry].state = "error"
  BY <1>1 DEF RecordFails, NeedsCrc
<1>3. g.entry \in 1..Len(entries)
  BY <1>1, <1>2, HeaderHasEntry
<1>4. disturbed = TRUE
  BY <1>1, <1>2, <1>3 DEF ZipInv, CellInv
<1>5. rd[r].status = "loop" /\ Fail(r) /\ UNCHANGED <<indexVars, crc, file, disturbed, sent>>
  BY DEF RecordFails, InSegment
<1> QED BY <1>4, <1>5, FailInv

LEMMA DataEndsInv ==
  ASSUME ZipInv, NEW r \in Reader, DataEnds(r)
  PROVE  ZipInv'
<1>1. PICK g \in Segment :
        /\ g = segments[FindSegment(rd[r].pos)] /\ Describes(g) /\ index = "ready"
        /\ g.start <= rd[r].pos /\ rd[r].pos < EndOf(g)
  BY TurnSegment DEF DataEnds, InSegment
<1>2. g.kind = "data" /\ file[g.entry].len <= rd[r].pos - g.start
  BY <1>1 DEF DataEnds
<1>3. g.entry \in 1..Len(entries) /\ g.len = entries[g.entry].size
  BY <1>1, <1>2 DEF Describes
<1>4. disturbed = TRUE
  <2>1. rd[r].pos \in Nat /\ g.start \in Nat /\ g.len \in Nat
    BY DEF ZipInv, State, Segment
  <2>2. file[g.entry].len # g.len
    BY <1>1, <1>2, <2>1 DEF EndOf
  <2> QED BY <1>1, <1>3, <2>2 DEF ZipInv, CellInv
<1>5. rd[r].status = "loop" /\ Fail(r) /\ UNCHANGED <<indexVars, crc, file, disturbed, sent>>
  BY DEF DataEnds, InSegment
<1> QED BY <1>4, <1>5, FailInv

LEMMA DataFailsInv ==
  ASSUME ZipInv, NEW r \in Reader, DataFails(r)
  PROVE  ZipInv'
BY FailInv DEF DataFails, InSegment

LEMMA CopyDataInv ==
  ASSUME ZipInv, NEW r \in Reader, CopyData(r)
  PROVE  ZipInv'
<1>1. PICK g \in Segment :
        /\ g = segments[FindSegment(rd[r].pos)] /\ Describes(g) /\ index = "ready"
        /\ g.start <= rd[r].pos /\ rd[r].pos < EndOf(g)
  BY TurnSegment DEF CopyData, InSegment
<1>2. /\ g.kind = "data" /\ rd[r].status = "loop" /\ More(rd[r])
      /\ rd[r].pos - g.start < file[g.entry].len
      /\ UNCHANGED <<indexVars, crc, file, disturbed, sent>>
  BY <1>1 DEF CopyData, InSegment
<1>3. PICK most, n : /\ most = Lower(Want(rd[r], g), file[g.entry].len - (rd[r].pos - g.start))
                     /\ n \in {most} \cup {m \in ShortReads : m < most}
                     /\ Produce(r, g, n)
  BY <1>1 DEF CopyData
<1>4. n \in Nat /\ n <= Want(rd[r], g)
  <2>1. Want(rd[r], g) \in Nat \ {0}
    BY <1>1, <1>2, WantBounds DEF More, ZipInv
  <2>2. g.entry \in 1..Len(entries)
    BY <1>1, <1>2 DEF Describes
  <2>3. file[g.entry].len \in Nat /\ rd[r].pos \in Nat /\ g.start \in Nat
    BY <1>1, <2>2 DEF ZipInv, CellsTypeOK, State, Segment
  <2>4. most \in Nat /\ most <= Want(rd[r], g)
    BY <1>1, <1>2, <1>3, <2>1, <2>3 DEF Lower
  <2>5. ShortReads \subseteq Nat
    BY ReaderAssumption
  <2>6. n = most \/ (n \in ShortReads /\ n < most)
    BY <1>3
  <2>7. CASE n = most
    BY <2>4, <2>7
  <2>8. CASE n \in ShortReads /\ n < most
    BY <2>1, <2>4, <2>5, <2>8
  <2> QED BY <2>6, <2>7, <2>8
<1>5. PICK s \in State : Set(r, s) /\ ReaderInv(s) /\ s.status = "loop"
  BY <1>1, <1>2, <1>3, <1>4, Produces
<1>6. ReaderInv(s)'
  BY <1>2, <1>5, ReaderKept DEF ZipInv
<1> QED BY <1>1, <1>2, <1>5, <1>6, PlainStep DEF ZipInv

LEMMA CopyRecordInv ==
  ASSUME ZipInv, NEW r \in Reader, CopyRecord(r)
  PROVE  ZipInv'
<1>1. PICK g \in Segment :
        /\ g = segments[FindSegment(rd[r].pos)] /\ Describes(g) /\ index = "ready"
        /\ g.start <= rd[r].pos /\ rd[r].pos < EndOf(g)
  BY TurnSegment DEF CopyRecord, InSegment
<1>2. /\ rd[r].status = "loop" /\ More(rd[r])
      /\ NeedsCrc(g) => crc[g.entry].state = "ok"
      /\ Produce(r, g, Want(rd[r], g))
      /\ sent' = IF NeedsCrc(g) THEN [sent EXCEPT ![g.entry] = @ \cup {crc[g.entry]}] ELSE sent
      /\ UNCHANGED <<indexVars, crc, file, disturbed>>
  BY <1>1 DEF CopyRecord, InSegment
<1>3. Want(rd[r], g) \in Nat
  BY <1>1, <1>2, WantBounds DEF More, ZipInv
<1>4. PICK s \in State : Set(r, s) /\ ReaderInv(s) /\ s.status = "loop"
  BY <1>1, <1>2, <1>3, Produces
<1>5. ReaderInv(s)'
  BY <1>2, <1>4, ReaderKept DEF ZipInv
<1>6. entries' = entries /\ disturbed' = disturbed
  BY <1>2 DEF indexVars
<1>7. CellsTypeOK /\ \A i \in 1..Len(entries) : CellInv(i)
  BY <1>1 DEF ZipInv
<1>8. CellsTypeOK' /\ \A i \in 1..Len(entries) : CellInv(i)'
  <2>1. CASE NeedsCrc(g)
    <3>1. PICK k \in 1..Len(entries) : k = g.entry
      BY <1>1, <2>1, HeaderHasEntry DEF NeedsCrc
    <3>2. PICK c \in Cell : c = crc[k] /\ c.state = "ok"
      BY <1>2, <1>7, <2>1, <3>1 DEF CellsTypeOK
    <3>3. sent' = [sent EXCEPT ![k] = sent[k] \cup {c}]
      BY <1>2, <2>1, <3>1, <3>2
    <3>4. CellsTypeOK'
      <4>1. sent[k] \cup {c} \in SUBSET Cell
        BY <1>7, <3>2 DEF CellsTypeOK
      <4>2. sent' \in [1..Len(entries) -> SUBSET Cell]
        BY <1>7, <3>3, <4>1 DEF CellsTypeOK
      <4> QED BY <1>2, <1>6, <1>7, <4>2 DEF CellsTypeOK
    <3>5. \A i \in 1..Len(entries) : sent'[i] = sent[i] \/ (i = k /\ sent'[i] = sent[i] \cup {c})
      BY <1>7, <3>3 DEF CellsTypeOK
    <3> QED BY <1>2, <1>6, <1>7, <3>2, <3>4, <3>5 DEF CellInv
  <2>2. CASE ~ NeedsCrc(g)
    BY <1>2, <1>6, <1>7, <2>2 DEF CellsTypeOK, CellInv
  <2> QED BY <2>1, <2>2
<1>9. disturbed \in BOOLEAN
  BY DEF ZipInv
<1> QED BY <1>1, <1>2, <1>4, <1>5, <1>6, <1>8, <1>9, ReaderStep

LEMMA StartCrcInv ==
  ASSUME ZipInv, NEW r \in Reader, StartCrc(r)
  PROVE  ZipInv'
<1>1. PICK g \in Segment :
        g = segments[FindSegment(rd[r].pos)] /\ Describes(g) /\ index = "ready"
  BY TurnSegment DEF StartCrc, InSegment
<1>2. /\ rd[r].status = "loop" /\ More(rd[r]) /\ HoldsCrc(g) /\ crc[g.entry].state = "empty"
      /\ Set(r, [rd[r] EXCEPT !.status = "crc"])
      /\ crc' = [crc EXCEPT ![g.entry] = [NoCell EXCEPT !.state = "busy"]]
      /\ UNCHANGED <<indexVars, file, disturbed, sent>>
  BY <1>1 DEF StartCrc, InSegment, NeedsCrc
<1>3. PICK k \in 1..Len(entries) : k = g.entry
  BY <1>1, <1>2, HeaderHasEntry
<1>4. PICK c : c = [NoCell EXCEPT !.state = "busy"]
  OBVIOUS
<1>5. c \in Cell /\ c.state = "busy" /\ c.total = 0
  BY <1>4 DEF NoCell, Cell
<1>6. PICK s \in State : s = rd[r] /\ ReaderInv(s) /\ s.status = "loop"
  BY <1>2 DEF ZipInv
<1>7. PICK t : t = [s EXCEPT !.status = "crc"]
  OBVIOUS
<1>8. /\ t \in State /\ t.status = "crc" /\ t.pos = s.pos /\ t.written = s.written /\ t.run = s.run
      /\ t.current_pos = s.current_pos /\ t.end = s.end /\ t.buf = s.buf
  BY <1>7 DEF State
<1>9. entries' = entries /\ disturbed' = disturbed /\ index' = "ready" /\ total_size' = total_size
  BY <1>1, <1>2 DEF indexVars
<1>10. CellsTypeOK /\ \A i \in 1..Len(entries) : CellInv(i)
  BY <1>1 DEF ZipInv
<1>11. crc' = [crc EXCEPT ![k] = c] /\ crc'[k] = c /\ \A i \in 1..Len(entries) : i # k => crc'[i] = crc[i]
  BY <1>2, <1>3, <1>4, <1>10 DEF CellsTypeOK
<1>12. CellsTypeOK'
  BY <1>2, <1>5, <1>9, <1>10, <1>11 DEF CellsTypeOK
<1>13. \A i \in 1..Len(entries) : CellInv(i)'
  <2> SUFFICES ASSUME NEW i \in 1..Len(entries) PROVE CellInv(i)'
    OBVIOUS
  <2>1. /\ CellInv(i) /\ sent'[i] = sent[i] /\ file'[i] = file[i]
        /\ entries'[i] = entries[i] /\ disturbed' = disturbed
    BY <1>2, <1>9, <1>10
  <2>2. CASE i = k
    <3>1. sent[i] = {}
      BY <1>2, <1>3, <2>1, <2>2 DEF CellInv
    <3>2. entries[i] \in Entry
      BY DEF ZipInv, IndexInv, IndexTypeOK
    <3>3. entries[i].size \in Nat
      BY <3>2 DEF Entry
    <3>4. crc'[i].state = "busy" /\ crc'[i].total = 0
      BY <1>5, <1>11, <2>2
    <3> QED BY <2>1, <3>1, <3>3, <3>4 DEF CellInv
  <2>3. CASE i # k
    <3>1. crc'[i] = crc[i]
      BY <1>11, <2>3
    <3> QED BY <2>1, <3>1 DEF CellInv
  <2> QED BY <2>2, <2>3
<1>14. EntryAt(t.pos) = k /\ EntryAt(t.pos)' = k
  <2>1. EntryAt(t.pos) = k
    BY <1>1, <1>3, <1>6, <1>8 DEF EntryAt
  <2> QED BY <1>2, <2>1, FrozenIndex DEF ZipInv
<1>15. More(t)' /\ (t.written > 0 => Faithful(t.run)')
  <2>1. More(t) /\ (t.written > 0 => Faithful(t.run))
    BY <1>2, <1>6, <1>8 DEF More, ReaderInv
  <2> QED BY <1>2, <2>1, FrozenIndex DEF ZipInv
<1>16. ReaderInv(t)'
  BY <1>3, <1>5, <1>6, <1>8, <1>9, <1>11, <1>14, <1>15 DEF ReaderInv
<1>17. \A q \in Reader : q # r /\ rd[q].status = "crc" =>
         /\ crc'[EntryAt(rd[q].pos)] = crc[EntryAt(rd[q].pos)]
         /\ t.status = "crc" => EntryAt(rd[q].pos) # EntryAt(t.pos)
  <2> SUFFICES ASSUME NEW q \in Reader, rd[q].status = "crc"
               PROVE  /\ EntryAt(rd[q].pos) \in 1..Len(entries)
                      /\ EntryAt(rd[q].pos) # k
    BY <1>11, <1>14
  <2>1. ReaderInv(rd[q])
    BY DEF ZipInv
  <2>2. crc[k].state = "empty"
    BY <1>2, <1>3
  <2> QED BY <2>1, <2>2 DEF ReaderInv
<1>18. Set(r, t) /\ disturbed \in BOOLEAN
  BY <1>2, <1>6, <1>7 DEF ZipInv
<1> QED BY <1>1, <1>2, <1>8, <1>9, <1>12, <1>13, <1>16, <1>17, <1>18, ReaderStep

\* The reader that computes a CRC gives the cell the value c and goes on or back
\* to its loop.
LEMMA CellStep ==
  ASSUME ZipInv, NEW r \in Reader, rd[r].status = "crc",
         NEW c \in Cell, crc' = [crc EXCEPT ![CrcEntry(r)] = c],
         NEW t \in State, Set(r, t), t.status \in {"crc", "loop"},
         t.pos = rd[r].pos, t.written = rd[r].written, t.run = rd[r].run, t.end = rd[r].end,
         t.current_pos = rd[r].current_pos, t.buf = rd[r].buf,
         UNCHANGED <<indexVars, file, sent>>,
         disturbed' \in BOOLEAN, disturbed => disturbed',
         t.status = "crc" => c.state = "busy",
         c.state = "ok" => c.total = entries[CrcEntry(r)].size,
         ~ disturbed' => c.state # "error" /\ c.total <= entries[CrcEntry(r)].size
  PROVE  ZipInv'
<1>1. PICK s \in State : s = rd[r] /\ ReaderInv(s) /\ s.status = "crc"
  BY DEF ZipInv
<1>2. PICK k \in 1..Len(entries) :
        k = CrcEntry(r) /\ k = EntryAt(s.pos) /\ k = EntryAt(t.pos) /\ crc[k].state = "busy"
  BY <1>1 DEF ReaderInv, EntryAt, CrcEntry
<1>3. index = "ready" /\ CellsTypeOK /\ \A i \in 1..Len(entries) : CellInv(i)
  BY <1>1 DEF ZipInv, ReaderInv
<1>4. entries' = entries /\ index' = "ready" /\ total_size' = total_size
  BY <1>3 DEF indexVars
<1>5. crc'[k] = c /\ \A i \in 1..Len(entries) : i # k => crc'[i] = crc[i]
  BY <1>2, <1>3 DEF CellsTypeOK
<1>6. CellsTypeOK'
  <2>1. crc' \in [1..Len(entries) -> Cell]
    BY <1>2, <1>3 DEF CellsTypeOK
  <2> QED BY <1>3, <1>4, <2>1 DEF CellsTypeOK
<1>7. \A i \in 1..Len(entries) : CellInv(i)'
  <2> SUFFICES ASSUME NEW i \in 1..Len(entries) PROVE CellInv(i)'
    OBVIOUS
  <2>1. /\ CellInv(i) /\ sent'[i] = sent[i] /\ file'[i] = file[i] /\ entries'[i] = entries[i]
    BY <1>3, <1>4
  <2>2. CASE i = k
    <3>1. sent[i] = {}
      BY <1>2, <2>1, <2>2 DEF CellInv
    <3>2. crc'[i] = c /\ i = CrcEntry(r)
      BY <1>2, <1>5, <2>2
    <3> QED BY <2>1, <3>1, <3>2 DEF CellInv
  <2>3. CASE i # k
    <3>1. crc'[i] = crc[i]
      BY <1>5, <2>3
    <3> QED BY <2>1, <3>1 DEF CellInv
  <2> QED BY <2>2, <2>3
<1>8. EntryAt(t.pos)' = k /\ More(t)' /\ (t.written > 0 => Faithful(t.run)')
  <2>1. More(t) /\ (t.written > 0 => Faithful(t.run))
    BY <1>1 DEF More, ReaderInv
  <2> QED BY <1>2, <2>1, FrozenIndex DEF ZipInv
<1>9. ReaderInv(t)'
  BY <1>1, <1>2, <1>4, <1>5, <1>8 DEF ReaderInv
<1>10. \A q \in Reader : q # r /\ rd[q].status = "crc" =>
         /\ crc'[EntryAt(rd[q].pos)] = crc[EntryAt(rd[q].pos)]
         /\ t.status = "crc" => EntryAt(rd[q].pos) # EntryAt(t.pos)
  <2> SUFFICES ASSUME NEW q \in Reader, q # r, rd[q].status = "crc"
               PROVE  /\ EntryAt(rd[q].pos) \in 1..Len(entries)
                      /\ EntryAt(rd[q].pos) # k
    BY <1>2, <1>5
  <2>1. ReaderInv(rd[q]) /\ Alone(q, r)
    BY DEF ZipInv
  <2> QED BY <1>1, <1>2, <2>1 DEF ReaderInv, Alone
<1> QED BY <1>3, <1>6, <1>7, <1>9, <1>10, ReaderStep

LEMMA ReadForCrcInv ==
  ASSUME ZipInv, NEW r \in Reader, ReadForCrc(r)
  PROVE  ZipInv'
<1>1. PICK s \in State : s = rd[r] /\ ReaderInv(s) /\ s.status = "crc"
  BY DEF ReadForCrc, ZipInv
<1>2. PICK k \in 1..Len(entries) : k = CrcEntry(r) /\ crc[k].state = "busy"
  BY <1>1 DEF ReaderInv, EntryAt, CrcEntry
<1>3. index = "ready" /\ CellsTypeOK /\ CellInv(k)
  BY <1>1 DEF ZipInv, ReaderInv
<1>4. PICK c \in Cell, f \in [len : Nat, version : Nat] : c = crc[k] /\ f = file[k]
  BY <1>3 DEF CellsTypeOK
<1>5. c.total \in Nat /\ c.seen \in SUBSET Nat /\ f.len \in Nat /\ f.version \in Nat
  BY DEF Cell
<1>6. c.total < f.len
  BY <1>2, <1>4 DEF ReadForCrc
<1>7. PICK n \in Nat : n = c.total + Lower(CrcBuffer, f.len - c.total) /\ n <= f.len
  BY <1>5, <1>6, ReaderAssumption DEF Lower
<1>8. PICK d : d = [c EXCEPT !.total = n, !.seen = c.seen \cup {f.version}]
  OBVIOUS
<1>9. d \in Cell /\ d.state = "busy" /\ d.total = n
  BY <1>2, <1>4, <1>5, <1>8 DEF Cell
<1>10. crc' = [crc EXCEPT ![k] = d]
  BY <1>2, <1>3, <1>4, <1>7, <1>8 DEF ReadForCrc, CellsTypeOK
<1>11. ~ disturbed => d.total <= entries[k].size
  BY <1>3, <1>4, <1>7, <1>9 DEF CellInv
<1>12. Set(r, s) /\ disturbed' = disturbed /\ disturbed \in BOOLEAN
       /\ UNCHANGED <<indexVars, file, sent>>
  BY <1>1 DEF ReadForCrc, Set, ZipInv
<1> QED BY <1>1, <1>2, <1>9, <1>10, <1>11, <1>12, CellStep

LEMMA FinishCrcInv ==
  ASSUME ZipInv, NEW r \in Reader, FinishCrc(r)
  PROVE  ZipInv'
<1>1. PICK s \in State : s = rd[r] /\ ReaderInv(s) /\ s.status = "crc"
  BY DEF FinishCrc, ZipInv
<1>2. PICK k \in 1..Len(entries) : k = CrcEntry(r)
  BY <1>1 DEF ReaderInv, EntryAt, CrcEntry
<1>3. index = "ready" /\ CellsTypeOK /\ CellInv(k)
  BY <1>1 DEF ZipInv, ReaderInv
<1>4. PICK c \in Cell, f \in [len : Nat, version : Nat], e \in Entry :
        c = crc[k] /\ f = file[k] /\ e = entries[k]
  BY <1>3 DEF CellsTypeOK, ZipInv, IndexInv, IndexTypeOK
<1>5. c.total \in Nat /\ f.len \in Nat /\ e.size \in Nat
  BY DEF Cell, Entry
<1>6. f.len <= c.total
  BY <1>2, <1>4 DEF FinishCrc
<1>7. PICK state \in {"ok", "error"} : state = IF c.total = e.size THEN "ok" ELSE "error"
  OBVIOUS
<1>8. PICK d : d = [c EXCEPT !.state = state]
  OBVIOUS
<1>9. d \in Cell /\ d.state = state /\ d.total = c.total
  BY <1>8 DEF Cell
<1>10. crc' = [crc EXCEPT ![k] = d]
  BY <1>2, <1>3, <1>4, <1>7, <1>8 DEF FinishCrc, CellsTypeOK
<1>11. ~ disturbed => c.total = e.size
  BY <1>3, <1>4, <1>5, <1>6 DEF CellInv
<1>12. PICK t : t = [s EXCEPT !.status = "loop"]
  OBVIOUS
<1>13. /\ t \in State /\ t.status = "loop" /\ t.pos = s.pos /\ t.written = s.written /\ t.run = s.run
       /\ t.current_pos = s.current_pos /\ t.end = s.end /\ t.buf = s.buf
  BY <1>12 DEF State
<1>14. Set(r, t) /\ disturbed' = disturbed /\ disturbed \in BOOLEAN
       /\ UNCHANGED <<indexVars, file, sent>>
  BY <1>1, <1>12 DEF FinishCrc, ZipInv
<1>15. ~ disturbed => d.state # "error" /\ d.total <= e.size
  BY <1>5, <1>7, <1>9, <1>11
<1>16. d.state = "ok" => d.total = e.size
  BY <1>7, <1>9
<1> QED BY <1>1, <1>2, <1>4, <1>9, <1>10, <1>13, <1>14, <1>15, <1>16, CellStep

LEMMA CrcFailsInv ==
  ASSUME ZipInv, NEW r \in Reader, CrcFails(r)
  PROVE  ZipInv'
<1>1. PICK s \in State : s = rd[r] /\ ReaderInv(s) /\ s.status = "crc"
  BY DEF CrcFails, ZipInv
<1>2. PICK k \in 1..Len(entries) : k = CrcEntry(r)
  BY <1>1 DEF ReaderInv, EntryAt, CrcEntry
<1>3. CellsTypeOK
  BY <1>1 DEF ZipInv, ReaderInv
<1>4. PICK c \in Cell : c = crc[k]
  BY <1>3 DEF CellsTypeOK
<1>5. PICK d : d = [c EXCEPT !.state = "error"]
  OBVIOUS
<1>6. d \in Cell /\ d.state = "error"
  BY <1>5 DEF Cell
<1>7. crc' = [crc EXCEPT ![k] = d]
  BY <1>2, <1>3, <1>4, <1>5 DEF CrcFails, CellsTypeOK
<1>8. PICK t : t = [s EXCEPT !.status = "loop"]
  OBVIOUS
<1>9. /\ t \in State /\ t.status = "loop" /\ t.pos = s.pos /\ t.written = s.written /\ t.run = s.run
      /\ t.current_pos = s.current_pos /\ t.end = s.end /\ t.buf = s.buf
  BY <1>8 DEF State
<1>10. Set(r, t) /\ disturbed' = TRUE /\ UNCHANGED <<indexVars, file, sent>>
  BY <1>1, <1>8 DEF CrcFails
<1> QED BY <1>1, <1>2, <1>6, <1>7, <1>9, <1>10, CellStep

\* A step no reader takes part in.
LEMMA ReadersKept ==
  ASSUME ZipInv, UNCHANGED <<indexVars, rd, crc>>, disturbed => disturbed'
  PROVE  /\ (\A r \in Reader : ReaderInv(rd[r]))'
         /\ (\A q, r \in Reader : q # r => Alone(q, r))'
<1>1. ASSUME NEW r \in Reader PROVE ReaderInv(rd[r])'
  <2>1. PICK s : s = rd[r] /\ s = rd'[r]
    OBVIOUS
  <2>2. ReaderInv(s)'
    BY <2>1, ReaderKept DEF ZipInv
  <2> QED BY <2>1, <2>2 DEF ReaderInv
<1>2. ASSUME NEW q \in Reader, NEW r \in Reader, q # r PROVE Alone(q, r)'
  <2>1. PICK a, b : a = rd[q].pos /\ b = rd[r].pos
    OBVIOUS
  <2>2. EntryAt(a)' = EntryAt(a) /\ EntryAt(b)' = EntryAt(b)
    BY FrozenIndex DEF ZipInv
  <2>3. Alone(q, r)
    BY <1>2 DEF ZipInv
  <2> QED BY <2>1, <2>2, <2>3 DEF Alone, EntryAt
<1> QED BY <1>1, <1>2

LEMMA ChangeInv ==
  ASSUME ZipInv, Change
  PROVE  ZipInv'
<1>1. /\ index = "ready" /\ disturbed' = TRUE /\ UNCHANGED <<indexVars, rd, crc, sent>>
  BY DEF Change
<1>2. CellsTypeOK /\ \A i \in 1..Len(entries) : CellInv(i)
  BY <1>1 DEF ZipInv
<1>3. IndexInv' /\ entries' = entries /\ index' = "ready"
  BY <1>1, FrozenIndex DEF ZipInv, indexVars
<1>4. file' \in [1..Len(entries) -> [len : Nat, version : Nat]]
  <2>1. PICK i \in 1..Len(entries), n \in Nat :
          file' = [file EXCEPT ![i] = [len |-> n, version |-> file[i].version + 1]]
    BY ReaderAssumption DEF Change
  <2>2. PICK v \in Nat : v = file[i].version + 1
    BY <1>2 DEF CellsTypeOK
  <2> QED BY <1>2, <2>1, <2>2 DEF CellsTypeOK
<1>5. CellsTypeOK' /\ (\A i \in 1..Len(entries) : CellInv(i))'
  BY <1>1, <1>2, <1>3, <1>4 DEF CellsTypeOK, CellInv
<1> QED BY <1>1, <1>3, <1>5, ReadersKept DEF ZipInv

LEMMA BuildInv ==
  ASSUME ZipInv, Build
  PROVE  ZipInv'
<1>1. CASE (LayLocal \/ StartCentral \/ LayCentral) /\ UNCHANGED readerVars
  <2>1. index # "ready" /\ index' # "ready" /\ UNCHANGED <<rd, disturbed>>
    BY <1>1 DEF LayLocal, StartCentral, LayCentral, readerVars
  <2>2. IndexInv'
    BY <1>1, LayLocalInv, StartCentralInv, LayCentralInv DEF ZipInv
  <2>3. \A r \in Reader : rd[r].status = "none"
    BY <2>1 DEF ZipInv, ReaderInv
  <2> QED BY <2>1, <2>2, <2>3 DEF ZipInv, ReaderInv, Alone
<1>2. CASE Publish
  <2>1. index # "ready" /\ UNCHANGED <<rd, disturbed>>
    BY <1>2 DEF Publish, FinishIndex
  <2>2. IndexInv' /\ entries' = entries
    BY <1>2, FinishIndexInv DEF ZipInv, Publish, FinishIndex
  <2>3. \A r \in Reader : rd[r].status = "none"
    BY <2>1 DEF ZipInv, ReaderInv
  <2>4. \A i \in 1..Len(entries) : entries[i] \in Entry /\ entries[i].size \in Nat
    <3>1. \A i \in 1..Len(entries) : entries[i] \in Entry
      BY DEF ZipInv, IndexInv, IndexTypeOK
    <3> QED BY <3>1 DEF Entry
  <2>5. CellsTypeOK'
    <3>1. NoCell \in Cell
      BY DEF NoCell, Cell
    <3> QED BY <1>2, <2>2, <2>4, <3>1 DEF CellsTypeOK, Publish
  <2>6. (\A i \in 1..Len(entries) : CellInv(i))'
    <3>1. NoCell.state = "empty" /\ NoCell.total = 0
      BY DEF NoCell
    <3> SUFFICES ASSUME NEW i \in 1..Len(entries) PROVE CellInv(i)'
      BY <2>2
    <3>2. crc'[i] = NoCell /\ sent'[i] = {} /\ file'[i].len = entries[i].size
      BY <1>2 DEF Publish
    <3> QED BY <2>2, <2>4, <3>1, <3>2 DEF CellInv
  <2> QED BY <2>1, <2>2, <2>3, <2>5, <2>6 DEF ZipInv, ReaderInv, Alone
<1> QED BY <1>1, <1>2 DEF Build

LEMMA ZipInitInv == Init => ZipInv
<1> SUFFICES ASSUME Init PROVE ZipInv
  OBVIOUS
<1>1. IndexInv /\ index # "ready"
  BY IndexInitInv DEF Init, IndexInit
<1>2. rd \in [Reader -> State]
  <2>1. PICK run : run = [kind |-> "eocd", entry |-> 0, from |-> 0, at |-> 0, count |-> 0]
    OBVIOUS
  <2>2. run \in Run
    BY <2>1 DEF Run, SegmentKind
  <2>3. PICK s : s = [start |-> 0, end |-> 0, buf |-> 1, current_pos |-> 0, pos |-> 0,
                      written |-> 0, run |-> run, status |-> "none"]
    OBVIOUS
  <2>4. s \in State
    BY <2>2, <2>3 DEF State
  <2>5. rd = [r \in Reader |-> s]
    BY <2>1, <2>3 DEF Init
  <2> QED BY <2>4, <2>5
<1>3. \A r \in Reader : rd[r].status = "none"
  BY DEF Init
<1>4. disturbed \in BOOLEAN
  BY DEF Init
<1> QED BY <1>1, <1>2, <1>3, <1>4 DEF ZipInv, ReaderInv, Alone

LEMMA ZipStepInv == ZipInv /\ [Next]_vars => ZipInv'
<1> SUFFICES ASSUME ZipInv, [Next]_vars PROVE ZipInv'
  OBVIOUS
<1>1. CASE Build
  BY <1>1, BuildInv
<1>2. CASE Change
  BY <1>2, ChangeInv
<1>3. ASSUME NEW r \in Reader, Open(r) PROVE ZipInv'
  BY <1>3, OpenInv
<1>4. ASSUME NEW r \in Reader, Step(r) PROVE ZipInv'
  <2>1. CASE CallAtEnd(r) \/ Call(r) \/ Return(r)
    BY <2>1, CallAtEndInv, CallInv, ReturnInv
  <2>2. CASE CopyRecord(r) \/ RecordFails(r)
    BY <2>2, CopyRecordInv, RecordFailsInv
  <2>3. CASE StartCrc(r) \/ ReadForCrc(r) \/ FinishCrc(r) \/ CrcFails(r)
    BY <2>3, StartCrcInv, ReadForCrcInv, FinishCrcInv, CrcFailsInv
  <2>4. CASE CopyData(r) \/ DataEnds(r) \/ DataFails(r)
    BY <2>4, CopyDataInv, DataEndsInv, DataFailsInv
  <2> QED BY <1>4, <2>1, <2>2, <2>3, <2>4 DEF Step, Turn
<1>5. CASE UNCHANGED vars
  <2>1. UNCHANGED <<indexVars, rd, crc, file, disturbed, sent>>
    BY <1>5 DEF vars, readerVars
  <2>2. IndexInv' /\ index' = index /\ entries' = entries
    BY <2>1, FrozenIndex DEF ZipInv, indexVars
  <2>3. index' = "ready" => CellsTypeOK' /\ (\A i \in 1..Len(entries) : CellInv(i))'
    BY <2>1, <2>2 DEF ZipInv, CellsTypeOK, CellInv
  <2> QED BY <2>1, <2>2, <2>3, ReadersKept DEF ZipInv
<1> QED BY <1>1, <1>2, <1>3, <1>4, <1>5 DEF Next

THEOREM ZipInvariant == Spec => []ZipInv
BY ZipInitInv, ZipStepInv, PTL DEF Spec

-----------------------------------------------------------------------------
(***************************************************************************)
(* Types: those of the layout (create) all along, those of readers, cells  *)
(* and files whatever requests do with them.                               *)
(***************************************************************************)
THEOREM ZipTypeCorrect == Spec => []TypeOK
<1>1. ZipInv => TypeOK
  BY DEF ZipInv, IndexInv, CellsTypeOK, TypeOK
<1> QED BY <1>1, ZipInvariant, PTL

(***************************************************************************)
(* The segments tile the archive: every position is in exactly one, which  *)
(* find_segment relies on (zip.rs:206).                                    *)
(***************************************************************************)
THEOREM SegmentsTile == Spec => []Contiguous
<1>1. ZipInv => Contiguous
  BY DEF ZipInv, IndexInv, Chain, Contiguous, SegmentEnd, EndOf
<1> QED BY <1>1, ZipInvariant, PTL

(***************************************************************************)
(* What create reserves for a record is what write_segment_into produces,  *)
(* with every combination of Zip64 extensions.                             *)
(***************************************************************************)
THEOREM ReservedAsWritten == Spec => []LengthsAgree
<1>1. ZipInv => LengthsAgree
  <2> SUFFICES ASSUME ZipInv, NEW k \in 1..Len(segments), segments[k].kind # "data"
               PROVE  segments[k].len = WrittenLength(segments[k].kind, segments[k].entry)
    BY DEF LengthsAgree
  <2>1. PICK g : g = segments[k]
    OBVIOUS
  <2>2. Describes(g) /\ g.kind # "data" /\ IndexInv
    BY <2>1 DEF ZipInv, IndexInv
  <2>3. g.len = WrittenLength(g.kind, g.entry)
    BY <2>2 DEF IndexInv, Describes, WrittenLength, LocalFits, CentralFits
  <2> QED BY <2>1, <2>3
<1> QED BY <1>1, ZipInvariant, PTL

-----------------------------------------------------------------------------
(***************************************************************************)
(* The end of the archive: the first record of the central directory is    *)
(* where the directory begins, the directory ends where the second pass    *)
(* has come to, and the end records follow it.                             *)
(***************************************************************************)
DirectoryInv ==
  /\ index # "local" => cd_offset <= layout_pos
  /\ index # "local" /\ listed = 0 => cd_offset = layout_pos
  /\ listed > 0 => entries[1].central_offset = cd_offset
  /\ index = "ready" =>
       /\ listed = Len(entries) /\ zip64 = NeedsZip64Eocd
       /\ ~ zip64 => total_size = layout_pos + EOCD_FIXED

LEMMA LayCentralDirectory ==
  ASSUME IndexInv, DirectoryInv, LayCentral
  PROVE  DirectoryInv'
<1>1. /\ index = "central" /\ index' = "central" /\ listed \in Nat /\ listed < Len(entries)
      /\ layout_pos \in Nat /\ cd_offset \in Nat /\ cd_offset <= layout_pos
      /\ entries \in Seq(Entry) /\ UNCHANGED cd_offset
  BY DEF LayCentral, IndexInv, IndexTypeOK, DirectoryInv
<1>2. PICK k \in 1..Len(entries) : k = listed + 1
  BY <1>1
<1>3. entries[k] \in Entry
  BY <1>1
<1>4. PICK e : e = CentralFields(entries[k])
  OBVIOUS
<1>5. e.central_offset = layout_pos /\ e.central_len \in Nat
  BY <1>1, <1>3, <1>4, CentralFieldsFit
<1>6. entries' = [entries EXCEPT ![k] = e] /\ layout_pos' = layout_pos + e.central_len /\ listed' = k
  BY <1>2, <1>4 DEF LayCentral
<1>7. entries'[1].central_offset = cd_offset
  <2>1. CASE k = 1
    BY <1>1, <1>2, <1>5, <1>6, <2>1 DEF DirectoryInv
  <2>2. CASE k # 1
    <3>1. 1 \in 1..Len(entries) /\ entries'[1] = entries[1]
      BY <1>1, <1>6, <2>2
    <3>2. listed > 0
      BY <1>1, <1>2, <2>2
    <3> QED BY <3>1, <3>2 DEF DirectoryInv
  <2> QED BY <2>1, <2>2
<1> QED BY <1>1, <1>2, <1>5, <1>6, <1>7 DEF DirectoryInv

LEMMA FinishDirectory ==
  ASSUME IndexInv, DirectoryInv, FinishIndex
  PROVE  DirectoryInv'
<1>1. /\ index = "central" /\ index' = "ready" /\ listed = Len(entries)
      /\ UNCHANGED <<entries, layout_pos, listed, cd_offset>>
      /\ zip64' = NeedsZip64Eocd
      /\ ~ NeedsZip64Eocd => total_size' = layout_pos + EOCD_FIXED
  BY DEF FinishIndex
<1>2. NeedsZip64Eocd' = NeedsZip64Eocd
  BY <1>1 DEF NeedsZip64Eocd, cd_size
<1> QED BY <1>1, <1>2 DEF DirectoryInv

LEMMA DirectoryStep ==
  ASSUME ZipInv, DirectoryInv, [Next]_vars
  PROVE  DirectoryInv'
<1>0. IndexInv
  BY DEF ZipInv
<1>1. CASE LayLocal
  BY <1>0, <1>1 DEF LayLocal, IndexInv, DirectoryInv
<1>2. CASE StartCentral
  <2>1. listed = 0 /\ layout_pos \in Nat
    BY <1>0, <1>2 DEF StartCentral, IndexInv, IndexTypeOK
  <2> QED BY <1>2, <2>1 DEF StartCentral, DirectoryInv
<1>3. CASE LayCentral
  BY <1>0, <1>3, LayCentralDirectory
<1>4. CASE FinishIndex
  BY <1>0, <1>4, FinishDirectory
<1>5. CASE UNCHANGED indexVars
  BY <1>5 DEF indexVars, DirectoryInv, NeedsZip64Eocd, cd_size
<1>6. ASSUME NEW r \in Reader, Open(r) \/ Step(r) PROVE UNCHANGED indexVars
  BY <1>6 DEF Open, Step, CallAtEnd, Call, Return, Turn, CopyRecord, RecordFails, StartCrc,
              ReadForCrc, FinishCrc, CrcFails, CopyData, DataEnds, DataFails
<1>7. Change => UNCHANGED indexVars
  BY DEF Change
<1> QED BY <1>1, <1>2, <1>3, <1>4, <1>5, <1>6, <1>7 DEF Next, Build, Publish, vars

\* A size or an offset that is not in the extension is in its field as it is.
LEMMA Unnarrowed ==
  ASSUME NEW n \in Nat, n < U32_MAX
  PROVE  AsU32(n) = n /\ AsU32(n) # U32_MAX
BY ZipIndexAssumption DEF AsU32

LEMMA Below ==
  ASSUME NEW n \in Nat, NEW m \in Nat \ {0}
  PROVE  /\ ~ (n >= m) => n < m
         /\ n = 0 => n < m
OBVIOUS

LEMMA LocalDecodes ==
  ASSUME NEW e \in Entry, LocalFits(e), e.dir => e.size = 0
  PROVE  SizeRead(LocalHeader(e)) = e.size
<1>1. e.size \in Nat /\ U32_MAX \in Nat \ {0}
  BY ZipIndexAssumption DEF Entry
<1>2. CASE e.local_zip64
  BY <1>2 DEF LocalHeader, SizeRead
<1>3. CASE ~ e.local_zip64
  <2>1. ~ (e.size >= U32_MAX) \/ e.size = 0
    BY <1>3, Zenon DEF LocalFits, Big
  <2>2. e.size < U32_MAX
    BY <1>1, <2>1, Below, Zenon
  <2> QED BY <1>1, <1>3, <2>2, Unnarrowed DEF LocalHeader, SizeRead
<1> QED BY <1>1, <1>2, <1>3

LEMMA ExtraFields ==
  ASSUME NEW a \in Nat, NEW b \in Nat
  PROVE  /\ (<<a, a>> \o <<b>>)[1] = a /\ (<<a, a>> \o <<b>>)[3] = b
         /\ (<<a, a>> \o <<>>)[1] = a
         /\ (<<>> \o <<b>>)[1] = b
OBVIOUS

LEMMA CentralDecodes ==
  ASSUME NEW e \in Entry, CentralFits(e), e.dir => e.size = 0
  PROVE  /\ SizeRead(CentralEntry(e)) = e.size
         /\ OffsetRead(CentralEntry(e)) = e.local_offset
<1>1. /\ e.size \in Nat /\ e.local_offset \in Nat /\ e.dir \in BOOLEAN
      /\ e.central_size_zip64 \in BOOLEAN /\ e.central_offset_zip64 \in BOOLEAN
      /\ U32_MAX \in Nat \ {0}
  BY ZipIndexAssumption DEF Entry
<1>2. PICK size, offset, sizes, offsets :
        /\ size = IF e.central_size_zip64 THEN U32_MAX ELSE AsU32(e.size)
        /\ offset = IF e.central_offset_zip64 THEN U32_MAX ELSE AsU32(e.local_offset)
        /\ sizes = IF e.central_size_zip64 THEN <<e.size, e.size>> ELSE <<>>
        /\ offsets = IF e.central_offset_zip64 THEN <<e.local_offset>> ELSE <<>>
  OBVIOUS
<1>3. /\ CentralEntry(e).size = size /\ CentralEntry(e).offset = offset
      /\ CentralEntry(e).extra = sizes \o offsets
  BY <1>2 DEF CentralEntry
<1>4. ~ e.central_size_zip64 => size = e.size /\ size # U32_MAX
  <2>0. ~ e.central_size_zip64 => ~ (e.size >= U32_MAX) \/ e.size = 0
    BY Zenon DEF CentralFits, Big
  <2>1. ~ e.central_size_zip64 => e.size < U32_MAX
    BY <1>1, <2>0, Below, Zenon
  <2> QED BY <1>1, <1>2, <2>1, Unnarrowed
<1>5. ~ e.central_offset_zip64 => offset = e.local_offset /\ offset # U32_MAX
  <2>0. ~ e.central_offset_zip64 => ~ (e.local_offset >= U32_MAX)
    BY Zenon DEF CentralFits
  <2>1. ~ e.central_offset_zip64 => e.local_offset < U32_MAX
    BY <1>1, <2>0, Below, Zenon
  <2> QED BY <1>1, <1>2, <2>1, Unnarrowed
<1>6. e.central_size_zip64 => size = U32_MAX /\ (sizes \o offsets)[1] = e.size
  BY <1>1, <1>2, ExtraFields
<1>7. e.central_offset_zip64 =>
        /\ offset = U32_MAX
        /\ (sizes \o offsets)[IF e.central_size_zip64 THEN 3 ELSE 1] = e.local_offset
  BY <1>1, <1>2, ExtraFields
<1> QED BY <1>1, <1>3, <1>4, <1>5, <1>6, <1>7 DEF SizeRead, OffsetRead

LEMMA EndDecodes ==
  ASSUME IndexInv, DirectoryInv, index = "ready"
  PROVE  /\ EndRead("count") = Len(entries)
         /\ EndRead("cd_offset") = cd_offset
         /\ EndRead("cd_offset") + EndRead("cd_size") = layout_pos
<1>1. /\ cd_offset \in Nat /\ layout_pos \in Nat /\ cd_offset <= layout_pos
      /\ Len(entries) \in Nat /\ zip64 \in BOOLEAN /\ zip64 = NeedsZip64Eocd
      /\ U32_MAX \in Nat /\ U16_MAX \in Nat
  BY ZipIndexAssumption DEF IndexInv, IndexTypeOK, DirectoryInv
<1>2. CASE zip64
  <2>1. /\ EndRead("count") = Len(entries) /\ EndRead("cd_offset") = cd_offset
        /\ EndRead("cd_size") = cd_size
    BY <1>2 DEF EndRead, EndRecord64
  <2> QED BY <1>1, <2>1 DEF cd_size
<1>3. CASE ~ zip64
  <2>1. ~ (Len(entries) > U16_MAX) /\ ~ (cd_size >= U32_MAX) /\ ~ (cd_offset >= U32_MAX)
    BY <1>1, <1>3 DEF NeedsZip64Eocd
  <2>2. cd_size \in Nat
    BY <1>1 DEF cd_size
  <2>3. /\ Lower(Len(entries), U16_MAX) = Len(entries)
        /\ Lower(cd_size, U32_MAX) = cd_size /\ Lower(cd_offset, U32_MAX) = cd_offset
    BY <1>1, <2>1, <2>2 DEF Lower
  <2>4. /\ EndRead("count") = Len(entries) /\ EndRead("cd_offset") = cd_offset
        /\ EndRead("cd_size") = cd_size
    BY <1>3, <2>3 DEF EndRead, EndRecord
  <2> QED BY <1>1, <2>4 DEF cd_size
<1> QED BY <1>1, <1>2, <1>3

LEMMA LayoutDecodes ==
  ASSUME IndexInv, DirectoryInv
  PROVE  Decodable
<1> SUFFICES ASSUME index = "ready"
             PROVE  /\ \A k \in 1..Len(entries) :
                         /\ SizeRead(LocalHeader(entries[k])) = entries[k].size
                         /\ SizeRead(CentralEntry(entries[k])) = entries[k].size
                         /\ OffsetRead(CentralEntry(entries[k])) = entries[k].local_offset
                    /\ EndRead("count") = Len(entries)
                    /\ \A k \in 1..Len(segments) :
                         /\ segments[k].kind = "zip64_eocd" =>
                              segments[k].start = Locator.zip64_eocd
                         /\ segments[k].kind = "central" /\ segments[k].entry = 1 =>
                              segments[k].start = EndRead("cd_offset")
                         /\ segments[k].kind = (IF zip64 THEN "zip64_eocd" ELSE "eocd") =>
                              segments[k].start = EndRead("cd_offset") + EndRead("cd_size")
  BY DEF Decodable
<1>1. \A k \in 1..Len(entries) :
        /\ entries[k] \in Entry /\ LocalFits(entries[k]) /\ CentralFits(entries[k])
        /\ entries[k].dir => entries[k].size = 0
  <2>1. listed = Len(entries)
    BY DEF DirectoryInv
  <2> QED BY <2>1 DEF IndexInv, IndexTypeOK
<1>2. \A k \in 1..Len(entries) :
        /\ SizeRead(LocalHeader(entries[k])) = entries[k].size
        /\ SizeRead(CentralEntry(entries[k])) = entries[k].size
        /\ OffsetRead(CentralEntry(entries[k])) = entries[k].local_offset
  BY <1>1, LocalDecodes, CentralDecodes
<1>3. ASSUME NEW k \in 1..Len(segments)
      PROVE  /\ segments[k].kind = "zip64_eocd" => segments[k].start = layout_pos
             /\ segments[k].kind = "central" /\ segments[k].entry = 1 =>
                  segments[k].start = cd_offset
             /\ segments[k].kind = "eocd" /\ ~ zip64 => segments[k].start = layout_pos
  <2>1. PICK g : g = segments[k]
    OBVIOUS
  <2>2. Describes(g)
    BY <2>1 DEF IndexInv
  <2>3. g.kind = "zip64_eocd" => g.start = layout_pos
    BY <2>2 DEF Describes
  <2>4. g.kind = "central" /\ g.entry = 1 => g.start = cd_offset
    <3>1. listed \in Nat
      BY DEF IndexInv, IndexTypeOK
    <3> QED BY <2>2, <3>1 DEF Describes, DirectoryInv
  <2>5. g.kind = "eocd" /\ ~ zip64 => g.start = layout_pos
    <3>1. layout_pos \in Nat
      BY DEF IndexInv, IndexTypeOK
    <3> QED BY <2>2, <3>1 DEF Describes, DirectoryInv, EOCD_FIXED
  <2> QED BY <2>1, <2>3, <2>4, <2>5
<1> QED BY <1>2, <1>3, EndDecodes DEF Locator, zip64_eocd_offset

(***************************************************************************)
(* Every archive create lays out can be read back: sizes, offsets and the  *)
(* place of the central directory, with every combination of Zip64         *)
(* extensions and on both sides of every sentinel.                         *)
(***************************************************************************)
THEOREM EveryArchiveDecodes == Spec => []Decodable
<1>1. Init => DirectoryInv
  BY DEF Init, IndexInit, DirectoryInv
<1>2. ZipInv /\ DirectoryInv /\ [Next]_vars => DirectoryInv'
  BY DirectoryStep
<1>3. ZipInv /\ DirectoryInv => Decodable
  BY LayoutDecodes DEF ZipInv
<1> QED BY <1>1, <1>2, <1>3, ZipInvariant, PTL DEF Spec

-----------------------------------------------------------------------------
(***************************************************************************)
(* Whatever ranges, buffers and short reads, readers deliver the bytes of  *)
(* the layout (read_into_buffer).                                          *)
(***************************************************************************)
THEOREM ZipBytesCorrect == Spec => []BytesFaithful
<1>1. ZipInv => BytesFaithful
  BY DEF ZipInv, ReaderInv, BytesFaithful
<1> QED BY <1>1, ZipInvariant, PTL

\* No call skips or repeats a byte or leaves its buffer or its range.
THEOREM ZipCallsExact == Spec => []CallExact
<1>1. ZipInv => CallExact
  BY DEF ZipInv, ReaderInv, CallExact
<1> QED BY <1>1, ZipInvariant, PTL

(***************************************************************************)
(* All responses, any number at a time, agree on the CRC of an entry and   *)
(* it is the CRC of as many bytes as announced (EntryMeta::crc, a OnceLock,*)
(* and compute_crc32).                                                     *)
(***************************************************************************)
THEOREM CrcsAgree == Spec => []CrcAgrees
<1>1. ZipInv => CrcAgrees
  BY DEF ZipInv, CellInv, CrcAgrees
<1> QED BY <1>1, ZipInvariant, PTL

(***************************************************************************)
(* No request fails unless a file has changed or I/O has failed: the       *)
(* errors of read_into_buffer and compute_crc32 are never the program's.   *)
(***************************************************************************)
THEOREM IntactIsServed == Spec => []IntactServed
<1>1. ZipInv => IntactServed
  <2> SUFFICES ASSUME ZipInv, ~ disturbed, NEW r \in Reader
               PROVE  rd[r].status # "failed" /\ ~ Unlocated(r)
    BY DEF IntactServed
  <2>1. rd[r].status # "failed"
    BY DEF ZipInv, ReaderInv
  <2>2. ASSUME Unlocated(r) PROVE FALSE
    <3>1. PICK k : k = FindSegment(rd[r].pos) /\ k \in 1..Len(segments)
      BY <2>2, TurnSegment DEF Unlocated
    <3>2. Len(segments) \in Nat
      BY DEF ZipInv, IndexInv, IndexTypeOK
    <3> QED BY <2>2, <3>1, <3>2 DEF Unlocated
  <2> QED BY <2>1, <2>2
<1> QED BY <1>1, ZipInvariant, PTL

-----------------------------------------------------------------------------
(***************************************************************************)
(* Each reader is a RangeReader: what Archive::stream_range promises holds *)
(* of every response, however many share the archive.                      *)
(***************************************************************************)
LEMMA ZipStepRefines ==
  ASSUME ZipInv, Next, NEW q \in Reader
  PROVE  RangeStep(q)
<1>1. PICK s \in State : s = rd[q] /\ ReaderInv(s)
  BY DEF ZipInv
<1>2. /\ s.current_pos \in Nat /\ s.pos \in Nat /\ s.written \in Nat /\ s.end \in Nat
      /\ s.start \in Nat /\ s.buf \in Nat /\ total_size \in Nat
  BY DEF State, ZipInv, IndexInv, IndexTypeOK
<1>3. ASSUME rd'[q] = rd[q] PROVE RangeStep(q)
  BY <1>3 DEF RangeStep, Range!rangeVars
<1>4. ASSUME NEW r \in Reader, NEW t, Set(r, t), q # r PROVE RangeStep(q)
  <2>1. rd'[q] = rd[q]
    BY <1>4 DEF Set, ZipInv
  <2> QED BY <1>3, <2>1
<1>5. ASSUME NEW t, Set(q, t) PROVE rd'[q] = t
  BY <1>5 DEF Set, ZipInv
<1>6. ASSUME Open(q) PROVE RangeStep(q)
  <2>1. PICK a \in Nat, e \in Nat, b \in Nat \ {0} :
          /\ a < e
          /\ Set(q, [rd[q] EXCEPT !.start = a, !.end = e, !.buf = b, !.current_pos = a,
                                  !.pos = a, !.status = "idle"])
    <3>1. \A p \in {p \in RangePoints : p <= total_size} \cup {total_size} : p \in Nat
      BY <1>2, ReaderAssumption
    <3> QED BY <1>6, <3>1, ReaderAssumption DEF Open
  <2>2. PICK t : t = [s EXCEPT !.start = a, !.end = e, !.buf = b, !.current_pos = a,
                               !.pos = a, !.status = "idle"]
    OBVIOUS
  <2>3. t.start = a /\ t.end = e /\ t.current_pos = a /\ t.status = "idle"
    BY <2>2 DEF State
  <2>4. rd'[q] = t
    BY <1>1, <1>5, <2>1, <2>2
  <2>5. rd[q].status = "none"
    BY <1>6 DEF Open
  <2>6. /\ a <= e /\ rd'[q].start = a /\ rd'[q].end = e /\ rd'[q].current_pos = a
        /\ rd'[q].status = "idle"
    BY <2>1, <2>3, <2>4
  <2>7. Range(q)!Open
    BY <2>5, <2>6 DEF Range!Open
  <2> QED BY <2>7 DEF RangeStep, Range!Next
<1>7. ASSUME CallAtEnd(q) PROVE RangeStep(q)
  <2>1. s.status = "idle" /\ (s.current_pos >= s.end \/ s.current_pos >= total_size)
    BY <1>1, <1>7 DEF CallAtEnd
  <2>2. PICK t : t = [s EXCEPT !.status = "ended"]
    OBVIOUS
  <2>3. /\ rd'[q] = t /\ t.status = "ended" /\ t.current_pos = s.current_pos
        /\ t.end = s.end /\ t.start = s.start
    BY <1>1, <1>5, <1>7, <2>2 DEF CallAtEnd, State
  <2>4. s.current_pos = s.end
    BY <1>1, <1>2, <2>1 DEF ReaderInv
  <2>5. Range(q)!End
    BY <1>1, <2>1, <2>3, <2>4 DEF Range!End
  <2> QED BY <2>5 DEF RangeStep, Range!Next
<1>8. ASSUME NEW t, Set(q, t), t.start = s.start, t.end = s.end, t.current_pos = s.current_pos,
             s.status \in {"idle", "loop", "crc"}, t.status \in {"idle", "loop", "crc"}
      PROVE  RangeStep(q)
  <2>1. rd'[q] = t
    BY <1>5, <1>8
  <2>2. UNCHANGED Range(q)!rangeVars
    BY <1>1, <1>8, <2>1 DEF Range!rangeVars
  <2> QED BY <2>2 DEF RangeStep
<1>9. ASSUME Return(q) PROVE RangeStep(q)
  <2>1. s.status = "loop" /\ ~ More(s)
    BY <1>1, <1>9 DEF Return
  <2>2. PICK status : status = IF s.written = 0 THEN "ended" ELSE "idle"
    OBVIOUS
  <2>3. PICK t : t = [s EXCEPT !.current_pos = s.pos, !.status = status]
    OBVIOUS
  <2>4. /\ rd'[q] = t /\ t.status = status /\ t.current_pos = s.pos
        /\ t.end = s.end /\ t.start = s.start
    BY <1>1, <1>5, <1>9, <2>2, <2>3 DEF Return, State
  <2>5. s.pos = s.current_pos + s.written /\ s.pos <= s.end /\ s.end <= total_size
    BY <1>1, <2>1 DEF ReaderInv
  <2>6. CASE s.written = 0
    <3>1. s.pos = s.current_pos /\ s.pos >= s.end
      BY <1>2, <2>1, <2>5, <2>6 DEF More, State
    <3>2. s.current_pos = s.end
      BY <1>2, <2>5, <3>1
    <3>3. Range(q)!End
      BY <1>1, <2>1, <2>2, <2>4, <2>6, <3>1, <3>2 DEF Range!End
    <3> QED BY <3>3 DEF RangeStep, Range!Next
  <2>7. CASE s.written # 0
    <3>1. s.current_pos < s.pos
      BY <1>2, <2>5, <2>7
    <3>2. Range(q)!Deliver
      BY <1>1, <1>2, <2>1, <2>2, <2>4, <2>5, <2>7, <3>1 DEF Range!Deliver
    <3> QED BY <3>2 DEF RangeStep, Range!Next
  <2> QED BY <2>6, <2>7
<1>10. ASSUME Fail(q), s.status = "loop" PROVE RangeStep(q)
  <2>1. PICK t : t = [s EXCEPT !.status = "failed"]
    OBVIOUS
  <2>2. /\ rd'[q] = t /\ t.status = "failed" /\ t.current_pos = s.current_pos
        /\ t.end = s.end /\ t.start = s.start
    BY <1>1, <1>5, <1>10, <2>1 DEF Fail, State
  <2>3. Range(q)!Fail
    BY <1>1, <1>10, <2>2 DEF Range!Fail
  <2> QED BY <2>3 DEF RangeStep, Range!Next
<1>11. ASSUME Step(q) PROVE RangeStep(q)
  <2>1. CASE Call(q)
    <3>1. PICK t : t = [s EXCEPT !.pos = s.current_pos, !.written = 0, !.status = "loop"]
      OBVIOUS
    <3> QED BY <1>1, <1>8, <2>1, <3>1 DEF Call, State
  <2>2. CASE CopyRecord(q) \/ CopyData(q)
    <3>1. PICK g, n : Produce(q, g, n) /\ rd[q].status = "loop"
      BY <2>2 DEF CopyRecord, CopyData, InSegment
    <3>2. PICK p, w, run : /\ p = s.pos + n /\ w = s.written + n
                           /\ run = [kind |-> g.kind, entry |-> g.entry, from |-> s.pos,
                                     at |-> s.pos - g.start, count |-> n]
      OBVIOUS
    <3>3. PICK t : t = [s EXCEPT !.pos = p, !.written = w, !.run = run]
      OBVIOUS
    <3>4. Set(q, t)
      BY <1>1, <3>1, <3>2, <3>3 DEF Produce
    <3>5. t.start = s.start /\ t.end = s.end /\ t.current_pos = s.current_pos /\ t.status = s.status
      BY <3>3 DEF State
    <3> QED BY <1>1, <1>8, <3>1, <3>4, <3>5
  <2>3. CASE StartCrc(q)
    <3>1. PICK t : t = [s EXCEPT !.status = "crc"]
      OBVIOUS
    <3> QED BY <1>1, <1>8, <2>3, <3>1 DEF StartCrc, InSegment, State
  <2>4. CASE ReadForCrc(q)
    BY <1>3, <2>4 DEF ReadForCrc
  <2>5. CASE FinishCrc(q) \/ CrcFails(q)
    <3>1. PICK t : t = [s EXCEPT !.status = "loop"]
      OBVIOUS
    <3> QED BY <1>1, <1>8, <2>5, <3>1 DEF FinishCrc, CrcFails, State
  <2>6. CASE RecordFails(q) \/ DataEnds(q) \/ DataFails(q)
    BY <1>1, <1>10, <2>6 DEF RecordFails, DataEnds, DataFails, InSegment
  <2> QED BY <1>7, <1>9, <1>11, <2>1, <2>2, <2>3, <2>4, <2>5, <2>6 DEF Step, Turn
<1>12. ASSUME NEW r \in Reader, Open(r) \/ Step(r), r # q PROVE RangeStep(q)
  <2>1. (\E t : Set(r, t)) \/ rd' = rd
    BY <1>12 DEF Open, Step, Turn, CallAtEnd, Call, Return, CopyRecord, CopyData, Produce,
                 StartCrc, ReadForCrc, FinishCrc, CrcFails, RecordFails, DataEnds, DataFails, Fail
  <2> QED BY <1>3, <1>4, <1>12, <2>1
<1>13. ASSUME Build \/ Change PROVE RangeStep(q)
  <2>1. rd' = rd
    BY <1>13 DEF Build, Change, Publish, readerVars
  <2> QED BY <1>3, <2>1
<1> QED BY <1>6, <1>11, <1>12, <1>13 DEF Next

THEOREM ZipImplementsRangeReader == Spec => ImplementsRangeReader
<1>1. Init => \A r \in Reader : Range(r)!Init
  BY DEF Init, Range!Init
<1>2. ZipInv /\ [Next]_vars => [\A r \in Reader : RangeStep(r)]_rd
  BY ZipStepRefines DEF vars, readerVars
<1> QED BY <1>1, <1>2, ZipInvariant, PTL DEF Spec, ImplementsRangeReader

-----------------------------------------------------------------------------
(***************************************************************************)
(* A cell is busy only while a reader computes it.                         *)
(***************************************************************************)
Computed ==
  index = "ready" =>
    \A i \in 1..Len(entries) :
      crc[i].state = "busy" => \E r \in Reader : rd[r].status = "crc" /\ EntryAt(rd[r].pos) = i

\* A step of one reader: a cell that is busy after it was busy before, and its
\* reader is still at work, or is this reader's.
LEMMA ComputedStep ==
  ASSUME ZipInv, Computed, UNCHANGED indexVars, index = "ready",
         NEW r \in Reader, NEW t, Set(r, t),
         \A i \in 1..Len(entries) : crc'[i].state = "busy" =>
           \/ t.status = "crc" /\ EntryAt(t.pos) = i
           \/ /\ crc[i].state = "busy"
              /\ ~ (rd[r].status = "crc" /\ EntryAt(rd[r].pos) = i)
  PROVE  Computed'
<1>1. rd'[r] = t /\ \A q \in Reader : q # r => rd'[q] = rd[q]
  BY DEF ZipInv, Set
<1>2. entries' = entries /\ \A p : EntryAt(p)' = EntryAt(p)
  BY FrozenIndex DEF ZipInv, indexVars
<1>3. ASSUME NEW i \in 1..Len(entries), crc'[i].state = "busy"
      PROVE  \E q \in Reader : rd'[q].status = "crc" /\ EntryAt(rd'[q].pos) = i
  <2>1. CASE t.status = "crc" /\ EntryAt(t.pos) = i
    BY <1>1, <2>1
  <2>2. CASE crc[i].state = "busy" /\ ~ (rd[r].status = "crc" /\ EntryAt(rd[r].pos) = i)
    <3>1. PICK q \in Reader : rd[q].status = "crc" /\ EntryAt(rd[q].pos) = i
      BY <2>2 DEF Computed
    <3> QED BY <1>1, <2>2, <3>1
  <2> QED BY <1>3, <2>1, <2>2
<1>4. ASSUME NEW i \in 1..Len(entries), crc'[i].state = "busy"
      PROVE  (\E q \in Reader : rd[q].status = "crc" /\ EntryAt(rd[q].pos) = i)'
  <2>1. PICK q \in Reader : rd'[q].status = "crc" /\ EntryAt(rd'[q].pos) = i
    BY <1>3, <1>4
  <2>2. PICK p : p = rd'[q].pos
    OBVIOUS
  <2>3. EntryAt(p)' = i
    BY <1>2, <2>1, <2>2
  <2>4. EntryAt(rd[q].pos)' = i
    BY <2>2, <2>3 DEF EntryAt
  <2> QED BY <2>1, <2>4
<1> QED BY <1>2, <1>4 DEF Computed

LEMMA ComputedNext ==
  ASSUME ZipInv, Computed, [Next]_vars
  PROVE  Computed'
<1>1. ASSUME NEW r \in Reader, NEW t, Set(r, t), index = "ready",
             UNCHANGED <<indexVars, crc>>, rd[r].status # "crc"
      PROVE  Computed'
  BY <1>1, ComputedStep
<1>2. ASSUME NEW r \in Reader, Open(r) \/ CallAtEnd(r) \/ Call(r) \/ Return(r)
      PROVE  Computed'
  <2>1. /\ \E t : Set(r, t)
        /\ UNCHANGED <<indexVars, crc>> /\ rd[r].status # "crc"
    BY <1>2 DEF Open, CallAtEnd, Call, Return
  <2>2. index = "ready"
    BY <1>2 DEF Open, CallAtEnd, Call, Return, ZipInv, ReaderInv
  <2> QED BY <1>1, <2>1, <2>2
<1>3. ASSUME NEW r \in Reader,
             CopyRecord(r) \/ RecordFails(r) \/ CopyData(r) \/ DataEnds(r) \/ DataFails(r)
      PROVE  Computed'
  <2>1. /\ \E t : Set(r, t)
        /\ UNCHANGED <<indexVars, crc>> /\ rd[r].status = "loop"
    BY <1>3 DEF CopyRecord, RecordFails, CopyData, DataEnds, DataFails, Produce, Fail, InSegment
  <2>2. index = "ready"
    BY <2>1 DEF ZipInv, ReaderInv
  <2> QED BY <1>1, <2>1, <2>2
<1>4. ASSUME NEW r \in Reader, StartCrc(r) PROVE Computed'
  <2>1. PICK g \in Segment :
          g = segments[FindSegment(rd[r].pos)] /\ Describes(g) /\ index = "ready"
    BY <1>4, TurnSegment DEF StartCrc, InSegment
  <2>2. /\ rd[r].status = "loop" /\ HoldsCrc(g) /\ crc[g.entry].state = "empty"
        /\ Set(r, [rd[r] EXCEPT !.status = "crc"])
        /\ crc' = [crc EXCEPT ![g.entry] = [NoCell EXCEPT !.state = "busy"]]
        /\ UNCHANGED indexVars
    BY <1>4, <2>1 DEF StartCrc, InSegment, NeedsCrc
  <2>3. PICK k \in 1..Len(entries) : k = g.entry /\ k = EntryAt(rd[r].pos)
    BY <2>1, <2>2, HeaderHasEntry DEF EntryAt
  <2>4. PICK s \in State : s = rd[r]
    BY DEF ZipInv
  <2>5. PICK t : t = [s EXCEPT !.status = "crc"]
    OBVIOUS
  <2>6. t.status = "crc" /\ t.pos = s.pos /\ Set(r, t)
    BY <2>2, <2>4, <2>5 DEF State
  <2>7. EntryAt(t.pos) = k
    BY <2>3, <2>4, <2>6
  <2>8. \A i \in 1..Len(entries) : i # k => crc'[i] = crc[i]
    BY <2>1, <2>2, <2>3 DEF ZipInv, CellsTypeOK
  <2> QED BY <2>1, <2>2, <2>6, <2>7, <2>8, ComputedStep
<1>5. ASSUME NEW r \in Reader, rd[r].status = "crc", NEW c, NEW t,
             crc' = [crc EXCEPT ![CrcEntry(r)] = c], Set(r, t), t.pos = rd[r].pos,
             t.status = "crc" \/ c.state # "busy", UNCHANGED indexVars
      PROVE  Computed'
  <2>1. index = "ready" /\ EntryAt(rd[r].pos) \in 1..Len(entries)
    BY <1>5 DEF ZipInv, ReaderInv
  <2>2. PICK k \in 1..Len(entries) : k = CrcEntry(r) /\ k = EntryAt(rd[r].pos)
    BY <2>1 DEF EntryAt, CrcEntry
  <2>3. crc'[k] = c /\ \A i \in 1..Len(entries) : i # k => crc'[i] = crc[i]
    BY <1>5, <2>1, <2>2 DEF ZipInv, CellsTypeOK
  <2>4. EntryAt(t.pos) = k
    BY <1>5, <2>2
  <2> QED BY <1>5, <2>1, <2>2, <2>3, <2>4, ComputedStep
<1>6. ASSUME NEW r \in Reader, ReadForCrc(r) PROVE Computed'
  <2>1. PICK i : i = CrcEntry(r)
    OBVIOUS
  <2>2. PICK c : c = [crc[i] EXCEPT !.total = @ + Lower(CrcBuffer, file[i].len - @),
                                    !.seen = @ \cup {file[i].version}]
    OBVIOUS
  <2>3. crc' = [crc EXCEPT ![i] = c]
    BY <1>6, <2>1, <2>2 DEF ReadForCrc
  <2>4. Set(r, rd[r]) /\ rd[r].status = "crc" /\ UNCHANGED indexVars
    BY <1>6 DEF ReadForCrc, Set, ZipInv
  <2> QED BY <1>5, <2>1, <2>3, <2>4
<1>7. ASSUME NEW r \in Reader, FinishCrc(r) \/ CrcFails(r) PROVE Computed'
  <2>1. PICK s \in State : s = rd[r] /\ s.status = "crc"
    BY <1>7 DEF FinishCrc, CrcFails, ZipInv
  <2>2. PICK k \in 1..Len(entries) : k = CrcEntry(r) /\ index = "ready"
    BY <2>1 DEF ZipInv, ReaderInv, EntryAt, CrcEntry
  <2>3. PICK d \in Cell : d = crc[k]
    BY <2>2 DEF ZipInv, CellsTypeOK
  <2>4. PICK state \in {"ok", "error"} : crc' = [crc EXCEPT ![k].state = state]
    BY <1>7, <2>2 DEF FinishCrc, CrcFails
  <2>5. PICK c : c = [d EXCEPT !.state = state]
    OBVIOUS
  <2>6. crc' = [crc EXCEPT ![k] = c] /\ c.state # "busy"
    BY <2>2, <2>3, <2>4, <2>5 DEF Cell
  <2>7. PICK t : t = [s EXCEPT !.status = "loop"]
    OBVIOUS
  <2>8. Set(r, t) /\ t.pos = rd[r].pos /\ UNCHANGED indexVars
    BY <1>7, <2>1, <2>7 DEF FinishCrc, CrcFails, State
  <2> QED BY <1>5, <2>1, <2>2, <2>6, <2>8
<1>8. ASSUME UNCHANGED <<indexVars, rd, crc>> PROVE Computed'
  <2>1. /\ index' = index /\ entries' = entries /\ rd' = rd /\ crc' = crc
        /\ segments' = segments
    BY <1>8 DEF indexVars
  <2>2. \A p : FindSegment(p)' = FindSegment(p)
    BY <1>8, FrozenIndex DEF ZipInv
  <2>3. ASSUME NEW r \in Reader PROVE EntryAt(rd[r].pos)' = EntryAt(rd[r].pos)
    <3>1. PICK p : p = rd[r].pos /\ p = rd'[r].pos
      BY <2>1
    <3> QED BY <2>1, <2>2, <3>1 DEF EntryAt
  <2> QED BY <2>1, <2>3 DEF Computed
<1>9. CASE Build
  <2>1. CASE Publish
    <3>1. entries' = entries /\ \A i \in 1..Len(entries) : crc'[i].state = "empty"
      BY <2>1 DEF Publish, FinishIndex, NoCell
    <3> QED BY <3>1 DEF Computed
  <2>2. CASE LayLocal \/ StartCentral \/ LayCentral
    BY <2>2 DEF LayLocal, StartCentral, LayCentral, Computed
  <2> QED BY <1>9, <2>1, <2>2 DEF Build
<1>10. CASE Change \/ UNCHANGED vars
  BY <1>8, <1>10 DEF Change, vars, readerVars
<1> QED BY <1>2, <1>3, <1>4, <1>6, <1>7, <1>9, <1>10 DEF Next, Step, Turn

(***************************************************************************)
(* No reader waits for a CRC nobody computes, however the computation ended*)
(* (get_or_init of EntryMeta::crc in write_segment_into).                  *)
(***************************************************************************)
THEOREM BusyIsBeingComputed == Spec => []BusyHasReader
<1>1. Init => Computed
  BY DEF Init, IndexInit, Computed
<1>2. ZipInv /\ Computed /\ [Next]_vars => Computed'
  BY ComputedNext
<1>3. ZipInv /\ Computed => BusyHasReader
  <2> SUFFICES ASSUME ZipInv, Computed, index = "ready", NEW i \in 1..Len(entries)
               PROVE  crc[i].state = "busy" <=>
                        \E r \in Reader : rd[r].status = "crc" /\ CrcEntry(r) = i
    BY DEF BusyHasReader
  <2>1. \A r \in Reader : CrcEntry(r) = EntryAt(rd[r].pos)
    BY DEF CrcEntry, EntryAt
  <2>2. \A r \in Reader : rd[r].status = "crc" => crc[EntryAt(rd[r].pos)].state = "busy"
    BY DEF ZipInv, ReaderInv
  <2> QED BY <2>1, <2>2 DEF Computed
<1> QED BY <1>1, <1>2, <1>3, ZipInvariant, PTL DEF Spec

-----------------------------------------------------------------------------
(***************************************************************************)
(* A call that has written nothing yet is short of its range, so that it   *)
(* does not return 0 before the end.                                       *)
(***************************************************************************)
Underway(s) == s.status \in {"loop", "crc"} => s.written > 0 \/ s.pos < s.end

Begun == \A r \in Reader : Underway(rd[r])

LEMMA BegunStep ==
  ASSUME ZipInv, Begun, NEW r \in Reader, NEW t, Set(r, t), Underway(t)
  PROVE  Begun'
<1>1. \A q \in Reader : rd'[q] = IF q = r THEN t ELSE rd[q]
  BY DEF ZipInv, Set
<1> QED BY <1>1 DEF Begun, Underway

\* What a turn that copies produces is not nothing.
LEMMA CopiesSome ==
  ASSUME ZipInv, NEW r \in Reader, CopyRecord(r) \/ CopyData(r)
  PROVE  \E n \in Nat \ {0} : \E t \in State :
           /\ Set(r, t) /\ rd[r].status = "loop" /\ t.status = "loop"
           /\ t.pos = rd[r].pos + n /\ t.written = rd[r].written + n
           /\ t.end = rd[r].end /\ t.pos <= t.end
<1>1. rd[r].status = "loop" /\ More(rd[r])
  BY DEF CopyRecord, CopyData, InSegment
<1>2. PICK g \in Segment :
        /\ g = segments[FindSegment(rd[r].pos)] /\ Describes(g) /\ index = "ready"
        /\ g.start <= rd[r].pos /\ rd[r].pos < EndOf(g)
  BY <1>1, TurnSegment
<1>3. PICK s \in State : s = rd[r]
  BY DEF ZipInv
<1>4. PICK want \in Nat \ {0} : want = Want(s, g) /\ s.pos + want <= s.end
  BY <1>1, <1>2, <1>3, WantBounds DEF More
<1>5. /\ s.pos \in Nat /\ s.written \in Nat /\ s.end \in Nat
      /\ g.kind \in SegmentKind /\ g.entry \in Nat /\ g.start \in Nat
  BY DEF State, Segment
<1>6. PICK n \in Nat \ {0} : n <= want /\ Produce(r, g, n)
  <2>1. CASE CopyRecord(r)
    <3>1. Produce(r, g, want)
      BY <1>2, <1>3, <1>4, <2>1 DEF CopyRecord
    <3> QED BY <1>4, <3>1
  <2>2. CASE CopyData(r)
    <3>1. PICK at, there, most : /\ at = s.pos - g.start /\ there = file[g.entry].len
                                 /\ most = Lower(want, there - at) /\ at < there
                                 /\ g.kind = "data"
                                 /\ \E n \in {most} \cup {m \in ShortReads : m < most} :
                                      Produce(r, g, n)
      BY <1>2, <1>3, <1>4, <2>2 DEF CopyData
    <3>2. at \in Int /\ there \in Nat
      <4>1. g.entry \in 1..Len(entries)
        BY <1>2, <3>1 DEF Describes
      <4> QED BY <1>2, <1>5, <3>1, <4>1 DEF ZipInv, CellsTypeOK
    <3>3. most \in Nat \ {0} /\ most <= want
      BY <1>4, <3>1, <3>2 DEF Lower
    <3>4. PICK n : n \in {most} \cup {m \in ShortReads : m < most} /\ Produce(r, g, n)
      BY <3>1
    <3>5. n \in Nat \ {0} /\ n <= want
      <4>1. n = most \/ (n \in ShortReads /\ n < most)
        BY <3>4, Zenon
      <4>2. CASE n = most
        BY <3>3, <4>2
      <4>3. CASE n \in ShortReads /\ n < most
        <5>1. n \in Nat \ {0}
          BY <4>3, ReaderAssumption
        <5> QED BY <1>4, <3>3, <4>3, <5>1
      <4> QED BY <4>1, <4>2, <4>3
    <3> QED BY <3>4, <3>5
  <2> QED BY <2>1, <2>2
<1>7. PICK p \in Nat, w \in Nat : p = s.pos + n /\ w = s.written + n /\ p <= s.end
  BY <1>4, <1>5, <1>6
<1>8. PICK at \in Nat : at = s.pos - g.start
  BY <1>2, <1>3, <1>5
<1>9. PICK run \in Run : run = [kind |-> g.kind, entry |-> g.entry, from |-> s.pos,
                                at |-> at, count |-> n]
  BY <1>5, <1>6, <1>8 DEF Run
<1>10. PICK t \in State : t = [s EXCEPT !.pos = p, !.written = w, !.run = run]
  BY DEF State
<1>11. t.pos = p /\ t.written = w /\ t.end = s.end /\ t.status = s.status
  BY <1>10 DEF State
<1>12. Set(r, t)
  BY <1>3, <1>6, <1>7, <1>8, <1>9, <1>10 DEF Produce
<1> QED BY <1>1, <1>3, <1>6, <1>7, <1>11, <1>12

LEMMA BegunNext ==
  ASSUME ZipInv, Begun, [Next]_vars
  PROVE  Begun'
<1>1. ASSUME rd' = rd PROVE Begun'
  BY <1>1 DEF Begun, Underway
<1>2. ASSUME NEW r \in Reader, NEW t, Set(r, t), t.status \notin {"loop", "crc"}
      PROVE  Begun'
  BY <1>2, BegunStep DEF Underway
<1>3. ASSUME NEW r \in Reader,
             \/ Open(r) \/ CallAtEnd(r) \/ Return(r)
             \/ RecordFails(r) \/ DataEnds(r) \/ DataFails(r)
      PROVE  Begun'
  <2>1. PICK s \in State : s = rd[r]
    BY DEF ZipInv
  <2>2. CASE Open(r)
    <3>1. PICK a, e, b : Set(r, [s EXCEPT !.start = a, !.end = e, !.buf = b, !.current_pos = a,
                                          !.pos = a, !.status = "idle"])
      BY <2>1, <2>2 DEF Open
    <3>2. PICK t : t = [s EXCEPT !.start = a, !.end = e, !.buf = b, !.current_pos = a,
                                 !.pos = a, !.status = "idle"]
      OBVIOUS
    <3> QED BY <1>2, <3>1, <3>2 DEF State
  <2>3. CASE Return(r)
    <3>1. PICK status \in {"ended", "idle"} : status = IF s.written = 0 THEN "ended" ELSE "idle"
      OBVIOUS
    <3>2. PICK t : t = [s EXCEPT !.current_pos = s.pos, !.status = status]
      OBVIOUS
    <3>3. Set(r, t) /\ t.status = status
      BY <2>1, <2>3, <3>1, <3>2 DEF Return, State
    <3> QED BY <1>2, <3>3
  <2>4. CASE CallAtEnd(r) \/ RecordFails(r) \/ DataEnds(r) \/ DataFails(r)
    <3>1. PICK status \in {"ended", "failed"} : Set(r, [s EXCEPT !.status = status])
      BY <2>1, <2>4 DEF CallAtEnd, RecordFails, DataEnds, DataFails, Fail
    <3>2. PICK t : t = [s EXCEPT !.status = status]
      OBVIOUS
    <3> QED BY <1>2, <3>1, <3>2 DEF State
  <2> QED BY <1>3, <2>2, <2>3, <2>4
<1>4. ASSUME NEW r \in Reader, Call(r) PROVE Begun'
  <2>1. PICK s \in State : s = rd[r] /\ s.current_pos < s.end
    BY <1>4 DEF Call, ZipInv
  <2>2. PICK t : t = [s EXCEPT !.pos = s.current_pos, !.written = 0, !.status = "loop"]
    OBVIOUS
  <2>3. t.pos < t.end /\ Set(r, t)
    BY <1>4, <2>1, <2>2 DEF Call, State
  <2> QED BY <2>3, BegunStep DEF Underway
<1>5. ASSUME NEW r \in Reader, CopyRecord(r) \/ CopyData(r) PROVE Begun'
  <2>1. PICK n \in Nat \ {0}, t \in State : Set(r, t) /\ t.written = rd[r].written + n
    BY <1>5, CopiesSome
  <2>2. rd[r].written \in Nat
    BY DEF ZipInv, State
  <2>3. t.written > 0
    BY <2>1, <2>2
  <2> QED BY <2>1, <2>3, BegunStep DEF Underway
<1>6. ASSUME NEW r \in Reader, StartCrc(r) \/ FinishCrc(r) \/ CrcFails(r) PROVE Begun'
  <2>1. PICK s \in State : s = rd[r] /\ Underway(s) /\ s.status \in {"loop", "crc"}
    BY <1>6 DEF ZipInv, Begun, StartCrc, FinishCrc, CrcFails, InSegment
  <2>2. PICK status \in {"loop", "crc"} : Set(r, [s EXCEPT !.status = status])
    BY <1>6, <2>1 DEF StartCrc, FinishCrc, CrcFails
  <2>3. PICK t : t = [s EXCEPT !.status = status]
    OBVIOUS
  <2>4. t.written = s.written /\ t.pos = s.pos /\ t.end = s.end
    BY <2>3 DEF State
  <2> QED BY <2>1, <2>2, <2>3, <2>4, BegunStep DEF Underway
<1>7. ASSUME NEW r \in Reader, ReadForCrc(r) PROVE Begun'
  BY <1>1, <1>7 DEF ReadForCrc
<1>8. CASE Build \/ Change \/ UNCHANGED vars
  BY <1>1, <1>8 DEF Build, Publish, Change, vars, readerVars
<1> QED BY <1>3, <1>4, <1>5, <1>6, <1>7, <1>8 DEF Next, Step, Turn

-----------------------------------------------------------------------------
LEMMA StepDelivers ==
  ASSUME ZipInv, Begun, NEW r \in Reader,
         \/ CallAtEnd(r) \/ Call(r) \/ Return(r) \/ CopyRecord(r) \/ CopyData(r)
         \/ RecordFails(r) \/ DataEnds(r) \/ DataFails(r)
  PROVE  ToDeliver(r)' < ToDeliver(r)
<1>1. PICK s \in State : s = rd[r] /\ ReaderInv(s) /\ Underway(s)
  BY DEF ZipInv, Begun
<1>2. /\ s.current_pos \in Nat /\ s.pos \in Nat /\ s.written \in Nat /\ s.end \in Nat
      /\ s.buf \in Nat \ {0} /\ total_size \in Nat
  BY DEF State, ZipInv, IndexInv, IndexTypeOK
<1>3. ASSUME NEW t, Set(r, t) PROVE rd'[r] = t
  BY <1>3 DEF Set, ZipInv
<1>4. CASE CallAtEnd(r)
  <2>1. PICK t : t = [s EXCEPT !.status = "ended"]
    OBVIOUS
  <2>2. rd'[r] = t /\ t.status = "ended" /\ s.status = "idle"
    BY <1>1, <1>3, <1>4, <2>1 DEF CallAtEnd, State
  <2>3. ToDeliver(r)' = 0 /\ ToDeliver(r) = 3 * (s.end - s.current_pos) + 1
    BY <1>1, <2>2 DEF ToDeliver
  <2>4. s.current_pos <= s.end
    BY <1>1, <2>2 DEF ReaderInv
  <2> QED BY <1>2, <2>3, <2>4
<1>5. CASE Call(r)
  <2>1. PICK t : t = [s EXCEPT !.pos = s.current_pos, !.written = 0, !.status = "loop"]
    OBVIOUS
  <2>2. /\ rd'[r] = t /\ t.status = "loop" /\ t.written = 0 /\ t.pos = s.current_pos
        /\ t.end = s.end /\ s.status = "idle"
    BY <1>1, <1>3, <1>5, <2>1 DEF Call, State
  <2>3. /\ ToDeliver(r)' = 3 * (s.end - s.current_pos) + 0
        /\ ToDeliver(r) = 3 * (s.end - s.current_pos) + 1
    BY <1>1, <2>2 DEF ToDeliver
  <2> QED BY <1>2, <2>3
<1>6. CASE Return(r)
  <2>1. s.status = "loop" /\ ~ More(s)
    BY <1>1, <1>6 DEF Return
  <2>2. s.pos = s.current_pos + s.written /\ s.pos <= s.end /\ s.end <= total_size
    BY <1>1, <2>1 DEF ReaderInv
  <2>3. s.written # 0
    <3> SUFFICES ASSUME s.written = 0 PROVE FALSE
      OBVIOUS
    <3>1. s.pos < s.end
      BY <1>1, <1>2, <2>1 DEF Underway
    <3>2. s.written < s.buf /\ s.pos < total_size
      BY <1>2, <2>2, <3>1
    <3> QED BY <2>1, <3>1, <3>2 DEF More
  <2>4. PICK t : t = [s EXCEPT !.current_pos = s.pos, !.status = "idle"]
    OBVIOUS
  <2>5. rd'[r] = t /\ t.status = "idle" /\ t.current_pos = s.pos /\ t.end = s.end
    BY <1>1, <1>3, <1>6, <2>3, <2>4 DEF Return, State
  <2>6. /\ ToDeliver(r)' = 3 * (s.end - s.pos) + 1
        /\ ToDeliver(r) = 3 * (s.end - s.pos) + 2
    BY <1>1, <2>1, <2>3, <2>5 DEF ToDeliver
  <2> QED BY <1>2, <2>6
<1>7. CASE CopyRecord(r) \/ CopyData(r)
  <2>1. PICK n \in Nat \ {0}, t \in State :
          /\ Set(r, t) /\ s.status = "loop" /\ t.status = "loop"
          /\ t.pos = s.pos + n /\ t.written = s.written + n /\ t.end = s.end
    BY <1>1, <1>7, CopiesSome
  <2>2. t.written # 0
    BY <1>2, <2>1
  <2>3. PICK some \in {0, 2} : some = IF s.written = 0 THEN 0 ELSE 2
    OBVIOUS
  <2>4. ToDeliver(r) = 3 * (s.end - s.pos) + some
    BY <1>1, <2>1, <2>3 DEF ToDeliver
  <2>5. ToDeliver(r)' = 3 * (s.end - (s.pos + n)) + 2
    BY <1>3, <2>1, <2>2 DEF ToDeliver
  <2> QED BY <1>2, <2>3, <2>4, <2>5
<1>8. CASE RecordFails(r) \/ DataEnds(r) \/ DataFails(r)
  <2>1. s.status = "loop" /\ s.pos < s.end /\ Fail(r)
    BY <1>1, <1>8 DEF RecordFails, DataEnds, DataFails, InSegment, More
  <2>2. PICK t : t = [s EXCEPT !.status = "failed"]
    OBVIOUS
  <2>3. rd'[r] = t /\ t.status = "failed"
    BY <1>1, <1>3, <2>1, <2>2 DEF Fail, State
  <2>4. PICK some \in {0, 2} : some = IF s.written = 0 THEN 0 ELSE 2
    OBVIOUS
  <2>5. ToDeliver(r)' = 0 /\ ToDeliver(r) = 3 * (s.end - s.pos) + some
    BY <1>1, <2>1, <2>3, <2>4 DEF ToDeliver
  <2> QED BY <1>2, <2>1, <2>4, <2>5
<1> QED BY <1>4, <1>5, <1>6, <1>7, <1>8

LEMMA StepReads ==
  ASSUME ZipInv, NEW r \in Reader,
         StartCrc(r) \/ ReadForCrc(r) \/ FinishCrc(r) \/ CrcFails(r)
  PROVE  ToDeliver(r)' = ToDeliver(r) /\ ToRead(r)' < ToRead(r)
<1>1. PICK s \in State : s = rd[r] /\ ReaderInv(s)
  BY DEF ZipInv
<1>2. s.status \in {"loop", "crc"} /\ More(s)
  BY <1>1 DEF StartCrc, ReadForCrc, FinishCrc, CrcFails, InSegment, ReaderInv
<1>3. PICK g \in Segment :
        /\ g = segments[FindSegment(s.pos)] /\ Describes(g) /\ index = "ready"
        /\ FindSegment(s.pos) # 0
  <2>1. FindSegment(s.pos) # 0
    <3>1. PICK k : k = FindSegment(s.pos) /\ k \in 1..Len(segments)
      BY <1>1, <1>2, TurnSegment
    <3>2. Len(segments) \in Nat
      BY DEF ZipInv, IndexInv, IndexTypeOK
    <3> QED BY <3>1, <3>2
  <2> QED BY <1>1, <1>2, <2>1, TurnSegment
<1>4. PICK t \in State, status \in {"loop", "crc"} :
        rd'[r] = t /\ t = [s EXCEPT !.status = status]
  <2>1. CASE ReadForCrc(r)
    <3>1. rd'[r] = [s EXCEPT !.status = s.status]
      BY <1>1, <2>1 DEF ReadForCrc, State
    <3> QED BY <1>1, <1>2, <2>1, <3>1 DEF ReadForCrc
  <2>2. CASE StartCrc(r) \/ FinishCrc(r) \/ CrcFails(r)
    <3>1. PICK status \in {"loop", "crc"} : Set(r, [s EXCEPT !.status = status])
      BY <1>1, <2>2 DEF StartCrc, FinishCrc, CrcFails
    <3>2. PICK t : t = [s EXCEPT !.status = status]
      OBVIOUS
    <3>3. t \in State
      BY <3>2 DEF State
    <3>4. rd'[r] = t
      BY <3>1, <3>2 DEF Set, ZipInv
    <3> QED BY <3>2, <3>3, <3>4
  <2> QED BY <2>1, <2>2
<1>5. t.status = status /\ t.pos = s.pos /\ t.written = s.written /\ t.end = s.end
  BY <1>4 DEF State
<1>6. ToDeliver(r)' = ToDeliver(r)
  BY <1>1, <1>2, <1>4, <1>5 DEF ToDeliver
<1>7. CASE StartCrc(r)
  <2>1. /\ s.status = "loop" /\ NeedsCrc(g) /\ HoldsCrc(g) /\ crc[g.entry].state = "empty"
        /\ crc' = [crc EXCEPT ![g.entry] = [NoCell EXCEPT !.state = "busy"]]
        /\ UNCHANGED <<indexVars, file>> /\ InSegment(r, FindSegment(rd[r].pos))
        /\ rd'[r].status = "crc"
    <3>1. Set(r, [s EXCEPT !.status = "crc"])
      BY <1>1, <1>7 DEF StartCrc
    <3>2. rd'[r] = [s EXCEPT !.status = "crc"]
      BY <3>1 DEF Set, ZipInv
    <3> QED BY <1>1, <1>3, <1>7, <3>2 DEF StartCrc, InSegment, NeedsCrc, State
  <2>2. PICK k \in 1..Len(entries) : k = g.entry
    BY <1>3, <2>1, HeaderHasEntry
  <2>3. PICK len \in Nat : len = file[k].len
    BY <1>3 DEF ZipInv, CellsTypeOK
  <2>4. MustCompute(r)
    BY <1>1, <1>3, <2>1 DEF MustCompute
  <2>5. ToRead(r) = 2 + len
    BY <1>1, <1>3, <2>1, <2>2, <2>3, <2>4 DEF ToRead, CrcEntry
  <2>6. crc'[k].total = 0 /\ file'[k].len = len
    BY <1>3, <2>1, <2>2, <2>3 DEF ZipInv, CellsTypeOK, NoCell
  <2>7. CrcEntry(r)' = k
    <3>1. FindSegment(s.pos)' = FindSegment(s.pos) /\ segments' = segments
      BY <2>1, FrozenIndex DEF ZipInv, indexVars
    <3> QED BY <1>3, <1>4, <1>5, <2>2, <3>1 DEF CrcEntry
  <2>8. ToRead(r)' = 1 + (IF 0 < len THEN len - 0 ELSE 0)
    <3>1. ~ MustCompute(r)'
      BY <2>1 DEF MustCompute, InSegment
    <3> QED BY <2>1, <2>6, <2>7, <3>1 DEF ToRead
  <2> QED BY <1>6, <2>3, <2>5, <2>8
<1>8. CASE ReadForCrc(r) \/ FinishCrc(r) \/ CrcFails(r)
  <2>1. s.status = "crc" /\ UNCHANGED <<indexVars, file>>
    BY <1>1, <1>8 DEF ReadForCrc, FinishCrc, CrcFails
  <2>2. PICK k \in 1..Len(entries) : k = CrcEntry(r) /\ k = g.entry
    BY <1>1, <1>3, <2>1 DEF ReaderInv, EntryAt, CrcEntry
  <2>3. PICK total \in Nat, len \in Nat : total = crc[k].total /\ len = file[k].len
    BY <1>3 DEF ZipInv, CellsTypeOK, Cell
  <2>4. ToRead(r) = 1 + (IF total < len THEN len - total ELSE 0)
    <3>1. ~ MustCompute(r)
      BY <1>1, <2>1 DEF MustCompute, InSegment
    <3> QED BY <1>1, <2>1, <2>2, <2>3, <3>1 DEF ToRead
  <2>5. FindSegment(s.pos)' = FindSegment(s.pos) /\ segments' = segments /\ file'[k].len = len
    BY <2>1, <2>3, FrozenIndex DEF ZipInv, indexVars
  <2>6. CASE ReadForCrc(r)
    <3>1. PICK read \in Nat \ {0} : read = Lower(CrcBuffer, len - total)
      BY <2>2, <2>3, <2>6, ReaderAssumption DEF ReadForCrc, Lower
    <3>2. total < len /\ read <= len - total
      BY <2>2, <2>3, <2>6, <3>1, ReaderAssumption DEF ReadForCrc, Lower
    <3>3. crc'[k].total = total + read
      BY <1>3, <2>2, <2>3, <2>6, <3>1 DEF ReadForCrc, ZipInv, CellsTypeOK, Cell
    <3>4. rd'[r].status = "crc" /\ CrcEntry(r)' = k
      BY <1>1, <2>1, <2>2, <2>5, <2>6 DEF ReadForCrc, CrcEntry
    <3>5. ToRead(r)' = 1 + (IF total + read < len THEN len - (total + read) ELSE 0)
      <4>1. ~ MustCompute(r)'
        BY <3>4 DEF MustCompute, InSegment
      <4> QED BY <2>5, <3>3, <3>4, <4>1 DEF ToRead
    <3> QED BY <1>6, <2>3, <2>4, <3>1, <3>2, <3>5
  <2>7. CASE FinishCrc(r) \/ CrcFails(r)
    <3>1. crc'[k].state # "empty"
      BY <1>3, <2>2, <2>7 DEF FinishCrc, CrcFails, ZipInv, CellsTypeOK, Cell
    <3>2. rd'[r].status = "loop"
      <4>1. Set(r, [s EXCEPT !.status = "loop"])
        BY <1>1, <2>7 DEF FinishCrc, CrcFails
      <4>2. rd'[r] = [s EXCEPT !.status = "loop"]
        BY <4>1 DEF Set, ZipInv
      <4> QED BY <4>2 DEF State
    <3>3. ~ MustCompute(r)'
      <4>1. segments'[FindSegment(rd[r].pos)'].entry = k
        BY <1>3, <1>4, <1>5, <2>2, <2>5 DEF FindSegment
      <4> QED BY <3>1, <4>1 DEF MustCompute
    <3>4. ToRead(r)' = 0
      BY <3>2, <3>3 DEF ToRead
    <3> QED BY <1>6, <2>3, <2>4, <3>4
  <2> QED BY <1>8, <2>6, <2>7
<1> QED BY <1>7, <1>8

(***************************************************************************)
(* No loop of read_into_buffer, compute_crc32 or the callers of read goes  *)
(* round for nothing: every step of a reader brings it nearer to its end.  *)
(***************************************************************************)
THEOREM ZipStepsCount == Spec => EveryStepCounts
<1>1. Init => Begun
  BY DEF Init, Begun, Underway
<1>2. ZipInv /\ Begun /\ [Next]_vars => Begun'
  BY BegunNext
<1>3. ZipInv /\ Begun =>
        \A r \in Reader : Step(r) =>
          \/ ToDeliver(r)' < ToDeliver(r)
          \/ ToDeliver(r)' = ToDeliver(r) /\ ToRead(r)' < ToRead(r)
  BY StepDelivers, StepReads DEF Step, Turn
<1> QED BY <1>1, <1>2, <1>3, ZipInvariant, PTL DEF Spec, EveryStepCounts
==============================================================================
