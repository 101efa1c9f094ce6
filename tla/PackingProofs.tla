--------------------------- MODULE PackingProofs ---------------------------
(***************************************************************************)
(* Proofs about Packing, for every manifest and every target size: the     *)
(* sealed volumes hold the manifest up to the cursor exactly once and in   *)
(* order, and the estimates PackNext decides by are safe for path and link *)
(* names of up to 2300 bytes.                                              *)
(***************************************************************************)
EXTENDS Packing, TLAPS

-----------------------------------------------------------------------------
(* Rounding to tar blocks.                                                  *)

Blocks(n) == n \in Nat /\ n % 512 = 0

LEMMA Round ==
  ASSUME NEW n \in Nat
  PROVE  /\ Blocks(round512(n))
         /\ n <= round512(n) /\ round512(n) <= n + 511
         /\ Owed(n) \in 0 .. 511 /\ n + Owed(n) = round512(n)
  BY DEF Blocks, round512, Owed

LEMMA NameBytes == ASSUME NEW n \in Nat PROVE round512(2 * n + 512) \in Nat
  BY DEF round512

\* Four blocks more of data are four blocks more of archive.
LEMMA RoundShift ==
  ASSUME NEW a \in Nat, NEW b \in Nat, a <= b + 2048
  PROVE  round512(a) <= round512(b) + 2048
  BY DEF round512

\* Data that exceed m, a whole number of blocks, by less than a block.
LEMMA RoundTop ==
  ASSUME NEW a \in Nat, NEW m, Blocks(m), a <= m + 511
  PROVE  round512(a) <= m + 512
  BY DEF round512, Blocks

LEMMA BlocksAdd ==
  ASSUME NEW a, NEW b, Blocks(a), Blocks(b)
  PROVE  Blocks(a + b) /\ (a <= b => Blocks(b - a))
  BY DEF Blocks

-----------------------------------------------------------------------------
(* Headers.                                                                 *)

LEMMA PaxBytes ==
  ASSUME NEW k \in Nat, NEW n \in Nat
  PROVE  /\ PaxRecord(k, n) \in Nat /\ PaxRecord(k, n) <= n + k + 4
         /\ LongRecord(k, n) \in Nat /\ LongRecord(k, n) <= n + k + 4
  BY DEF PaxRecord, LongRecord

LEMMA HeaderIs ==
  ASSUME NEW n \in Nat
  PROVE  /\ Blocks(HeaderBytes(n)) /\ HeaderBytes(n) = 1024 + round512(52 + n)
  BY Round, BlocksAdd, SMTT(30) DEF Blocks, HeaderBytes

\* The header of a whole entry; the estimate covers it if the names are short.
LEMMA EntryHeaderFits ==
  ASSUME NEW e \in Entry
  PROVE  /\ Blocks(EntryHeader(e))
         /\ e.name <= 2300 /\ e.link <= 2300 =>
              /\ EntryHeader(e) <= 3072 + round512(2 * e.name + 512)
              /\ EntryHeader(e) <= 8192
  <1>0. e.name \in Nat /\ e.link \in Nat
    BY DEF Entry
  <1> DEFINE n == IF e.kind = "dir" THEN e.name + 1 ELSE e.name
             r == LongRecord(7, n) + LongRecord(11, e.link)
  <1>1. n \in Nat /\ n <= e.name + 1
    BY <1>0
  <1>2. r \in Nat /\ r <= e.name + e.link + 27
    <2> HIDE DEF n
    <2>1. LongRecord(7, n) \in Nat /\ LongRecord(7, n) <= n + 7 + 4
      BY ONLY <1>1, 7 \in Nat, PaxBytes
    <2>2. /\ LongRecord(11, e.link) \in Nat
          /\ LongRecord(11, e.link) <= e.link + 11 + 4
      BY ONLY <1>0, 11 \in Nat, PaxBytes
    <2> QED BY <1>0, <1>1, <2>1, <2>2
  <1>3. EntryHeader(e) = HeaderBytes(r)
    BY DEF EntryHeader
  <1> HIDE DEF r
  <1>4. Blocks(EntryHeader(e)) /\ EntryHeader(e) = 1024 + round512(52 + r)
    BY <1>2, <1>3, HeaderIs
  <1>5. ASSUME e.name <= 2300, e.link <= 2300
        PROVE  /\ EntryHeader(e) <= 3072 + round512(2 * e.name + 512)
               /\ EntryHeader(e) <= 8192
    <2>1. 52 + r <= (2 * e.name + 512) + 2048 /\ 52 + r <= 4679
      BY <1>0, <1>2, <1>5
    <2>2. round512(52 + r) <= round512(2 * e.name + 512) + 2048
      BY <1>0, <1>2, <2>1, RoundShift
    <2>3. round512(52 + r) <= 52 + r + 511 /\ round512(52 + r) \in Nat
      <3>1. 52 + r \in Nat
        BY <1>2
      <3> QED BY ONLY <3>1, Round DEF Blocks
    <2>4. round512(2 * e.name + 512) \in Nat
      BY <1>0, NameBytes
    <2> QED BY <1>2, <1>4, <2>1, <2>2, <2>3, <2>4
  <1> QED BY <1>4, <1>5

LEMMA FragmentHeaderFits ==
  ASSUME NEW e \in Entry
  PROVE  /\ Blocks(FragmentHeader(e))
         /\ e.name <= 2300 => FragmentHeader(e) <= 3584
  <1>0. e.name \in Nat
    BY DEF Entry
  <1> DEFINE r == PaxRecord(19, 20) + PaxRecord(22, 19) + PaxRecord(24, e.name)
  <1>1. PaxRecord(19, 20) = 41 /\ PaxRecord(22, 19) = 43
    BY DEF PaxRecord
  <1>2. PaxRecord(24, e.name) \in Nat /\ PaxRecord(24, e.name) <= e.name + 24 + 4
    BY ONLY <1>0, 24 \in Nat, PaxBytes
  <1>3. r \in Nat /\ r <= e.name + 112
    BY <1>0, <1>1, <1>2
  <1>4. FragmentHeader(e) = HeaderBytes(r)
    BY DEF FragmentHeader
  <1> HIDE DEF r
  <1>5. Blocks(FragmentHeader(e)) /\ FragmentHeader(e) = 1024 + round512(52 + r)
    BY <1>3, <1>4, HeaderIs
  <1>6. ASSUME e.name <= 2300 PROVE round512(52 + r) <= 2560
    <2>1. 52 + r \in Nat /\ 52 + r <= 2048 + 511
      BY <1>0, <1>3, <1>6
    <2>2. Blocks(2048)
      BY DEF Blocks
    <2> QED BY <2>1, <2>2, RoundTop
  <1> QED BY <1>3, <1>5, <1>6, Round DEF Blocks

-----------------------------------------------------------------------------
(* The inductive invariant.                                                 *)

Open == {"pack", "close", "above"}

TypeInv == TypeOK /\ (pc \in Open => target \in Targets)

\* What the open volume holds leads from the saved cursor to the next one.
Led == /\ pc \in Open => Lead(items, cursor, at)
       /\ pc = "close" => items # <<>>

\* The open volume is whole blocks, padding owed included, and once it has an
\* item it could be closed without going above its target.
Sized ==
  pc \in {"pack", "close"} =>
    IF items = <<>> THEN written = 0 /\ pad = 0
                    ELSE Blocks(written + pad) /\ (ShortNames => Total <= target)

IInv == TypeInv /\ VolumesLeadToCursor /\ Led /\ Sized /\ ShortNamesFit

-----------------------------------------------------------------------------
(* Sequences of items.                                                      *)

LEMMA LeadAppend ==
  ASSUME NEW is \in Seq(Items), NEW it \in Items, NEW c, NEW d,
         Lead(is, c, d), [entry |-> it.id, offset |-> it.from] = d,
         IF it.whole THEN it.from = 0 /\ it.to = manifest[it.id].size
                     ELSE it.from < it.to
  PROVE  Lead(Append(is, it), c, After(it)) /\ Append(is, it) # <<>>
  <1> DEFINE js == Append(is, it)
  <1>1. /\ Len(is) \in Nat /\ Len(js) = Len(is) + 1
        /\ \A k \in 1 .. Len(is) : js[k] = is[k]
        /\ js[Len(is) + 1] = it
    OBVIOUS
  <1>2. js # <<>>
    BY <1>1
  <1>3. d = IF Len(is) = 0 THEN c ELSE After(is[Len(is)])
    BY DEF Lead
  <1> HIDE DEF js
  <1>4. ASSUME NEW k \in 1 .. Len(js)
        PROVE  /\ [entry |-> js[k].id, offset |-> js[k].from]
                    = IF k = 1 THEN c ELSE After(js[k - 1])
               /\ IF js[k].whole
                    THEN js[k].from = 0 /\ js[k].to = manifest[js[k].id].size
                    ELSE js[k].from < js[k].to
    <2>1. CASE k \in 1 .. Len(is)
      <3>1. js[k] = is[k] /\ (k # 1 => js[k - 1] = is[k - 1])
        BY <1>1, <2>1
      <3> QED BY <2>1, <3>1 DEF Lead
    <2>2. CASE k = Len(is) + 1
      <3>1. js[k] = it
        BY <1>1, <2>2
      <3>2. d = IF k = 1 THEN c ELSE After(js[k - 1])
        BY <1>1, <1>3, <2>2
      <3> QED BY <3>1, <3>2
    <2> QED BY <1>1, <2>1, <2>2
  <1>5. After(it) = IF js = <<>> THEN c ELSE After(js[Len(js)])
    BY <1>1, <1>2
  <1>6. Lead(js, c, After(it))
    BY <1>4, <1>5 DEF Lead
  <1> QED BY <1>2, <1>6 DEF js

\* The padding of a volume that gets its marker, and of one that has it.
LEMMA MarkedIs ==
  ASSUME TypeInv, Sized, pc = "pack"
  PROVE  /\ Marked.written \in Nat /\ Marked.pad \in 0 .. 511
         /\ Blocks(Marked.written + Marked.pad)
         /\ items = <<>> => Marked.written + Marked.pad = 1024
         /\ items # <<>> => Marked.written = written /\ Marked.pad = pad
  <1>1. Owed(MarkerData) = 429
    BY DEF Owed, MarkerData, round512
  <1>2. CASE items = <<>>
    <2>1. Marked = [written |-> 595, pad |-> 429]
      BY <1>1, <1>2 DEF Marked, MarkerData
    <2> QED BY <1>2, <2>1 DEF Blocks
  <1>3. CASE items # <<>>
    <2>1. Marked = [written |-> written, pad |-> pad]
      BY <1>3 DEF Marked
    <2> QED BY <1>3, <2>1 DEF TypeInv, TypeOK, Sized
  <1> QED BY <1>2, <1>3

LEMMA VolumesKept ==
  ASSUME VolumesLeadToCursor, UNCHANGED <<manifest, cursor, sealed>>
  PROVE  VolumesLeadToCursor'
  <1>1. ASSUME NEW k \in 1 .. Len(sealed)
        PROVE  Lead(sealed[k].items,
                    IF k = 1 THEN Origin ELSE sealed[k - 1].after,
                    sealed[k].after)'
    <2> DEFINE c == IF k = 1 THEN Origin ELSE sealed[k - 1].after
               d == sealed[k].after
               is == sealed[k].items
    <2>1. Lead(is, c, d)
      BY DEF VolumesLeadToCursor
    <2>2. c' = c /\ d' = d /\ is' = is
      BY DEF Origin
    <2> HIDE DEF c, d, is
    <2>3. Lead(is, c, d)'
      BY <2>1, <2>2 DEF Lead, After
    <2> QED BY <2>3 DEF c, d, is
  <1>2. (\A k \in 1 .. Len(sealed) : sealed[k].items # <<>>)'
    BY DEF VolumesLeadToCursor
  <1>3. (cursor = IF sealed = <<>> THEN Origin ELSE sealed[Len(sealed)].after)'
    BY DEF VolumesLeadToCursor, Origin
  <1> QED BY <1>1, <1>2, <1>3 DEF VolumesLeadToCursor

-----------------------------------------------------------------------------
(* The three steps that add an item.                                        *)

LEMMA HereIsEntry ==
  ASSUME TypeInv, More
  PROVE  /\ Here \in Entry /\ Here.size \in Nat /\ Here.name \in Nat
         /\ Here.link \in Nat
         /\ at.entry \in 1 .. Len(manifest) /\ at.offset \in Nat
         /\ at = [entry |-> at.entry, offset |-> at.offset]
         /\ at.offset > 0 => at.offset < Here.size
         /\ manifest \in Seq(Entry)
         /\ target \in Nat /\ target >= 65536 /\ Blocks(target)
  <1>1. manifest \in Seq(Entry)
    BY PackingAssumption DEF TypeInv, TypeOK
  <1>2. /\ at.entry \in 1 .. Len(manifest) /\ at.offset \in Nat
        /\ at = [entry |-> at.entry, offset |-> at.offset]
    BY <1>1 DEF TypeInv, TypeOK, Cursors, More
  <1>3. at.offset > 0 => at.offset < Here.size
    BY DEF TypeInv, TypeOK, Here
  <1>4. Here \in Entry
    BY <1>1, <1>2 DEF Here
  <1>5. Here.size \in Nat /\ Here.name \in Nat /\ Here.link \in Nat
    BY <1>4 DEF Entry
  <1>6. target \in Nat /\ target >= 65536 /\ Blocks(target)
    <2>1. target \in Targets
      BY DEF TypeInv, More, Open
    <2>2. target \in {t \in Nat : t >= 65536 /\ t % 512 = 0}
      BY <2>1, PackingAssumption
    <2> QED BY <2>2 DEF Blocks
  <1> QED BY <1>1, <1>2, <1>3, <1>4, <1>5, <1>6

\* Adding bytes from..to of the entry at the cursor keeps the invariant if the
\* volume could be closed after it.
LEMMA AddStep ==
  ASSUME IInv, More, NEW header, NEW to \in Nat, NEW whole \in BOOLEAN,
         Blocks(header), to <= Here.size,
         IF whole THEN at.offset = 0 /\ to = Here.size ELSE at.offset < to,
         Add(header, at.offset, to, whole), at' = AfterPart(to),
         pc' \in {"pack", "close"}, UNCHANGED <<manifest, cursor, sealed, target>>,
         ShortNames => Marked.written + Marked.pad + header
                         + round512(to - at.offset) + 1024 <= target
  PROVE  IInv'
  <1>h. /\ Here \in Entry /\ Here.size \in Nat
        /\ at.entry \in 1 .. Len(manifest) /\ at.offset \in Nat
        /\ at = [entry |-> at.entry, offset |-> at.offset]
        /\ manifest \in Seq(Entry) /\ Len(manifest) \in Nat
    BY HereIsEntry DEF IInv
  <1>m. /\ Marked.written \in Nat /\ Marked.pad \in 0 .. 511
        /\ Blocks(Marked.written + Marked.pad)
    BY MarkedIs DEF IInv, More
  <1>d. to - at.offset \in Nat /\ header \in Nat
    BY <1>h DEF Blocks
  <1> DEFINE it == [id |-> at.entry, from |-> at.offset, to |-> to,
                    whole |-> whole]
             n == to - at.offset
  <1>1. items' = Append(items, it)
    BY DEF Add
  <1>2. it \in Items
    BY <1>h DEF Items
  <1>3. items \in Seq(Items) /\ Lead(items, cursor, at)
    BY DEF IInv, TypeInv, TypeOK, Led, More, Open
  <1>4. After(it) = AfterPart(to)
    BY DEF After, AfterPart, Here
  <1>5. Lead(items', cursor, at') /\ items' # <<>>
    <2>1. [entry |-> it.id, offset |-> it.from] = at
      BY <1>h
    <2>2. IF it.whole THEN it.from = 0 /\ it.to = manifest[it.id].size
                      ELSE it.from < it.to
      BY DEF Here
    <2> HIDE DEF it
    <2> QED BY <1>1, <1>2, <1>3, <1>4, <2>1, <2>2, LeadAppend
  <1>6. items' \in Seq(Items)
    BY <1>1, <1>2, <1>3
  <1>7. /\ written' = Marked.written + Marked.pad + header + n
        /\ pad' = Owed(n)
    BY DEF Add
  <1>8. /\ Owed(n) \in 0 .. 511 /\ n + Owed(n) = round512(n)
        /\ Blocks(round512(n))
    <2> HIDE DEF n
    <2>1. n \in Nat
      BY <1>d DEF n
    <2> QED BY <2>1, Round
  <1>9. /\ written' \in Nat /\ pad' \in 0 .. 511
        /\ written' + pad' = Marked.written + Marked.pad + header + round512(n)
    <2> HIDE DEF n
    <2>1. n \in Nat
      BY <1>d DEF n
    <2> DEFINE o == Owed(n)
               mw == Marked.written
               mp == Marked.pad
    <2>2. mw \in Nat /\ mp \in 0 .. 511 /\ o \in 0 .. 511 /\ header \in Nat
      BY <1>d, <1>m, <1>8
    <2>3. /\ written' = mw + mp + header + n /\ pad' = o
          /\ n + o = round512(n)
      BY <1>7, <1>8
    <2> HIDE DEF o, mw, mp
    <2>4. /\ written' \in Nat /\ pad' \in 0 .. 511
          /\ written' + pad' = mw + mp + header + round512(n)
      BY <2>1, <2>2, <2>3
    <2> QED BY <2>4 DEF mw, mp
  <1>10. at' \in Cursors /\ at'.entry <= Len(manifest) + 1
         /\ (at'.offset > 0 => at'.entry <= Len(manifest)
                               /\ at'.offset < manifest[at'.entry].size)
    BY <1>h DEF AfterPart, Cursors, Here
  <1>11. TypeInv'
    BY <1>6, <1>9, <1>10 DEF IInv, TypeInv, TypeOK, Open, More
  <1>12. Blocks(written' + pad')
    <2> DEFINE w == Marked.written + Marked.pad
               r == round512(n)
    <2>1. Blocks(w) /\ Blocks(header) /\ Blocks(r)
      BY <1>m, <1>8
    <2>2. written' + pad' = w + header + r
      BY <1>9
    <2> HIDE DEF w, r
    <2> QED BY <2>1, <2>2 DEF Blocks
  <1>13. ShortNames' => Total' <= target'
    <2>1. ShortNames' <=> ShortNames
      BY DEF ShortNames
    <2>2. Total' = written' + pad' + 1024
      BY DEF Total
    <2>3. round512(n) \in Nat
      BY <1>8 DEF Blocks
    <2> QED BY <1>9, <2>1, <2>2
  <1>14. Sized'
    BY <1>5, <1>12, <1>13 DEF Sized
  <1>15. Led'
    BY <1>5 DEF Led, Lead, After
  <1>16. VolumesLeadToCursor'
    BY VolumesKept DEF IInv
  <1> QED BY <1>11, <1>14, <1>15, <1>16 DEF IInv, ShortNamesFit

LEMMA WholeFileKeeps == IInv /\ WholeFile => IInv'
  <1> SUFFICES ASSUME IInv, WholeFile PROVE IInv'
    OBVIOUS
  <1>1. /\ More /\ FitsHere /\ at.offset = 0 /\ pc = "pack"
        /\ Add(EntryHeader(Here), 0, Here.size, TRUE)
        /\ Advance /\ UNCHANGED <<manifest, cursor, sealed, pc, target>>
    BY DEF WholeFile, FitsHere, More
  <1>h. /\ Here \in Entry /\ Here.size \in Nat /\ Here.name \in Nat
        /\ target \in Nat
        /\ at.entry \in 1 .. Len(manifest)
    BY <1>1, HereIsEntry DEF IInv
  <1>2. Blocks(EntryHeader(Here))
    BY <1>h, EntryHeaderFits
  <1>3. at' = AfterPart(Here.size)
    BY <1>1 DEF Advance, AfterPart
  <1>4. ASSUME ShortNames
        PROVE  Marked.written + Marked.pad + EntryHeader(Here)
                 + round512(Here.size - 0) + 1024 <= target
    <2>1. Here.name <= 2300 /\ Here.link <= 2300
      BY <1>h, <1>4 DEF ShortNames, Here
    <2> DEFINE r == round512(2 * Here.name + 512)
               s == round512(Here.size)
               h == EntryHeader(Here)
    <2>2. h \in Nat /\ h <= 3072 + r
      BY <1>h, <1>2, <2>1, EntryHeaderFits DEF Blocks
    <2>3. r \in Nat /\ s \in Nat
      <3>1. r \in Nat
        BY <1>h, NameBytes
      <3>2. s \in Nat
        BY ONLY <1>h, Round DEF Blocks
      <3> QED BY <3>1, <3>2
    <2>4. 4096 + r + s <= target - written - 1024
      BY <1>1 DEF FitsHere, Available, tarEntryBudget, endBlockBudget, headerBudget
    <2>5. Here.size - 0 = Here.size
      BY <1>h
    <2> HIDE DEF r, s, h
    <2>6. CASE items = <<>>
      <3>1. Marked.written + Marked.pad = 1024
        BY <1>1, <2>6, MarkedIs DEF IInv
      <3>2. written = 0
        BY <1>1, <2>6 DEF IInv, Sized
      <3> QED BY <1>h, <2>2, <2>3, <2>4, <2>5, <3>1, <3>2 DEF h, s
    <2>7. CASE items # <<>>
      <3>1. Marked.written = written /\ Marked.pad = pad
            /\ written \in Nat /\ pad \in 0 .. 511
        BY <1>1, <2>7, MarkedIs DEF IInv
      <3>2. written + pad + h + s + 1024 <= target
        BY <1>h, <2>2, <2>3, <2>4, <3>1
      <3> QED BY <2>5, <3>1, <3>2 DEF h, s
    <2> QED BY <2>6, <2>7
  <1>5. /\ Add(EntryHeader(Here), at.offset, Here.size, TRUE)
        /\ Here.size - at.offset = Here.size - 0
        /\ Here.size <= Here.size /\ pc' \in {"pack", "close"}
    BY <1>1, <1>h DEF Add
  <1>6. ShortNames => Marked.written + Marked.pad + EntryHeader(Here)
                        + round512(Here.size - at.offset) + 1024 <= target
    BY <1>4, <1>5
  <1>7. IF TRUE THEN at.offset = 0 /\ Here.size = Here.size
                ELSE at.offset < Here.size
    BY <1>1
  <1> QED BY <1>1, <1>h, <1>2, <1>3, <1>5, <1>6, <1>7, AddStep, ZenonT(60)

LEMMA MetadataEntryKeeps == IInv /\ MetadataEntry => IInv'
  <1> SUFFICES ASSUME IInv, MetadataEntry PROVE IInv'
    OBVIOUS
  <1>1. /\ More /\ Here.kind # "file" /\ MetadataFits /\ pc = "pack"
        /\ Add(EntryHeader(Here), 0, 0, TRUE)
        /\ Advance /\ UNCHANGED <<manifest, cursor, sealed, pc, target>>
    BY DEF MetadataEntry, More
  <1>h. /\ Here \in Entry /\ Here.size \in Nat /\ Here.name \in Nat
        /\ target \in Nat /\ target >= 65536 /\ at.offset \in Nat
        /\ at.offset > 0 => at.offset < Here.size
        /\ at.entry \in 1 .. Len(manifest)
    BY <1>1, HereIsEntry DEF IInv
  <1>2. Here.size = 0 /\ at.offset = 0
    <2>1. Here.size = 0
      BY <1>1, <1>h DEF Entry
    <2> QED BY <1>h, <2>1
  <1>3. at' = AfterPart(0)
    BY <1>1, <1>2 DEF Advance, AfterPart
  <1>4. Blocks(EntryHeader(Here))
    BY <1>h, EntryHeaderFits
  <1>5. ASSUME ShortNames
        PROVE  Marked.written + Marked.pad + EntryHeader(Here)
                 + round512(0 - 0) + 1024 <= target
    <2>1. Here.name <= 2300 /\ Here.link <= 2300
      BY <1>h, <1>5 DEF ShortNames, Here
    <2> DEFINE r == round512(2 * Here.name + 512)
               h == EntryHeader(Here)
    <2>2. h \in Nat /\ h <= 3072 + r /\ h <= 8192
      BY <1>h, <1>4, <2>1, EntryHeaderFits DEF Blocks
    <2>3. r \in Nat
      BY <1>h, NameBytes
    <2>4. round512(0) = 0 /\ 0 - 0 = 0
      BY DEF round512
    <2>5. CASE items = <<>>
      <3>1. Marked.written + Marked.pad = 1024
        BY <1>1, <2>5, MarkedIs DEF IInv
      <3> HIDE DEF h
      <3>2. 1024 + h + 0 + 1024 <= target
        BY <1>h, <2>2
      <3> QED BY <2>4, <3>1, <3>2 DEF h
    <2>6. CASE items # <<>>
      <3>1. Marked.written = written /\ Marked.pad = pad
            /\ written \in Nat /\ pad \in 0 .. 511
        BY <1>1, <2>6, MarkedIs DEF IInv
      <3>2. 4096 + r + 0 <= target - written - 1024
        BY <1>1, <2>4, <2>6
           DEF MetadataFits, Available, tarEntryBudget, endBlockBudget, headerBudget
      <3> HIDE DEF r, h
      <3>3. written + pad + h + 0 + 1024 <= target
        BY <1>h, <2>2, <2>3, <3>1, <3>2
      <3> QED BY <2>4, <3>1, <3>3 DEF h
    <2> QED BY <2>5, <2>6
  <1>6. /\ Add(EntryHeader(Here), at.offset, 0, TRUE)
        /\ 0 - at.offset = 0 - 0 /\ 0 \in Nat
        /\ 0 <= Here.size /\ pc' \in {"pack", "close"}
    BY <1>1, <1>2 DEF Add
  <1>7. ShortNames => Marked.written + Marked.pad + EntryHeader(Here)
                        + round512(0 - at.offset) + 1024 <= target
    BY <1>5, <1>6
  <1>8. IF TRUE THEN at.offset = 0 /\ 0 = Here.size ELSE at.offset < 0
    BY <1>2
  <1> QED BY <1>1, <1>3, <1>4, <1>6, <1>7, <1>8, AddStep

\* A part is not empty and ends inside the file.
LEMMA PartIsCut ==
  ASSUME TypeInv, Sized, Fragment
  PROVE  /\ PartSize \in Nat /\ PartSize <= Room
         /\ at.offset + PartSize \in Nat
         /\ at.offset + PartSize <= Here.size
         /\ at.offset < at.offset + PartSize
         /\ at.offset + PartSize - at.offset = PartSize
  <1>1. More /\ pc = "pack"
    BY DEF Fragment, More
  <1>2. Here.size \in Nat /\ at.offset \in Nat /\ target \in Nat
    BY <1>1, HereIsEntry
  <1>3. Marked.written \in Nat
    BY <1>1, MarkedIs
  <1>4. Room \in Int /\ Room >= 512 /\ PartSize > 0
    BY <1>2, <1>3 DEF Fragment, Room, endBlockBudget, headerBudget
  <1>5. PartSize = IF Here.size - at.offset <= Room
                     THEN Here.size - at.offset ELSE Room - (Room % 512)
    BY DEF PartSize
  <1>6. Room % 512 \in 0 .. 511
    BY <1>4
  <1>7. /\ PartSize \in Nat /\ PartSize <= Room
        /\ PartSize <= Here.size - at.offset
    BY <1>2, <1>4, <1>5, <1>6
  <1> QED BY <1>2, <1>4, <1>7

\* A part that fits in Room, which counts on padding the marker or the item
\* before it may owe: what makes up for that is that the target is whole blocks.
LEMMA FragmentKeeps == IInv /\ Fragment => IInv'
  <1> SUFFICES ASSUME IInv, Fragment PROVE IInv'
    OBVIOUS
  <1> DEFINE to == at.offset + PartSize
  <1>1. /\ More /\ pc = "pack" /\ Room >= 512 /\ PartSize > 0
        /\ Add(FragmentHeader(Here), at.offset, to, FALSE)
        /\ at' = AfterPart(to) /\ pc' = "close"
        /\ UNCHANGED <<manifest, cursor, sealed, target>>
    BY DEF Fragment, More
  <1>h. /\ Here \in Entry /\ Here.size \in Nat /\ Here.name \in Nat
        /\ target \in Nat /\ Blocks(target) /\ at.offset \in Nat
        /\ at.entry \in 1 .. Len(manifest)
    BY <1>1, HereIsEntry DEF IInv
  <1>m. /\ Marked.written \in Nat /\ Marked.pad \in 0 .. 511
        /\ Blocks(Marked.written + Marked.pad)
    BY <1>1, MarkedIs DEF IInv
  <1>2. Room = target - Marked.written - 5120 /\ Room \in Int
    BY <1>h, <1>m DEF Room, endBlockBudget, headerBudget
  <1>3. /\ PartSize \in Nat /\ PartSize <= Room
        /\ to \in Nat /\ to <= Here.size /\ at.offset < to
        /\ to - at.offset = PartSize
    <2>1. /\ PartSize \in Nat /\ PartSize <= Room
          /\ to \in Nat /\ to <= Here.size /\ at.offset < to
      BY PartIsCut DEF IInv
    <2> QED BY <1>h, <2>1
  <1>4. Blocks(FragmentHeader(Here))
    BY <1>h, FragmentHeaderFits
  <1>5. ASSUME ShortNames
        PROVE  Marked.written + Marked.pad + FragmentHeader(Here)
                 + round512(to - at.offset) + 1024 <= target
    <2>1. Here.name <= 2300
      BY <1>h, <1>5 DEF ShortNames, Here
    <2> DEFINE w == Marked.written + Marked.pad
               h == FragmentHeader(Here)
               s == round512(PartSize)
               p == PartSize
               left == target - w - 5120
    <2>2. h \in Nat /\ h <= 3584
      BY <1>h, <1>4, <2>1, FragmentHeaderFits DEF Blocks
    <2>3. w \in Nat /\ Blocks(w) /\ Blocks(target)
      BY <1>h, <1>m DEF Blocks
    <2>4. p \in Nat /\ p <= left + 511 /\ left + 511 >= 512
      <3> DEFINE mw == Marked.written
                 mp == Marked.pad
                 room == Room
      <3>1. /\ mw \in Nat /\ mp \in 0 .. 511 /\ target \in Nat
            /\ w = mw + mp /\ left = target - w - 5120
            /\ room = target - mw - 5120
            /\ p \in Nat /\ p <= room /\ room >= 512
        BY <1>h, <1>m, <1>1, <1>2, <1>3
      <3> HIDE DEF mw, mp, room, w, left, p
      <3> QED BY <3>1
    <2>5. Blocks(left)
      <3> HIDE DEF w, p
      <3> QED BY <2>3, <2>4 DEF Blocks
    <2>6. s <= left + 512
      <3> HIDE DEF left
      <3> QED BY <2>4, <2>5, RoundTop
    <2>7. s \in Nat
      BY ONLY <1>3, Round DEF Blocks
    <2>8. w + h + s + 1024 <= target
      <3> HIDE DEF w, h, s, p
      <3> QED BY <1>h, <2>2, <2>3, <2>6, <2>7
    <2> QED BY <1>3, <2>8
  <1> HIDE DEF to
  <1> QED BY <1>1, <1>3, <1>4, <1>5, AddStep

-----------------------------------------------------------------------------
(* The other steps.                                                         *)

LEMMA SealKeeps == IInv /\ Seal => IInv'
  <1> SUFFICES ASSUME IInv, Seal PROVE IInv'
    OBVIOUS
  <1> DEFINE v == [items |-> items, size |-> Total, after |-> at]
             Volumes == [items : Seq(Items), size : Nat, after : Cursors]
  <1>1. /\ pc = "close" /\ sealed' = Append(sealed, v) /\ cursor' = at
        /\ pc' \in {"packed", "idle"}
        /\ UNCHANGED <<manifest, target, at, items, written, pad>>
    BY DEF Seal
  <1>2. TypeOK /\ VolumesLeadToCursor /\ Lead(items, cursor, at) /\ items # <<>>
    BY <1>1 DEF IInv, TypeInv, Led, Open
  <1>3. v \in Volumes /\ sealed \in Seq(Volumes)
    BY <1>2 DEF TypeOK, Total
  <1>4. /\ Len(sealed) \in Nat /\ Len(sealed') = Len(sealed) + 1
        /\ \A k \in 1 .. Len(sealed) : sealed'[k] = sealed[k]
        /\ sealed'[Len(sealed) + 1] = v /\ sealed' # <<>>
        /\ sealed' \in Seq(Volumes)
    <2> HIDE DEF v, Volumes
    <2> QED BY <1>1, <1>3
  <1>5. TypeInv'
    <2>1. cursor' \in Cursors /\ at' \in Cursors
      BY <1>1, <1>2 DEF TypeOK
    <2> QED BY <1>1, <1>2, <1>4, <2>1 DEF IInv, TypeInv, TypeOK, Open
  <1>6. cursor = IF Len(sealed) = 0 THEN Origin ELSE sealed[Len(sealed)].after
    BY <1>2, <1>4 DEF VolumesLeadToCursor
  <1>7. v.items = items /\ v.after = at
    OBVIOUS
  <1> HIDE DEF v
  <1>8. ASSUME NEW k \in 1 .. Len(sealed')
        PROVE  /\ sealed'[k].items # <<>>
               /\ Lead(sealed'[k].items,
                       IF k = 1 THEN Origin ELSE sealed'[k - 1].after,
                       sealed'[k].after)
    <2>1. CASE k \in 1 .. Len(sealed)
      <3>1. sealed'[k] = sealed[k] /\ (k # 1 => sealed'[k - 1] = sealed[k - 1])
        <4> HIDE DEF Volumes
        <4>1. k # 1 => k - 1 \in 1 .. Len(sealed)
          BY <1>4, <2>1
        <4> QED BY <1>4, <2>1, <4>1
      <3>2. /\ sealed[k].items # <<>>
            /\ Lead(sealed[k].items,
                    IF k = 1 THEN Origin ELSE sealed[k - 1].after,
                    sealed[k].after)
        BY <1>2, <2>1 DEF VolumesLeadToCursor
      <3>3. CASE k = 1
        BY <3>1, <3>2, <3>3
      <3>4. CASE k # 1
        BY <3>1, <3>2, <3>4
      <3> QED BY <3>3, <3>4
    <2>2. CASE k = Len(sealed) + 1
      <3>1. sealed'[k].items = items /\ sealed'[k].after = at
        BY <1>4, <1>7, <2>2
      <3>2. cursor = IF k = 1 THEN Origin ELSE sealed'[k - 1].after
        BY <1>4, <1>6, <2>2
      <3> QED BY <1>2, <3>1, <3>2
    <2> QED BY <1>4, <2>1, <2>2
  <1>9. VolumesLeadToCursor'
    <2>1. cursor' = sealed'[Len(sealed')].after
      BY <1>1, <1>4, <1>7
    <2>2. ASSUME NEW k \in 1 .. Len(sealed')
          PROVE  Lead(sealed[k].items,
                      IF k = 1 THEN Origin ELSE sealed[k - 1].after,
                      sealed[k].after)'
      <3> DEFINE c == IF k = 1 THEN Origin ELSE sealed'[k - 1].after
                 d == sealed'[k].after
                 is == sealed'[k].items
      <3>1. Lead(is, c, d) /\ manifest' = manifest
        BY <1>1, <1>8
      <3>2. (IF k = 1 THEN Origin ELSE sealed[k - 1].after)' = c
        BY DEF Origin
      <3> HIDE DEF c, d, is
      <3> QED BY <3>1, <3>2 DEF Lead, After, c, d, is
    <2> QED BY <1>4, <1>8, <2>1, <2>2 DEF VolumesLeadToCursor
  <1> QED BY <1>1, <1>5, <1>9
          DEF IInv, Led, Sized, ShortNamesFit, Open

LEMMA IInvInit == Init => IInv
  <1> SUFFICES ASSUME Init PROVE IInv
    OBVIOUS
  <1>1. manifest \in Seq(Entry) /\ Len(manifest) \in Nat
    BY PackingAssumption DEF Init
  <1>2. Origin \in Cursors /\ Origin.entry = 1 /\ Origin.offset = 0
    BY DEF Origin, Cursors
  <1>3. TypeInv
    BY <1>1, <1>2 DEF Init, TypeInv, TypeOK, Open
  <1> QED BY <1>3
          DEF Init, IInv, VolumesLeadToCursor, Led, Sized, ShortNamesFit, Open

LEMMA IInvStep == IInv /\ [Next]_vars => IInv'
  <1> SUFFICES ASSUME IInv, [Next]_vars PROVE IInv'
    OBVIOUS
  <1>1. CASE WholeFile
    BY <1>1, WholeFileKeeps
  <1>2. CASE MetadataEntry
    BY <1>2, MetadataEntryKeeps
  <1>3. CASE Fragment
    BY <1>3, FragmentKeeps
  <1>4. CASE Seal
    BY <1>4, SealKeeps
  <1>5. CASE Begin
    <2>1. TypeInv'
      BY <1>5 DEF Begin, IInv, TypeInv, TypeOK
    <2>2. VolumesLeadToCursor' /\ Led'
      BY <1>5, VolumesKept DEF Begin, IInv, Led, Lead, After
    <2> QED BY <1>5, <2>1, <2>2 DEF Begin, IInv, Sized, ShortNamesFit
  <1>6. ASSUME /\ pc = "pack"
               /\ \/ pc' = "close" /\ items # <<>>
                  \/ pc' = "packed"
               /\ UNCHANGED <<manifest, cursor, sealed, target, at, items,
                              written, pad>>
        PROVE  IInv'
    <2>1. TypeInv'
      BY <1>6 DEF IInv, TypeInv, TypeOK, Open
    <2>2. VolumesLeadToCursor'
      BY <1>6, VolumesKept DEF IInv
    <2>4. Lead(items, cursor, at)'
      BY <1>6 DEF IInv, Led, Lead, After, Open
    <2>3. (Sized /\ ShortNamesFit)'
      BY <1>6 DEF IInv, Sized, ShortNamesFit, ShortNames, Total
    <2> QED BY <1>6, <2>1, <2>2, <2>3, <2>4 DEF IInv, Led
  <1>7. CASE CloseBeforeFile \/ NoRoom \/ CloseBeforeMetadata \/ CloseAtEnd
    BY <1>6, <1>7 DEF CloseBeforeFile, NoRoom, CloseBeforeMetadata, CloseAtEnd,
                      More, FitsFresh, MetadataFits, Close
  <1>8. CASE EndOfManifest
    BY <1>6, <1>8 DEF EndOfManifest
  <1>9. CASE AboveTarget
    <2>1. TypeInv'
      BY <1>9 DEF AboveTarget, IInv, TypeInv, TypeOK, Open
    <2>2. VolumesLeadToCursor' /\ Led'
      BY <1>9, VolumesKept DEF AboveTarget, IInv, Led, Lead, After, Open
    <2>3. ~ShortNames
      <3>1. pc = "close" /\ items # <<>> /\ Total > target
        BY <1>9 DEF AboveTarget, IInv, Led
      <3>2. Total \in Int /\ target \in Int
        BY <3>1, PackingAssumption DEF Total, IInv, TypeInv, TypeOK, Open
      <3> QED BY <3>1, <3>2 DEF IInv, Sized
    <2> QED BY <1>9, <2>1, <2>2, <2>3
            DEF AboveTarget, IInv, Sized, ShortNamesFit, ShortNames
  <1>10. CASE UNCHANGED vars
    <2>1. (TypeInv /\ Sized /\ ShortNamesFit)'
      BY <1>10 DEF vars, IInv, TypeInv, TypeOK, Sized, ShortNamesFit,
                   ShortNames, Total
    <2>2. VolumesLeadToCursor'
      BY <1>10, VolumesKept DEF vars, IInv
    <2>3. Led'
      BY <1>10 DEF vars, IInv, Led, Lead, After
    <2> QED BY <2>1, <2>2, <2>3 DEF IInv
  <1> QED BY <1>1, <1>2, <1>3, <1>4, <1>5, <1>7, <1>8, <1>9, <1>10 DEF Next

LEMMA IInvAlways == Spec => []IInv
  BY IInvInit, IInvStep, PTL DEF Spec

-----------------------------------------------------------------------------
\* Types are kept, and a cursor never points past its entry (state.Cursor).
THEOREM TypeCorrect == Spec => []TypeOK
  <1>1. IInv => TypeOK
    BY DEF IInv, TypeInv
  <1> QED BY <1>1, IInvAlways, PTL

\* For every manifest and every sequence of targets, the sealed volumes hold
\* the manifest up to the cursor exactly once and in order, and each one makes
\* progress (PackNext's entry loop and CursorAfter).
THEOREM VolumesLead == Spec => []VolumesLeadToCursor
  <1>1. IInv => VolumesLeadToCursor
    BY DEF IInv
  <1> QED BY <1>1, IInvAlways, PTL

\* With path and link names of up to 2300 bytes PackNext never ends in its
\* "internal error: volume is above target", whatever the sizes and whatever
\* the targets, if those are whole blocks as resource.Plan's are.
THEOREM ShortNamesAlwaysFit == Spec => []ShortNamesFit
  <1>1. IInv => ShortNamesFit
    BY DEF IInv
  <1> QED BY <1>1, IInvAlways, PTL
=============================================================================
