------------------------- MODULE PackRestoreProofs -------------------------
(***************************************************************************)
(* Proofs about PackRestore, for every manifest, every targets the volumes *)
(* were cut against, every set of lost volumes and any number of restores  *)
(* that are interrupted and run again.                                     *)
(***************************************************************************)
EXTENDS PackRestore, PackingProofs, FiniteSetTheorems

-----------------------------------------------------------------------------
(* What restoring needs to know of the sealed volumes.                      *)

\* Cursor c does not lie after cursor d.
AtOrBefore(c, d) == c.entry < d.entry
                    \/ (c.entry = d.entry /\ c.offset <= d.offset)

Inside(c) == /\ c \in Cursors /\ c.entry <= Len(manifest) + 1
             /\ c.offset > 0 => /\ c.entry <= Len(manifest)
                                /\ c.offset < manifest[c.entry].size

\* Item it is of an entry of the manifest and does not reach past cursor c.
Upto(it, c) == /\ it.id \in 1 .. Len(manifest)
               /\ AtOrBefore(After(it), c)

\* No item of a volume reaches past the end of that volume or of a later one.
InOrder ==
  /\ \A v \in 1 .. Len(sealed) : Inside(sealed[v].after)
  /\ \A v, w \in 1 .. Len(sealed) : v <= w =>
       \A k \in 1 .. Len(sealed[v].items) : Upto(sealed[v].items[k], sealed[w].after)

Ordered ==
  /\ pc \in Open => /\ AtOrBefore(cursor, at)
                    /\ \A k \in 1 .. Len(items) : Upto(items[k], at)
  /\ InOrder
  /\ pc = "packed" => cursor.entry > Len(manifest)

LEMMA BeforeTrans ==
  ASSUME NEW c \in Cursors, NEW d \in Cursors, NEW e \in Cursors,
         AtOrBefore(c, d), AtOrBefore(d, e)
  PROVE  AtOrBefore(c, e)
  BY DEF AtOrBefore, Cursors

LEMMA AfterIsCursor ==
  ASSUME NEW it \in Items PROVE After(it) \in Cursors
  BY DEF After, Items, Cursors

LEMMA InOrderKept ==
  ASSUME InOrder, UNCHANGED <<manifest, sealed>>
  PROVE  InOrder'
  <1>1. ASSUME NEW v \in 1 .. Len(sealed), NEW w \in 1 .. Len(sealed), v <= w,
               NEW k \in 1 .. Len(sealed[v].items)
        PROVE  Upto(sealed[v].items[k], sealed[w].after)'
    <2> DEFINE it == sealed[v].items[k]
               c == sealed[w].after
    <2>1. Upto(it, c)
      BY <1>1 DEF InOrder
    <2>2. it' = it /\ c' = c
      OBVIOUS
    <2> HIDE DEF it, c
    <2>3. Upto(it, c)'
      BY <2>1, <2>2 DEF Upto, After, AtOrBefore
    <2> QED BY <2>3 DEF it, c
  <1>2. (\A v \in 1 .. Len(sealed) : Inside(sealed[v].after))'
    BY DEF InOrder, Inside
  <1>3. (\A v, w \in 1 .. Len(sealed) : v <= w =>
           \A k \in 1 .. Len(sealed[v].items) :
             Upto(sealed[v].items[k], sealed[w].after))'
    BY <1>1
  <1> QED BY <1>2, <1>3 DEF InOrder

\* An item that is added moves the cursor on.
LEMMA AddOrders ==
  ASSUME IInv, Ordered, More, NEW header, NEW to \in Nat, NEW whole \in BOOLEAN,
         to <= Here.size,
         IF whole THEN at.offset = 0 /\ to = Here.size ELSE at.offset < to,
         Add(header, at.offset, to, whole), at' = AfterPart(to),
         pc' \in {"pack", "close"}, UNCHANGED <<manifest, cursor, sealed>>
  PROVE  Ordered'
  <1>h. /\ Here \in Entry /\ Here.size \in Nat
        /\ at.entry \in 1 .. Len(manifest) /\ at.offset \in Nat
        /\ at = [entry |-> at.entry, offset |-> at.offset]
    BY HereIsEntry DEF IInv
  <1>p. pc \in Open /\ pc' \in Open /\ pc' # "packed"
    BY DEF More, Open
  <1> DEFINE it == [id |-> at.entry, from |-> at.offset, to |-> to,
                    whole |-> whole]
  <1>1. items' = Append(items, it) /\ items \in Seq(Items)
    BY DEF Add, IInv, TypeInv, TypeOK
  <1>2. it \in Items
    BY <1>h DEF Items
  <1>3. After(it) = at'
    BY DEF After, AfterPart, Here
  <1>4. cursor \in Cursors /\ at \in Cursors /\ at' \in Cursors
    BY <1>2, <1>3, AfterIsCursor DEF IInv, TypeInv, TypeOK
  <1>5. AtOrBefore(at, at')
    BY <1>h DEF AtOrBefore, AfterPart
  <1>6. it.id \in 1 .. Len(manifest)
    BY <1>h
  <1> HIDE DEF it
  <1>7. ASSUME NEW k \in 1 .. Len(items')
        PROVE  Upto(items'[k], at')
    <2>1. CASE k \in 1 .. Len(items)
      <3>1. items'[k] = items[k] /\ items[k] \in Items
        BY <1>1, <1>2, <2>1
      <3>2. Upto(items[k], at)
        BY <1>p, <2>1 DEF Ordered
      <3> QED BY <1>4, <1>5, <3>1, <3>2, AfterIsCursor, BeforeTrans DEF Upto
    <2>2. CASE k = Len(items) + 1
      <3>1. items'[k] = it
        BY <1>1, <1>2, <2>2
      <3>2. AtOrBefore(at', at')
        BY <1>4 DEF AtOrBefore, Cursors
      <3> QED BY <1>3, <1>6, <3>1, <3>2 DEF Upto
    <2> QED BY <1>1, <1>2, <2>1, <2>2
  <1>8. AtOrBefore(cursor, at')
    BY <1>p, <1>4, <1>5, BeforeTrans DEF Ordered
  <1>9. (pc \in Open => /\ AtOrBefore(cursor, at)
                        /\ \A k \in 1 .. Len(items) : Upto(items[k], at))'
    BY <1>7, <1>8 DEF Upto, AtOrBefore, After
  <1>10. InOrder'
    BY InOrderKept DEF Ordered
  <1> QED BY <1>p, <1>9, <1>10 DEF Ordered

\* Sealing makes the open volume the last one.
LEMMA SealOrders == ASSUME IInv, Ordered, Seal PROVE Ordered'
  <1> DEFINE v == [items |-> items, size |-> Total, after |-> at]
             Volumes == [items : Seq(Items), size : Nat, after : Cursors]
  <1>1. /\ pc = "close" /\ sealed' = Append(sealed, v) /\ cursor' = at
        /\ pc' = IF at.entry > Len(manifest) THEN "packed" ELSE "idle"
        /\ UNCHANGED manifest
    BY DEF Seal
  <1>2. TypeOK /\ VolumesLeadToCursor
    BY DEF IInv, TypeInv
  <1>3. v \in Volumes /\ sealed \in Seq(Volumes)
    BY <1>2 DEF TypeOK, Total
  <1>4. /\ Len(sealed) \in Nat /\ Len(sealed') = Len(sealed) + 1
        /\ \A k \in 1 .. Len(sealed) : sealed'[k] = sealed[k] /\ sealed[k] \in Volumes
        /\ sealed'[Len(sealed) + 1] = v
    <2> HIDE DEF v, Volumes
    <2> QED BY <1>1, <1>3
  <1>5. v.items = items /\ v.after = at
    OBVIOUS
  <1> HIDE DEF v
  <1>6. AtOrBefore(cursor, at) /\ \A k \in 1 .. Len(items) : Upto(items[k], at)
    BY <1>1 DEF Ordered, Open
  <1>7. Inside(at)
    BY <1>2 DEF TypeOK, Inside
  <1>8. ASSUME NEW k \in 1 .. Len(sealed') PROVE Inside(sealed'[k].after)
    BY <1>4, <1>5, <1>7 DEF Ordered, InOrder
  <1>9. ASSUME NEW u \in 1 .. Len(sealed'), NEW w \in 1 .. Len(sealed'), u <= w,
               NEW k \in 1 .. Len(sealed'[u].items)
        PROVE  Upto(sealed'[u].items[k], sealed'[w].after)
    <2>1. CASE w \in 1 .. Len(sealed)
      <3>1. u \in 1 .. Len(sealed)
        BY <1>4, <1>9, <2>1
      <3> QED BY <1>4, <1>9, <2>1, <3>1 DEF Ordered, InOrder
    <2>2. CASE w = Len(sealed) + 1 /\ u = w
      BY <1>4, <1>5, <1>6, <2>2
    <2>3. CASE w = Len(sealed) + 1 /\ u # w
      <3>1. /\ u \in 1 .. Len(sealed) /\ Len(sealed) \in 1 .. Len(sealed)
            /\ sealed # <<>>
        BY <1>3, <1>4, <1>9, <2>3
      <3>2. /\ sealed'[u] = sealed[u] /\ sealed'[w].after = at
            /\ sealed[u] \in Volumes
        BY <1>4, <1>5, <2>3, <3>1
      <3>3. Upto(sealed[u].items[k], cursor)
        <4>1. sealed[Len(sealed)].after = cursor
          BY <1>2, <3>1 DEF VolumesLeadToCursor
        <4>2. k \in 1 .. Len(sealed[u].items) /\ u <= Len(sealed)
          BY <3>1, <3>2, <1>9
        <4>3. Upto(sealed[u].items[k], sealed[Len(sealed)].after)
          BY <3>1, <4>2 DEF Ordered, InOrder
        <4> QED BY <4>1, <4>3
      <3>4. sealed[u].items[k] \in Items
        BY <3>2
      <3>5. cursor \in Cursors /\ at \in Cursors
        BY <1>2 DEF TypeOK
      <3> QED BY <1>6, <3>2, <3>3, <3>4, <3>5, AfterIsCursor, BeforeTrans DEF Upto
    <2> QED BY <1>4, <2>1, <2>2, <2>3
  <1>10. pc' = "packed" => cursor'.entry > Len(manifest)
    BY <1>1
  <1>11. pc' \notin Open
    BY <1>1 DEF Open
  <1> HIDE DEF Volumes
  <1>12. ASSUME NEW u \in 1 .. Len(sealed'), NEW w \in 1 .. Len(sealed'), u <= w,
                NEW k \in 1 .. Len(sealed'[u].items)
         PROVE  Upto(sealed[u].items[k], sealed[w].after)'
    <2>1. PICK it, c : it = sealed'[u].items[k] /\ c = sealed'[w].after
      OBVIOUS
    <2>2. Upto(it, c)
      BY <1>9, <1>12, <2>1
    <2>3. Upto(it, c)'
      BY <1>1, <2>2 DEF Upto, After, AtOrBefore
    <2> QED BY <2>1, <2>3 DEF Upto, After, AtOrBefore
  <1>13. (\A u \in 1 .. Len(sealed) : Inside(sealed[u].after))'
    BY <1>1, <1>8 DEF Inside
  <1>14. InOrder'
    BY <1>12, <1>13 DEF InOrder
  <1> QED BY <1>1, <1>10, <1>11, <1>14 DEF Ordered

LEMMA OrderedKept ==
  ASSUME Ordered, UNCHANGED <<manifest, cursor, sealed, at, items>>,
         pc' \in Open => pc \in Open,
         pc' = "packed" => cursor.entry > Len(manifest)
  PROVE  Ordered'
  <1>1. InOrder'
    BY InOrderKept DEF Ordered
  <1> QED BY <1>1 DEF Ordered, Upto, After, AtOrBefore

LEMMA OrderedStep == IInv /\ Ordered /\ [Next]_vars => Ordered'
  <1> SUFFICES ASSUME IInv, Ordered, [Next]_vars PROVE Ordered'
    OBVIOUS
  <1>1. CASE Begin
    <2>1. cursor \in Cursors
      BY DEF IInv, TypeInv, TypeOK
    <2>2. AtOrBefore(cursor, at)' /\ items' = <<>>
      BY <1>1, <2>1 DEF Begin, AtOrBefore, Cursors
    <2>3. pc' = "pack" /\ UNCHANGED <<manifest, cursor, sealed>>
      BY <1>1 DEF Begin
    <2>4. InOrder'
      BY <2>3, InOrderKept DEF Ordered
    <2> QED BY <2>2, <2>3, <2>4 DEF Ordered
  <1>2. CASE WholeFile
    <2>1. /\ More /\ at.offset = 0
          /\ Add(EntryHeader(Here), at.offset, Here.size, TRUE)
          /\ at' = AfterPart(Here.size) /\ pc' = pc
          /\ UNCHANGED <<manifest, cursor, sealed>>
      BY <1>2 DEF WholeFile, FitsHere, Advance, AfterPart, Add
    <2>2. Here.size \in Nat /\ Here.size <= Here.size /\ pc = "pack"
      BY <2>1, HereIsEntry DEF IInv, More
    <2>3. IF TRUE THEN at.offset = 0 /\ Here.size = Here.size
                  ELSE at.offset < Here.size
      BY <2>1
    <2> QED BY <2>1, <2>2, <2>3, AddOrders
  <1>3. CASE MetadataEntry
    <2>1. More /\ Here.kind # "file" /\ pc' = pc /\ pc = "pack"
          /\ UNCHANGED <<manifest, cursor, sealed>>
      BY <1>3 DEF MetadataEntry, More
    <2>2. Here.size = 0 /\ at.offset = 0
      <3>1. Here.size = 0
        BY <2>1, HereIsEntry DEF IInv, Entry
      <3> QED BY <2>1, <3>1, HereIsEntry DEF IInv
    <2>3. /\ Add(EntryHeader(Here), at.offset, 0, TRUE)
          /\ at' = AfterPart(0)
      BY <1>3, <2>2 DEF MetadataEntry, Add, Advance, AfterPart
    <2>4. /\ 0 \in Nat /\ 0 <= Here.size
          /\ IF TRUE THEN at.offset = 0 /\ 0 = Here.size ELSE at.offset < 0
      BY <2>2
    <2> QED BY <2>1, <2>3, <2>4, AddOrders
  <1>4. CASE Fragment
    <2> DEFINE to == at.offset + PartSize
    <2>1. /\ More /\ pc = "pack" /\ PartSize > 0 /\ Room >= 512
          /\ Add(FragmentHeader(Here), at.offset, to, FALSE)
          /\ at' = AfterPart(to) /\ pc' = "close"
          /\ UNCHANGED <<manifest, cursor, sealed>>
      BY <1>4 DEF Fragment, More
    <2>2. to \in Nat /\ to <= Here.size /\ at.offset < to
      BY <1>4, PartIsCut DEF IInv
    <2> HIDE DEF to
    <2> QED BY <2>1, <2>2, AddOrders
  <1>5. CASE Seal
    BY <1>5, SealOrders
  <1>6. CASE CloseBeforeFile \/ NoRoom \/ CloseBeforeMetadata \/ CloseAtEnd
             \/ AboveTarget
    BY <1>6, OrderedKept
       DEF CloseBeforeFile, NoRoom, CloseBeforeMetadata, CloseAtEnd, More,
           Close, AboveTarget, Open
  <1>7. CASE EndOfManifest
    <2>1. at = cursor
      BY <1>7 DEF EndOfManifest, IInv, Led, Lead, Open
    <2> QED BY <1>7, <2>1, OrderedKept DEF EndOfManifest, Open
  <1>8. CASE UNCHANGED vars
    BY <1>8, OrderedKept DEF vars, Ordered
  <1> QED BY <1>1, <1>2, <1>3, <1>4, <1>5, <1>6, <1>7, <1>8 DEF Next

LEMMA OrderedInit == Init => Ordered
  BY DEF Init, Ordered, InOrder, Open

-----------------------------------------------------------------------------
(* The inductive invariant of restoring.                                    *)

\* Where the bytes of volume v begin.
Start(v) == IF v = 1 THEN Origin ELSE sealed[v - 1].after

\* How far the restore that runs has come.
Reached == IF step = "items" /\ ipos > 1 THEN After(sealed[vpos].items[ipos - 1])
                                         ELSE Start(vpos)

Walking == step \in {"volume", "items"}

RestoreTypes ==
  /\ lost \subseteq 1 .. Len(sealed)
  /\ step \in {"off", "volume", "items", "refused", "restored"}
  /\ vpos \in Nat \ {0} /\ ipos \in Nat \ {0}
  /\ tree \in [1 .. Len(manifest) -> Int]
  /\ active \in [id : Nat, written : Nat]
  /\ stops \in Nat
  /\ step # "off" \/ stops > 0 => pc = "packed"

\* What is in the destination came from a volume that is there.
FromFound == \A e \in 1 .. Len(manifest) :
               tree[e] # Missing =>
                 \E v \in Found : \E k \in 1 .. Len(sealed[v].items) :
                   sealed[v].items[k].id = e

Untouched == stops = 0 /\ step = "off" => \A e \in 1 .. Len(manifest) : tree[e] = Missing

\* The volumes that were opened are the first ones, whichever are lost.
Walk == /\ Walking => 1 .. vpos - 1 \subseteq Found
        /\ step = "items" => /\ vpos \in Found
                             /\ ipos <= Len(sealed[vpos].items) + 1

\* Every entry before cursor c is whole; the one at c is as long as its offset.
Arrived(c) ==
  /\ c \in Cursors
  /\ \A e \in 1 .. Len(manifest) : e < c.entry => Whole(e)
  /\ c.offset > 0 => /\ c.entry \in 1 .. Len(manifest) /\ tree[c.entry] = c.offset
                     /\ active = [id |-> c.entry, written |-> c.offset]
  /\ c.offset = 0 => \/ active.id = 0
                     \/ /\ active.id \in 1 .. Len(manifest) /\ active.id < c.entry
                        /\ active.written = manifest[active.id].size
  /\ stops = 0 => \A e \in 1 .. Len(manifest) :
                    e > c.entry \/ (e = c.entry /\ c.offset = 0) => tree[e] = Missing

RestoreInv == /\ RestoreTypes /\ FromFound /\ Untouched /\ Walk
              /\ Walking => Arrived(Reached)
              /\ RoundTrip /\ NeverRefusesAll /\ WholePrefix

Packed == IInv /\ Ordered

-----------------------------------------------------------------------------
(* Places among the volumes found.                                          *)

LEMMA Naturals1 ==
  ASSUME NEW n \in Nat
  PROVE  IsFiniteSet(1 .. n) /\ Cardinality(1 .. n) = n
  <1>1. 1 \in Int /\ n \in Int
    OBVIOUS
  <1> QED BY <1>1, FS_Interval

LEMMA FoundIs ==
  ASSUME Packed
  PROVE  Len(sealed) \in Nat /\ Found \subseteq 1 .. Len(sealed) /\ IsFiniteSet(Found)
  <1>1. Len(sealed) \in Nat /\ Found \subseteq 1 .. Len(sealed)
    BY DEF Packed, IInv, TypeInv, TypeOK, Found
  <1> QED BY <1>1, Naturals1, FS_Subset

\* A volume before which none is lost is in its place.
LEMMA InPlace ==
  ASSUME Packed, NEW v \in Nat, 1 .. v \subseteq Found
  PROVE  Place(v) = v
  <1>1. {w \in Found : w <= v} = 1 .. v
    BY FoundIs
  <1> QED BY <1>1, Naturals1 DEF Place

\* No other volume takes the place of one before which none is lost.
LEMMA OnlyInPlace ==
  ASSUME Packed, NEW v \in Nat \ {0}, 1 .. v - 1 \subseteq Found, v \in Found,
         NEW u \in Found, Place(u) = v
  PROVE  u = v
  <1>0. u \in Nat
    BY FoundIs
  <1>1. ASSUME u < v PROVE FALSE
    <2>1. 1 .. u \subseteq Found
      BY <1>0, <1>1
    <2> QED BY <1>0, <1>1, <2>1, InPlace
  <1>2. ASSUME u > v PROVE FALSE
    <2> DEFINE S == {w \in Found : w <= u}
    <2>1. (1 .. v) \union {u} \subseteq S
      BY <1>0, <1>2
    <2>2. IsFiniteSet(S)
      BY FoundIs, FS_Subset
    <2>3. Cardinality((1 .. v) \union {u}) = v + 1
      <3>1. IsFiniteSet(1 .. v) /\ Cardinality(1 .. v) = v /\ u \notin 1 .. v
        BY <1>0, <1>2, Naturals1
      <3> QED BY <3>1, FS_AddElement
    <2>4. v + 1 <= Cardinality(S)
      BY <2>1, <2>2, <2>3, FS_Subset
    <2>5. Cardinality(S) = v
      BY DEF Place
    <2> QED BY <2>4, <2>5
  <1> QED BY <1>0, <1>1, <1>2

\* The volume that is open is the one restore expects.
LEMMA CurrentIs ==
  ASSUME Packed, RestoreTypes, 1 .. vpos - 1 \subseteq Found, vpos \in Found
  PROVE  Current = vpos /\ Place(vpos) = vpos
  <1>1. vpos \in Nat \ {0} /\ 1 .. vpos \subseteq Found
    BY DEF RestoreTypes
  <1>2. Place(vpos) = vpos
    BY <1>1, InPlace
  <1>3. Current \in Found /\ Place(Current) = vpos
    BY <1>2 DEF Current
  <1> QED BY <1>1, <1>2, <1>3, OnlyInPlace

-----------------------------------------------------------------------------
(* Items and cursors.                                                       *)

LEMMA SealedTypes ==
  ASSUME Packed, NEW v \in 1 .. Len(sealed)
  PROVE  sealed[v].items \in Seq(Items) /\ sealed[v].after \in Cursors
  <1> DEFINE Volumes == [items : Seq(Items), size : Nat, after : Cursors]
  <1>1. sealed \in Seq(Volumes)
    BY DEF Packed, IInv, TypeInv, TypeOK
  <1>2. sealed[v] \in Volumes
    <2> HIDE DEF Volumes
    <2> QED BY <1>1
  <1> QED BY <1>2

\* The items of a sealed volume.
LEMMA SealedItem ==
  ASSUME Packed, NEW v \in 1 .. Len(sealed), NEW k \in 1 .. Len(sealed[v].items)
  PROVE  LET it == sealed[v].items[k]
         IN  /\ it \in Items /\ it.id \in 1 .. Len(manifest)
             /\ [entry |-> it.id, offset |-> it.from]
                  = IF k = 1 THEN Start(v) ELSE After(sealed[v].items[k - 1])
             /\ IF it.whole THEN it.from = 0 /\ it.to = manifest[it.id].size
                            ELSE it.from < it.to
             /\ \A w \in 1 .. Len(sealed) : v <= w => AtOrBefore(After(it), sealed[w].after)
  <1> DEFINE is == sealed[v].items
             it == is[k]
  <1>1. is \in Seq(Items)
    BY SealedTypes
  <1>2. Lead(is, Start(v), sealed[v].after)
    BY DEF Packed, IInv, VolumesLeadToCursor, Start
  <1>3. \A w \in 1 .. Len(sealed) : v <= w => Upto(it, sealed[w].after)
    BY DEF Packed, Ordered, InOrder
  <1>4. it \in Items /\ v <= v
    BY <1>1
  <1>5. it.id \in 1 .. Len(manifest)
    BY <1>3, <1>4 DEF Upto
  <1>6. \A w \in 1 .. Len(sealed) : v <= w => AtOrBefore(After(it), sealed[w].after)
    BY <1>3 DEF Upto
  <1> HIDE DEF is
  <1>7. /\ [entry |-> it.id, offset |-> it.from]
             = IF k = 1 THEN Start(v) ELSE After(is[k - 1])
        /\ IF it.whole THEN it.from = 0 /\ it.to = manifest[it.id].size
                       ELSE it.from < it.to
    BY <1>2 DEF Lead, is
  <1> QED BY <1>4, <1>5, <1>6, <1>7 DEF is

\* The last item of a volume ends where the volume does.
LEMMA SealedEnd ==
  ASSUME Packed, NEW v \in 1 .. Len(sealed)
  PROVE  /\ Len(sealed[v].items) \in Nat \ {0}
         /\ After(sealed[v].items[Len(sealed[v].items)]) = sealed[v].after
         /\ Start(v + 1) = sealed[v].after
  <1> DEFINE is == sealed[v].items
  <1>1. is \in Seq(Items) /\ v + 1 # 1 /\ (v + 1) - 1 = v
    BY SealedTypes
  <1>2. Lead(is, Start(v), sealed[v].after) /\ is # <<>>
    BY DEF Packed, IInv, VolumesLeadToCursor, Start
  <1>3. Start(v + 1) = sealed[v].after
    BY <1>1 DEF Start
  <1> HIDE DEF is
  <1>4. sealed[v].after = After(is[Len(is)])
    BY <1>2 DEF Lead
  <1> QED BY <1>1, <1>2, <1>3, <1>4 DEF is

LEMMA StartInside ==
  ASSUME Packed, NEW v \in 1 .. Len(sealed) + 1
  PROVE  Inside(Start(v))
  <1>1. CASE v = 1
    <2>1. manifest \in Seq(Entry)
      BY PackingAssumption DEF Packed, IInv, TypeInv, TypeOK
    <2> QED BY <1>1, <2>1 DEF Start, Origin, Inside, Cursors
  <1>2. CASE v # 1
    <2>1. v - 1 \in 1 .. Len(sealed)
      BY <1>2, FoundIs
    <2> QED BY <1>2, <2>1 DEF Start, Packed, Ordered, InOrder
  <1> QED BY <1>1, <1>2

\* The item restore is at is where it has come.
LEMMA ItIs ==
  ASSUME Packed, RestoreTypes, Walk, AtItem
  PROVE  /\ vpos \in 1 .. Len(sealed) /\ vpos \in Found
         /\ ipos \in 1 .. Len(sealed[vpos].items)
         /\ Current = vpos /\ It = sealed[vpos].items[ipos]
         /\ It \in Items /\ It.id \in 1 .. Len(manifest)
         /\ Reached = [entry |-> It.id, offset |-> It.from]
         /\ IF It.whole THEN It.from = 0 /\ It.to = manifest[It.id].size
                        ELSE It.from < It.to
  <1>1. /\ vpos \in Found /\ 1 .. vpos - 1 \subseteq Found /\ step = "items"
    BY DEF Walk, AtItem, Walking
  <1>2. Current = vpos
    BY <1>1, CurrentIs
  <1>3. vpos \in 1 .. Len(sealed)
    BY <1>1, FoundIs
  <1>4. ipos \in 1 .. Len(sealed[vpos].items) /\ It = sealed[vpos].items[ipos]
    BY <1>2, <1>3, SealedTypes DEF RestoreTypes, AtItem, It
  <1>5. Reached = IF ipos = 1 THEN Start(vpos) ELSE After(sealed[vpos].items[ipos - 1])
    BY <1>1, <1>4 DEF Reached
  <1> QED BY <1>1, <1>2, <1>3, <1>4, <1>5, SealedItem

-----------------------------------------------------------------------------
(* Steps that leave Packing alone, and the invariants of Packing.           *)

LEMMA PackedStep == Packed /\ [Next]_vars => Packed'
  BY IInvStep, OrderedStep DEF Packed

LEMMA PackedKept == Packed /\ UNCHANGED vars => Packed'
  BY PackedStep

\* A restore that goes on, or stops, has no result yet.
LEMMA NoResult ==
  step' \in {"off", "volume", "items"} =>
    RoundTrip' /\ NeverRefusesAll' /\ WholePrefix'
  BY DEF RoundTrip, NeverRefusesAll, WholePrefix

LEMMA ArrivedKept ==
  ASSUME NEW c, Arrived(c), UNCHANGED <<manifest, tree, active, stops>>
  PROVE  Arrived(c)'
  BY DEF Arrived, Whole

LEMMA FromFoundKept ==
  ASSUME FromFound, UNCHANGED <<manifest, sealed, lost, tree>>
  PROVE  FromFound'
  BY DEF FromFound, Found, Missing

\* What may refuse a restore does not depend on how far it has come.
LEMMA MayRefuseKept ==
  ASSUME MayRefuse, UNCHANGED <<manifest, sealed, stops, force>>
  PROVE  MayRefuse'
  BY DEF MayRefuse, Cut

\* Only what the file system holds or forbids is refused, and no fragment comes
\* out of order.
LEMMA NothingRefused ==
  ASSUME Packed, RestoreInv, AtItem
  PROVE  /\ Refused(It) => MayRefuse
         /\ ~It.whole => ~EndedEarly(It) /\ It.from = Progress(It).written
  <1>1. /\ RestoreTypes /\ Walk /\ Walking /\ Arrived(Reached)
    BY DEF RestoreInv, AtItem, Walking
  <1>2. /\ It \in Items /\ It.id \in 1 .. Len(manifest)
        /\ Reached = [entry |-> It.id, offset |-> It.from]
        /\ vpos \in 1 .. Len(sealed) /\ ipos \in 1 .. Len(sealed[vpos].items)
        /\ It = sealed[vpos].items[ipos]
    BY <1>1, ItIs
  <1>3. Reached.entry = It.id /\ Reached.offset = It.from /\ It.from \in Nat
        /\ It.id \in Nat \ {0}
    BY <1>2 DEF Items
  <1>4. Refused(It) => MayRefuse
    <2>1. stops = 0 /\ It.from = 0 => tree[It.id] = Missing
      BY <1>1, <1>2, <1>3 DEF Arrived
    <2>2. stops \in Nat
      BY <1>1 DEF RestoreTypes
    <2>3. ASSUME Taken(It) PROVE stops > 0 /\ ~force
      BY <2>1, <2>2, <2>3 DEF Taken
    <2>4. ASSUME manifest[It.id].access # "enclosed", Denied(It)
          PROVE  /\ manifest[It.id].kind = "file"
                 /\ manifest[It.id].access = "readonly"
                 /\ Cut(It.id) \/ stops > 0
      <3>1. It.from > 0 => Cut(It.id)
        BY <1>2 DEF Cut
      <3> QED BY <1>3, <2>1, <2>2, <2>4, <3>1 DEF Denied
    <2> QED BY <1>2, <2>3, <2>4 DEF Refused, MayRefuse
  <1>5. CASE It.from > 0
    <2>1. active = [id |-> It.id, written |-> It.from]
      BY <1>1, <1>3, <1>5 DEF Arrived
    <2> QED BY <1>4, <2>1 DEF EndedEarly, Progress
  <1>6. CASE It.from = 0
    <2>1. \/ active.id = 0
          \/ /\ active.id < It.id
             /\ active.written = manifest[active.id].size
      BY <1>1, <1>3, <1>6 DEF Arrived
    <2>2. active.id # It.id
      BY <1>3, <2>1
    <2>3. Progress(It) = [id |-> It.id, written |-> 0]
      BY <2>2 DEF Progress
    <2> QED BY <1>4, <1>6, <2>1, <2>3 DEF EndedEarly
  <1> QED BY <1>3, <1>5, <1>6

-----------------------------------------------------------------------------
(* Restoring one item.                                                      *)

\* After the bytes of an item are in the destination, restore has come to where
\* the item ends.
LEMMA Arrives ==
  ASSUME Packed, RestoreInv, AtItem, NEW d, d = After(It),
         UNCHANGED <<manifest, stops>>,
         tree' = [tree EXCEPT ![It.id] = It.to],
         active' = IF It.whole THEN active ELSE [id |-> It.id, written |-> It.to]
  PROVE  Arrived(d)'
  <1>1. /\ RestoreTypes /\ Walk /\ Walking /\ Arrived(Reached)
    BY DEF RestoreInv, AtItem, Walking
  <1>2. /\ It \in Items /\ It.id \in 1 .. Len(manifest)
        /\ Reached = [entry |-> It.id, offset |-> It.from]
        /\ IF It.whole THEN It.from = 0 /\ It.to = manifest[It.id].size
                       ELSE It.from < It.to
    BY <1>1, ItIs
  <1>3. PICK i, f, t : i = It.id /\ f = It.from /\ t = It.to
    OBVIOUS
  <1>4. /\ i \in 1 .. Len(manifest) /\ i \in Nat \ {0} /\ f \in Nat /\ t \in Nat
    BY <1>2, <1>3 DEF Items
  <1>5. /\ \A e \in 1 .. Len(manifest) : e < i => tree[e] = manifest[e].size
        /\ f = 0 => \/ active.id = 0
                    \/ /\ active.id \in 1 .. Len(manifest) /\ active.id < i
                       /\ active.written = manifest[active.id].size
        /\ stops = 0 => \A e \in 1 .. Len(manifest) : e > i => tree[e] = Missing
    BY <1>1, <1>2, <1>3 DEF Arrived, Whole
  <1>6. /\ tree' \in [1 .. Len(manifest) -> Int] /\ tree'[i] = t
        /\ \A e \in 1 .. Len(manifest) : e # i => tree'[e] = tree[e]
    BY <1>1, <1>3, <1>4 DEF RestoreTypes
  <1>7. d \in Cursors
    BY <1>2, AfterIsCursor
  <1>8. CASE t = manifest[i].size
    <2>1. d = [entry |-> i + 1, offset |-> 0] /\ d.entry = i + 1 /\ d.offset = 0
      BY <1>3, <1>8 DEF After
    <2>2. \A e \in 1 .. Len(manifest) : e < i + 1 => tree'[e] = manifest[e].size
      BY <1>4, <1>5, <1>6, <1>8
    <2>3. \/ active'.id = 0
          \/ /\ active'.id \in 1 .. Len(manifest) /\ active'.id < i + 1
             /\ active'.written = manifest[active'.id].size
      <3>1. CASE It.whole
        <4>1. active' = active /\ f = 0
          BY <1>2, <1>3, <3>1
        <4> QED BY <1>1, <1>4, <1>5, <4>1 DEF RestoreTypes
      <3>2. CASE ~It.whole
        <4>1. active' = [id |-> i, written |-> t]
          BY <1>3, <3>2
        <4> QED BY <1>4, <1>8, <4>1
      <3> QED BY <3>1, <3>2
    <2>4. stops = 0 => \A e \in 1 .. Len(manifest) : e >= i + 1 => tree'[e] = Missing
      BY <1>4, <1>5, <1>6
    <2> QED BY <1>7, <2>1, <2>2, <2>3, <2>4, <1>4 DEF Arrived, Whole, Missing
  <1>9. CASE t # manifest[i].size
    <2>1. ~It.whole /\ f < t
      BY <1>2, <1>3, <1>9
    <2>2. d = [entry |-> i, offset |-> t] /\ d.entry = i /\ d.offset = t /\ t > 0
      BY <1>3, <1>4, <1>9, <2>1 DEF After
    <2>3. active' = [id |-> i, written |-> t]
      BY <1>3, <2>1
    <2>4. \A e \in 1 .. Len(manifest) : e < i => tree'[e] = manifest[e].size
      BY <1>4, <1>5, <1>6
    <2>5. stops = 0 => \A e \in 1 .. Len(manifest) : e > i => tree'[e] = Missing
      BY <1>4, <1>5, <1>6
    <2> QED BY <1>4, <1>6, <1>7, <2>2, <2>3, <2>4, <2>5 DEF Arrived, Whole, Missing
  <1> QED BY <1>8, <1>9

\* What is restored was in a volume that is there.
LEMMA FromItem ==
  ASSUME Packed, RestoreInv, AtItem, NEW x \in Int,
         UNCHANGED <<manifest, sealed, lost>>,
         tree' = [tree EXCEPT ![It.id] = x]
  PROVE  FromFound' /\ tree' \in [1 .. Len(manifest) -> Int]
  <1>1. /\ RestoreTypes /\ Walk /\ FromFound
    BY DEF RestoreInv
  <1>2. /\ vpos \in Found /\ ipos \in 1 .. Len(sealed[vpos].items)
        /\ It = sealed[vpos].items[ipos] /\ It.id \in 1 .. Len(manifest)
    BY <1>1, ItIs
  <1>3. /\ tree' \in [1 .. Len(manifest) -> Int]
        /\ \A e \in 1 .. Len(manifest) : e # It.id => tree'[e] = tree[e]
    BY <1>1, <1>2 DEF RestoreTypes
  <1>4. ASSUME NEW e \in 1 .. Len(manifest), tree'[e] # Missing
        PROVE  \E v \in Found : \E k \in 1 .. Len(sealed[v].items) :
                 sealed[v].items[k].id = e
    <2>1. CASE e = It.id
      BY <1>2, <2>1
    <2>2. CASE e # It.id
      BY <1>1, <1>3, <1>4, <2>2 DEF FromFound
    <2> QED BY <2>1, <2>2
  <1> QED BY <1>3, <1>4 DEF FromFound, Found, Missing

LEMMA ItemStep ==
  ASSUME Packed, RestoreInv, AtItem, UNCHANGED vars,
         UNCHANGED <<lost, step, force, vpos, stops>>, ipos' = ipos + 1,
         tree' = [tree EXCEPT ![It.id] = It.to],
         active' = IF It.whole THEN active ELSE [id |-> It.id, written |-> It.to]
  PROVE  RestoreInv'
  <1>1. /\ RestoreTypes /\ Walk /\ step = "items" /\ step' = "items"
        /\ UNCHANGED <<manifest, sealed, pc>>
    BY DEF RestoreInv, AtItem, vars
  <1>2. /\ vpos \in 1 .. Len(sealed) /\ vpos \in Found
        /\ ipos \in 1 .. Len(sealed[vpos].items)
        /\ It = sealed[vpos].items[ipos]
        /\ It \in Items /\ It.id \in 1 .. Len(manifest)
    BY <1>1, ItIs
  <1>3. It.to \in Nat /\ It.id \in Nat /\ ipos \in Nat /\ vpos \in Nat
    BY <1>1, <1>2 DEF Items, RestoreTypes
  <1>4. PICK d : d = After(It)
    OBVIOUS
  <1>5. Reached' = d
    <2>1. ipos' > 1 /\ ipos' - 1 = ipos
      BY <1>2
    <2> QED BY <1>1, <1>2, <1>4, <2>1 DEF Reached, After
  <1>6. Arrived(d)'
    BY <1>1, <1>4, Arrives
  <1>7. Arrived(Reached)'
    BY <1>5, <1>6 DEF Arrived
  <1>8. FromFound' /\ tree' \in [1 .. Len(manifest) -> Int]
    <2>1. PICK x \in Int : x = It.to
      BY <1>3
    <2>2. tree' = [tree EXCEPT ![It.id] = x] /\ UNCHANGED <<manifest, sealed, lost>>
      BY <1>1, <2>1
    <2> QED BY <2>2, FromItem
  <1>9. RestoreTypes'
    <2>1. active' \in [id : Nat, written : Nat]
      BY <1>1, <1>3 DEF RestoreTypes
    <2> QED BY <1>1, <1>3, <1>8, <2>1 DEF RestoreTypes
  <1>10. Walk'
    <2>1. Len(sealed[vpos].items) \in Nat
      BY <1>2, SealedTypes
    <2>2. ipos + 1 <= Len(sealed[vpos].items) + 1
      BY <1>2, <2>1
    <2>3. 1 .. vpos - 1 \subseteq Found
      BY <1>1 DEF Walk, Walking
    <2> QED BY <1>1, <1>2, <2>2, <2>3 DEF Walk, Walking, Found
  <1>11. Untouched'
    BY <1>1 DEF Untouched
  <1> QED BY <1>1, <1>7, <1>8, <1>9, <1>10, <1>11, NoResult DEF RestoreInv

-----------------------------------------------------------------------------
(* The steps.                                                               *)

LEMMA RefuseKeeps ==
  ASSUME RestoreInv, Walking, Refuse, UNCHANGED vars,
         lost = {} => MayRefuse
  PROVE  RestoreInv'
  <1>1. /\ step' = "refused" /\ UNCHANGED <<manifest, sealed, pc>>
        /\ UNCHANGED <<lost, force, vpos, ipos, tree, active, stops>>
        /\ RestoreTypes /\ FromFound
    BY DEF Refuse, vars, RestoreInv
  <1>2. RestoreTypes'
    BY <1>1 DEF RestoreTypes, Walking
  <1>3. FromFound'
    BY <1>1, FromFoundKept
  <1>4. Untouched' /\ Walk' /\ ~Walking' /\ RoundTrip' /\ WholePrefix'
    BY <1>1 DEF Untouched, Walk, Walking, RoundTrip, WholePrefix
  <1>5. NeverRefusesAll'
    BY <1>1, MayRefuseKept DEF NeverRefusesAll
  <1> QED BY <1>2, <1>3, <1>4, <1>5 DEF RestoreInv

LEMMA StartRestoreKeeps ==
  ASSUME Packed, RestoreInv, StartRestore, UNCHANGED vars
  PROVE  RestoreInv'
  <1>1. /\ pc = "packed" /\ step = "off" /\ step' = "volume"
        /\ vpos' = 1 /\ ipos' = 1 /\ active' = NoFragment
        /\ UNCHANGED <<tree, stops, manifest, sealed, pc>>
    BY DEF StartRestore, vars
  <1>2. RestoreTypes /\ FromFound /\ Untouched
    BY DEF RestoreInv
  <1>l. lost' \subseteq 1 .. Len(sealed) /\ (stops > 0 => lost' = lost)
    <2>1. CASE stops = 0
      BY <2>1 DEF StartRestore
    <2>2. CASE stops # 0
      BY <1>2, <2>2 DEF StartRestore, RestoreTypes
    <2> QED BY <2>1, <2>2
  <1>3. RestoreTypes'
    BY <1>1, <1>2, <1>l DEF RestoreTypes, NoFragment
  <1>4. FromFound'
    <2>1. CASE stops = 0
      BY <1>1, <1>2, <2>1 DEF FromFound, Untouched, Missing
    <2>2. CASE stops > 0
      BY <1>1, <1>2, <1>l, <2>2, FromFoundKept
    <2> QED BY <1>2, <2>1, <2>2 DEF RestoreTypes
  <1>5. Untouched' /\ Walk'
    BY <1>1 DEF Untouched, Walk, Walking
  <1>6. Reached' = Origin
    BY <1>1 DEF Reached, Start, Origin
  <1>7. Arrived(Reached)'
    <2>1. /\ Origin.entry = 1 /\ Origin.offset = 0 /\ Origin \in Cursors
          /\ active'.id = 0
      BY <1>1 DEF Origin, Cursors, NoFragment
    <2>2. stops = 0 => \A e \in 1 .. Len(manifest) : tree[e] = Missing
      BY <1>1, <1>2 DEF Untouched
    <2>3. ~ \E e \in 1 .. Len(manifest) : e < 1
      BY FoundIs DEF Packed
    <2> QED BY <1>1, <1>6, <2>1, <2>2, <2>3 DEF Arrived, Missing
  <1> QED BY <1>1, <1>3, <1>4, <1>5, <1>7, NoResult DEF RestoreInv

LEMMA OpenVolumeKeeps ==
  ASSUME Packed, RestoreInv, OpenVolume, UNCHANGED vars
  PROVE  RestoreInv'
  <1>1. /\ RestoreTypes /\ FromFound /\ Walk /\ Walking /\ Arrived(Reached)
        /\ step = "volume" /\ \E v \in Found : Place(v) = vpos
        /\ UNCHANGED <<manifest, sealed, pc>>
    BY DEF RestoreInv, OpenVolume, Walking, vars
  <1>2. Current \in Found /\ Place(Current) = vpos
    BY <1>1 DEF Current
  <1>3. CASE Current = vpos
    <2>1. /\ step' = "items" /\ ipos' = 1
          /\ UNCHANGED <<lost, force, vpos, tree, active, stops>>
      BY <1>3 DEF OpenVolume
    <2>2. RestoreTypes'
      BY <1>1, <2>1 DEF RestoreTypes
    <2>3. Walk'
      <3>1. vpos \in 1 .. Len(sealed)
        BY <1>2, <1>3, FoundIs
      <3>2. 1 <= Len(sealed[vpos].items) + 1
        BY <3>1, SealedEnd
      <3> QED BY <1>1, <1>2, <1>3, <2>1, <3>2 DEF Walk, Walking, Found
    <2>4. FromFound' /\ Untouched'
      BY <1>1, <2>1, FromFoundKept DEF Untouched
    <2>5. PICK c : c = Reached
      OBVIOUS
    <2>6. Reached' = c
      BY <1>1, <2>1, <2>5 DEF Reached, Start, Origin
    <2>7. Arrived(c)'
      BY <1>1, <2>1, <2>5, ArrivedKept
    <2>8. Arrived(Reached)'
      BY <2>6, <2>7 DEF Arrived
    <2> QED BY <2>1, <2>2, <2>3, <2>4, <2>8, NoResult DEF RestoreInv
  <1>4. CASE Current # vpos
    <2>1. Refuse
      BY <1>4 DEF OpenVolume
    <2>2. lost # {}
      <3>1. ASSUME lost = {} PROVE FALSE
        <4>1. Current \in Nat /\ 1 .. Current \subseteq Found
          BY <1>2, <3>1, FoundIs DEF Found
        <4> QED BY <1>2, <1>4, <4>1, InPlace
      <3> QED BY <3>1
    <2> QED BY <1>1, <2>1, <2>2, RefuseKeeps
  <1> QED BY <1>3, <1>4

LEMMA RestoreEntryKeeps ==
  ASSUME Packed, RestoreInv, RestoreEntry, UNCHANGED vars
  PROVE  RestoreInv'
  <1>1. AtItem /\ It.whole /\ Walking
    BY DEF RestoreEntry, AtItem, Walking
  <1>2. CASE Refused(It)
    <2>1. Refuse
      BY <1>2 DEF RestoreEntry
    <2> QED BY <1>1, <1>2, <2>1, NothingRefused, RefuseKeeps
  <1>3. CASE ~Refused(It)
    <2>1. /\ tree' = [tree EXCEPT ![It.id] = It.to] /\ ipos' = ipos + 1
          /\ UNCHANGED <<lost, step, force, vpos, active, stops>>
      BY <1>3 DEF RestoreEntry
    <2> QED BY <1>1, <2>1, ItemStep
  <1> QED BY <1>2, <1>3

LEMMA RestoreFragmentKeeps ==
  ASSUME Packed, RestoreInv, RestoreFragment, UNCHANGED vars
  PROVE  RestoreInv'
  <1>1. AtItem /\ ~It.whole /\ Walking
    BY DEF RestoreFragment, AtItem, Walking
  <1>2. ~EndedEarly(It) /\ It.from = Progress(It).written
    BY <1>1, NothingRefused
  <1>3. CASE Refused(It)
    <2>1. Refuse
      BY <1>3 DEF RestoreFragment
    <2> QED BY <1>1, <1>3, <2>1, NothingRefused, RefuseKeeps
  <1>4. CASE ~Refused(It)
    <2>1. /\ tree' = [tree EXCEPT ![It.id] = It.to] /\ ipos' = ipos + 1
          /\ active' = [id |-> It.id, written |-> It.to]
          /\ UNCHANGED <<lost, step, force, vpos, stops>>
      BY <1>2, <1>4 DEF RestoreFragment
    <2> QED BY <1>1, <2>1, ItemStep
  <1> QED BY <1>3, <1>4

LEMMA EndVolumeKeeps ==
  ASSUME Packed, RestoreInv, EndVolume, UNCHANGED vars
  PROVE  RestoreInv'
  <1>1. /\ RestoreTypes /\ FromFound /\ Walk /\ Walking /\ Arrived(Reached)
        /\ step = "items" /\ ipos > Len(sealed[Current].items)
        /\ step' = "volume" /\ vpos' = vpos + 1
        /\ UNCHANGED <<lost, force, ipos, tree, active, stops>>
        /\ UNCHANGED <<manifest, sealed, pc>>
    BY DEF RestoreInv, EndVolume, Walking, vars
  <1>2. vpos \in Found /\ 1 .. vpos - 1 \subseteq Found /\ vpos \in 1 .. Len(sealed)
    BY <1>1, FoundIs DEF Walk
  <1>3. Current = vpos
    BY <1>1, <1>2, CurrentIs
  <1>4. /\ Len(sealed[vpos].items) \in Nat \ {0} /\ ipos \in Nat
        /\ ipos = Len(sealed[vpos].items) + 1
    BY <1>1, <1>2, <1>3, SealedEnd DEF Walk, RestoreTypes
  <1>5. PICK c : c = Reached
    OBVIOUS
  <1>6. c = Start(vpos + 1)
    <2>1. ipos > 1 /\ ipos - 1 = Len(sealed[vpos].items)
      BY <1>4
    <2> QED BY <1>1, <1>2, <1>5, <2>1, SealedEnd DEF Reached
  <1>7. Reached' = c
    BY <1>1, <1>6 DEF Reached, Start, Origin
  <1>8. Arrived(c)'
    BY <1>1, <1>5, ArrivedKept
  <1>9. Arrived(Reached)'
    BY <1>7, <1>8 DEF Arrived
  <1>10. RestoreTypes'
    BY <1>1 DEF RestoreTypes
  <1>11. Walk'
    <2>1. 1 .. (vpos + 1) - 1 \subseteq Found
      BY <1>2
    <2> QED BY <1>1, <2>1 DEF Walk, Walking, Found
  <1>12. FromFound' /\ Untouched'
    BY <1>1, FromFoundKept DEF Untouched
  <1> QED BY <1>1, <1>9, <1>10, <1>11, <1>12, NoResult DEF RestoreInv

\* At the end the volumes found are the first ones, and the last of them ends
\* where restore has come.
LEMMA AllOpened ==
  ASSUME Packed, RestoreInv, step = "volume", vpos > Cardinality(Found)
  PROVE  /\ Found = 1 .. vpos - 1 /\ vpos \in 1 .. Len(sealed) + 1
         /\ Reached = Start(vpos)
         /\ Reached = IF vpos = 1 THEN Origin ELSE sealed[vpos - 1].after
  <1>1. vpos \in Nat \ {0} /\ 1 .. vpos - 1 \subseteq Found
    BY DEF RestoreInv, RestoreTypes, Walk, Walking
  <1>2. IsFiniteSet(Found) /\ Cardinality(1 .. vpos - 1) = vpos - 1
    BY <1>1, FoundIs, Naturals1
  <1>3. Cardinality(Found) \in Nat
    BY <1>2, FS_CardinalityType
  <1>4. /\ Cardinality(1 .. vpos - 1) <= Cardinality(Found)
        /\ Cardinality(Found) = Cardinality(1 .. vpos - 1) => Found = 1 .. vpos - 1
    BY <1>1, <1>2, FS_Subset
  <1>5. Found = 1 .. vpos - 1
    BY <1>1, <1>2, <1>3, <1>4
  <1>6. vpos \in 1 .. Len(sealed) + 1
    <2>1. vpos # 1 => vpos - 1 \in Found
      BY <1>1, <1>5
    <2> QED BY <1>1, <2>1, FoundIs
  <1> QED BY <1>5, <1>6 DEF Reached, Start

\* What is in the destination lies before the point restore has come to, or is
\* the file that is cut there.
LEMMA NothingBeyond ==
  ASSUME Packed, RestoreInv, step = "volume", vpos > Cardinality(Found),
         NEW e \in 1 .. Len(manifest), tree[e] # Missing
  PROVE  e < Reached.entry \/ (e = Reached.entry /\ Reached.offset > 0)
  <1>1. PICK v \in Found : \E k \in 1 .. Len(sealed[v].items) :
               sealed[v].items[k].id = e
    BY DEF RestoreInv, FromFound
  <1>2. PICK k \in 1 .. Len(sealed[v].items) : sealed[v].items[k].id = e
    BY <1>1
  <1>3. /\ v \in 1 .. Len(sealed) /\ vpos - 1 \in 1 .. Len(sealed) /\ v <= vpos - 1
        /\ Reached = sealed[vpos - 1].after
    BY <1>1, AllOpened, FoundIs
  <1>4. PICK it : it = sealed[v].items[k]
    OBVIOUS
  <1>5. /\ it \in Items /\ it.id = e
        /\ IF it.whole THEN it.from = 0 /\ it.to = manifest[it.id].size
                       ELSE it.from < it.to
        /\ AtOrBefore(After(it), Reached)
    BY <1>2, <1>3, <1>4, SealedItem
  <1>6. it.from \in Nat /\ it.to \in Nat /\ it.id \in Nat
    BY <1>5 DEF Items
  <1>7. Reached \in Cursors
    BY <1>3, SealedTypes
  <1>8. Reached.entry \in Nat /\ Reached.offset \in Nat
    BY <1>7 DEF Cursors
  <1>9. CASE it.to = manifest[it.id].size
    <2>1. After(it).entry = e + 1
      BY <1>5, <1>9 DEF After
    <2> QED BY <1>5, <1>6, <1>8, <2>1 DEF AtOrBefore
  <1>10. CASE it.to # manifest[it.id].size
    <2>1. After(it).entry = e /\ After(it).offset = it.to /\ it.from < it.to
      BY <1>5, <1>10 DEF After
    <2> QED BY <1>5, <1>6, <1>8, <2>1 DEF AtOrBefore
  <1> QED BY <1>9, <1>10

LEMMA FinishKeeps ==
  ASSUME Packed, RestoreInv, Finish, UNCHANGED vars
  PROVE  RestoreInv'
  <1>1. /\ RestoreTypes /\ FromFound /\ Walking /\ Arrived(Reached)
        /\ step = "volume" /\ vpos > Cardinality(Found)
        /\ UNCHANGED <<manifest, sealed, pc>>
    BY DEF RestoreInv, Finish, Walking, vars
  <1>2. PICK c : c = Reached
    OBVIOUS
  <1>3. /\ Arrived(c) /\ c \in Cursors /\ c.entry \in Nat \ {0} /\ c.offset \in Nat
        /\ c.entry <= Len(manifest) + 1
        /\ c.offset > 0 => /\ c.entry <= Len(manifest)
                           /\ c.offset < manifest[c.entry].size
    <2>1. Inside(c)
      BY <1>1, <1>2, AllOpened, StartInside
    <2> QED BY <1>1, <1>2, <2>1 DEF Inside, Cursors
  <1>4. lost = {} => c.entry > Len(manifest)
    <2>1. SUFFICES ASSUME lost = {} PROVE c = cursor
      BY <1>1 DEF Packed, Ordered, RestoreTypes
    <2>2. Found = 1 .. Len(sealed)
      BY <2>1 DEF Found
    <2>3. vpos = Len(sealed) + 1
      <3>1. Cardinality(Found) = Len(sealed)
        BY <2>2, FoundIs, Naturals1
      <3> QED BY <1>1, <3>1, AllOpened, FoundIs
    <2>4. CASE sealed = <<>>
      <3>1. vpos = 1 /\ cursor = Origin
        BY <2>3, <2>4 DEF Packed, IInv, VolumesLeadToCursor
      <3> QED BY <1>1, <1>2, <3>1, AllOpened
    <2>5. CASE sealed # <<>>
      <3>1. vpos # 1
        BY <2>3, <2>5, FoundIs DEF Packed, IInv, TypeInv, TypeOK
      <3>2. vpos - 1 = Len(sealed) /\ cursor = sealed[Len(sealed)].after
        BY <2>3, <2>5, FoundIs DEF Packed, IInv, VolumesLeadToCursor
      <3> QED BY <1>1, <1>2, <3>1, <3>2, AllOpened
    <2> QED BY <2>4, <2>5
  <1>5. CASE active.id # 0 /\ active.written # manifest[active.id].size
    <2>1. Refuse
      BY <1>5 DEF Finish
    <2>2. c.offset > 0
      BY <1>3, <1>5 DEF Arrived
    <2>3. lost # {}
      BY <1>3, <1>4, <2>2, FoundIs DEF Packed
    <2> QED BY <1>1, <2>1, <2>3, RefuseKeeps
  <1>6. CASE ~(active.id # 0 /\ active.written # manifest[active.id].size)
    <2>1. /\ step' = "restored"
          /\ UNCHANGED <<lost, force, vpos, ipos, tree, active, stops>>
      BY <1>6 DEF Finish
    <2>2. c.offset = 0
      <3>1. SUFFICES ASSUME c.offset > 0 PROVE FALSE
        BY <1>3
      <3>2. active.id = c.entry /\ active.written = c.offset
        BY <1>3, <3>1 DEF Arrived
      <3> QED BY <1>3, <1>6, <3>1, <3>2
    <2>3. \A e \in 1 .. Len(manifest) :
            IF e <= c.entry - 1 THEN Whole(e) ELSE tree[e] = Missing
      <3>1. ASSUME NEW e \in 1 .. Len(manifest), e <= c.entry - 1 PROVE Whole(e)
        BY <1>3, <3>1 DEF Arrived
      <3>2. ASSUME NEW e \in 1 .. Len(manifest), ~(e <= c.entry - 1)
            PROVE  tree[e] = Missing
        BY <1>1, <1>2, <1>3, <2>2, <3>2, NothingBeyond
      <3> QED BY <3>1, <3>2
    <2>4. RestoreTypes'
      BY <1>1, <2>1 DEF RestoreTypes
    <2>5. FromFound' /\ Untouched' /\ Walk' /\ ~Walking' /\ NeverRefusesAll'
      BY <1>1, <2>1, FromFoundKept DEF Untouched, Walk, Walking, NeverRefusesAll
    <2>6. RoundTrip'
      <3>1. lost = {} => \A e \in 1 .. Len(manifest) : Whole(e)
        BY <1>3, <1>4 DEF Arrived
      <3> QED BY <1>1, <2>1, <3>1 DEF RoundTrip, Whole
    <2>7. WholePrefix'
      <3>1. c.entry - 1 \in 0 .. Len(manifest)
        BY <1>3, FoundIs DEF Packed
      <3> QED BY <1>1, <2>1, <2>3, <3>1 DEF WholePrefix, Whole, Missing
    <2> QED BY <2>4, <2>5, <2>6, <2>7 DEF RestoreInv
  <1> QED BY <1>5, <1>6

LEMMA InterruptKeeps ==
  ASSUME Packed, RestoreInv, Interrupt, UNCHANGED vars
  PROVE  RestoreInv'
  <1>1. /\ RestoreTypes /\ FromFound /\ Walking
        /\ step' = "off" /\ stops' = stops + 1
        /\ UNCHANGED <<lost, force, vpos, ipos, active, manifest, sealed, pc>>
    BY DEF RestoreInv, Interrupt, Walking, vars
  <1>2. FromFound' /\ tree' \in [1 .. Len(manifest) -> Int]
    <2>1. CASE UNCHANGED tree
      BY <1>1, <2>1, FromFoundKept DEF RestoreTypes
    <2>2. CASE AtItem /\ \E x \in Int : tree' = [tree EXCEPT ![It.id] = x]
      BY <1>1, <2>2, FromItem
    <2>3. 0 \in Int /\ Missing \in Int
      BY DEF Missing
    <2> QED BY <2>1, <2>2, <2>3 DEF Interrupt
  <1>3. RestoreTypes'
    BY <1>1, <1>2 DEF RestoreTypes, Walking
  <1>4. Untouched' /\ Walk' /\ ~Walking'
    BY <1>1 DEF Untouched, Walk, Walking, RestoreTypes
  <1> QED BY <1>1, <1>2, <1>3, <1>4, NoResult DEF RestoreInv

-----------------------------------------------------------------------------
(* The theorems.                                                            *)

LEMMA RestoreInitInv == RestoreInit => Packed /\ RestoreInv
  <1> SUFFICES ASSUME RestoreInit PROVE Packed /\ RestoreInv
    OBVIOUS
  <1>1. Packed
    BY IInvInit, OrderedInit DEF RestoreInit, Packed
  <1>2. /\ lost = {} /\ step = "off" /\ vpos = 1 /\ ipos = 1 /\ active = NoFragment
        /\ stops = 0 /\ tree = [e \in 1 .. Len(manifest) |-> Missing]
    BY DEF RestoreInit
  <1>3. RestoreTypes
    BY <1>2 DEF RestoreTypes, NoFragment, Missing
  <1>4. FromFound /\ Untouched /\ Walk /\ ~Walking
    BY <1>2 DEF FromFound, Untouched, Walk, Walking
  <1>5. RoundTrip /\ NeverRefusesAll /\ WholePrefix
    BY <1>2 DEF RoundTrip, NeverRefusesAll, WholePrefix
  <1> QED BY <1>1, <1>3, <1>4, <1>5 DEF RestoreInv

\* While volumes are packed there is nothing restored yet; after it they change
\* no more.
LEMMA PackingKeeps ==
  ASSUME Packed, RestoreInv, Next, UNCHANGED rvars
  PROVE  RestoreInv'
  <1>1. /\ RestoreTypes /\ Untouched
        /\ UNCHANGED <<lost, step, force, vpos, ipos, tree, active, stops>>
    BY DEF RestoreInv, rvars
  <1>2. pc # "packed" /\ UNCHANGED manifest
    BY DEF Next, Begin, WholeFile, CloseBeforeFile, Fragment, NoRoom, MetadataEntry,
           CloseBeforeMetadata, CloseAtEnd, EndOfManifest, Seal, AboveTarget, More,
           Close
  <1>3. step = "off" /\ stops = 0
    BY <1>1, <1>2 DEF RestoreTypes
  <1>4. 1 .. Len(sealed) \subseteq 1 .. Len(sealed')
    <2>1. sealed' = sealed \/ Seal
      BY DEF Next, Begin, WholeFile, CloseBeforeFile, Fragment, NoRoom, MetadataEntry,
             CloseBeforeMetadata, CloseAtEnd, EndOfManifest, AboveTarget, Close
    <2>2. CASE Seal
      <3> DEFINE Volumes == [items : Seq(Items), size : Nat, after : Cursors]
      <3>1. sealed \in Seq(Volumes) /\ \E v : sealed' = Append(sealed, v)
        BY <2>2 DEF Seal, Packed, IInv, TypeInv, TypeOK
      <3>2. Len(sealed') = Len(sealed) + 1 /\ Len(sealed) \in Nat
        <4> HIDE DEF Volumes
        <4> QED BY <3>1
      <3> QED BY <3>2
    <2> QED BY <2>1, <2>2
  <1>5. RestoreTypes'
    BY <1>1, <1>2, <1>3, <1>4 DEF RestoreTypes
  <1>6. FromFound' /\ Untouched' /\ Walk' /\ ~Walking'
    BY <1>1, <1>2, <1>3 DEF FromFound, Untouched, Walk, Walking, Missing
  <1> QED BY <1>1, <1>3, <1>5, <1>6, NoResult DEF RestoreInv

LEMMA RestoreStepInv ==
  Packed /\ RestoreInv /\ [RestoreNext]_<<vars, rvars>> => (Packed /\ RestoreInv)'
  <1> SUFFICES ASSUME Packed, RestoreInv, [RestoreNext]_<<vars, rvars>>
               PROVE  Packed' /\ RestoreInv'
    OBVIOUS
  <1>1. [Next]_vars
    BY DEF RestoreNext
  <1>2. Packed'
    BY <1>1, PackedStep
  <1>3. CASE Next /\ UNCHANGED rvars
    BY <1>2, <1>3, PackingKeeps
  <1>4. CASE Restore /\ UNCHANGED vars
    BY <1>2, <1>4, StartRestoreKeeps, OpenVolumeKeeps, RestoreEntryKeeps,
       RestoreFragmentKeeps, EndVolumeKeeps, FinishKeeps, InterruptKeeps DEF Restore
  <1>5. CASE UNCHANGED <<vars, rvars>>
    <2>1. /\ UNCHANGED <<lost, step, force, vpos, ipos, tree, active, stops>>
          /\ UNCHANGED <<manifest, sealed, pc>>
          /\ RestoreTypes /\ FromFound /\ Untouched /\ Walk
          /\ RoundTrip /\ NeverRefusesAll /\ WholePrefix
      BY <1>5 DEF vars, rvars, RestoreInv
    <2>2. RestoreTypes' /\ Untouched' /\ FromFound'
      BY <2>1, FromFoundKept DEF RestoreTypes, Untouched, Missing
    <2>3. Walk' /\ (Walking' => Walking)
      BY <2>1 DEF Walk, Walking, Found
    <2>4. RoundTrip' /\ NeverRefusesAll' /\ WholePrefix'
      BY <2>1, MayRefuseKept DEF RoundTrip, NeverRefusesAll, WholePrefix, Whole, Missing
    <2>5. ASSUME Walking PROVE Arrived(Reached)'
      <3>1. PICK c : c = Reached
        OBVIOUS
      <3>2. Reached' = c
        BY <2>1, <3>1 DEF Reached, Start, Origin, After
      <3>3. Arrived(c)'
        BY <2>1, <2>5, <3>1, ArrivedKept DEF RestoreInv
      <3> QED BY <3>2, <3>3 DEF Arrived
    <2> QED BY <1>2, <2>2, <2>3, <2>4, <2>5 DEF RestoreInv
  <1> QED BY <1>3, <1>4, <1>5 DEF RestoreNext

LEMMA RestoreAlways == RestoreSpec => [](Packed /\ RestoreInv)
  BY RestoreInitInv, RestoreStepInv, PTL DEF RestoreSpec

\* restore.Run that reports success with every volume at hand has restored every
\* entry to its last byte, whatever sizes the volumes were cut to and however
\* often it was interrupted before.
THEOREM RestoresAll == RestoreSpec => []RoundTrip
  <1>1. Packed /\ RestoreInv => RoundTrip
    BY DEF RestoreInv
  <1> QED BY <1>1, RestoreAlways, PTL

\* restore.Run never takes the volumes of its own packer for incomplete or out
\* of order: with all of them it is refused only by the file system, over what
\* an interrupted restore left there or by a mode that it has itself restored.
THEOREM AllIsNeverRefused == RestoreSpec => []NeverRefusesAll
  <1>1. Packed /\ RestoreInv => NeverRefusesAll
    BY DEF RestoreInv
  <1> QED BY <1>1, RestoreAlways, PTL

\* With volumes missing, restore.Run succeeds only on a prefix of the manifest:
\* no file is truncated and no hole is left.
THEOREM PrefixIsWhole == RestoreSpec => []WholePrefix
  <1>1. Packed /\ RestoreInv => WholePrefix
    BY DEF RestoreInv
  <1> QED BY <1>1, RestoreAlways, PTL
=============================================================================
