------------------------------ MODULE Packing ------------------------------
(***************************************************************************)
(* archive.Packer.PackNext with its byte budgets: the manifest's entries   *)
(* are packed into tar volumes, call after call from the saved cursor and  *)
(* each time with the target size the resource plan gives.                 *)
(*                                                                         *)
(* Sizes are bytes.  Of a path or a link target only the length is kept;   *)
(* paths of at most 100 bytes are taken to be ASCII.  A cursor counts      *)
(* entries instead of manifest bytes.  That a stop or an error of the      *)
(* source loses the open volume only is the business of BackupRun.         *)
(* access matters to restore alone: what the modes of the entry and of the *)
(* directories it lies in let the restoring user write.  "free": all that  *)
(* restore does (for root, always); "readonly": the owner may not write it,*)
(* or not search it, if a directory; "enclosed": one above it is readonly. *)
(***************************************************************************)
EXTENDS Integers, Sequences

CONSTANTS Manifests, \* sequences of entries the scan may give
          Targets    \* volume sizes the resource plan may give

\* The scan takes the size of regular files only.
Entry == {e \in [kind : {"file", "dir", "symlink"}, size : Nat, name : Nat,
                 link : Nat, access : {"free", "readonly", "enclosed"}] :
            e.kind # "file" => e.size = 0}

\* PackNext refuses a target below 64 KiB; resource.Plan gives whole tar blocks.
ASSUME PackingAssumption ==
  /\ Manifests \subseteq Seq(Entry)
  /\ Targets \subseteq {t \in Nat : t >= 65536 /\ t % 512 = 0}

VARIABLES manifest,
          cursor,  \* state.Cursor: the entry to go on with, and its offset
          sealed,  \* the sealed volumes: items, size and CursorAfter
          pc,
          target,  \* targetBytes of this call
          at,      \* nextCursor
          items,   \* source items in the open volume
          written, \* hw.Size()
          pad      \* padding the tar writer still owes

vars == <<manifest, cursor, sealed, pc, target, at, items, written, pad>>

endBlockBudget == 1024
headerBudget == 4096

round512(n) == ((n + 511) \div 512) * 512

tarEntryBudget(name, size) == headerBudget + round512(2 * name + 512) + round512(size)

\* One PAX record: its own length in decimal, a key with its blank, equals sign
\* and newline (k bytes), and n bytes of value.
PaxRecord(k, n) == n + k + IF n + k + 2 < 100 THEN 2
                           ELSE IF n + k + 3 < 1000 THEN 3 ELSE 4

\* path and linkpath have a record only when they are longer than 100 bytes.
LongRecord(k, n) == IF n > 100 THEN PaxRecord(k, n) ELSE 0

\* archive/tar: a PAX header block, its records padded, the entry's header
\* block.  atime and ctime of 0 and an mtime with nanoseconds take 52 bytes.
HeaderBytes(records) == 1024 + round512(52 + records)

\* A directory's name ends in a slash.
EntryHeader(e) ==
  HeaderBytes(LongRecord(7, IF e.kind = "dir" THEN e.name + 1 ELSE e.name)
              + LongRecord(11, e.link))

\* The widest entry id and offset are counted.
FragmentHeader(e) ==
  HeaderBytes(PaxRecord(19, 20) + PaxRecord(22, 19) + PaxRecord(24, e.name))

\* The marker needs no PAX records; for a one-digit index it has 83 bytes.
MarkerData == 83

Owed(size) == round512(size) - size

\* Bytes written and owed after the marker, if it is not there yet; the header
\* of whatever comes next pays for padding owed before.
Marked == IF items = <<>> THEN [written |-> 512 + MarkerData, pad |-> Owed(MarkerData)]
                          ELSE [written |-> written, pad |-> pad]

Origin == [entry |-> 1, offset |-> 0]

Init == /\ manifest \in Manifests
        /\ cursor = Origin /\ sealed = <<>>
        /\ pc = "idle" /\ target = 0
        /\ at = Origin /\ items = <<>> /\ written = 0 /\ pad = 0

-----------------------------------------------------------------------------
\* PackNext is called, the cursor not being done: an empty volume is opened.
Begin == /\ pc = "idle"
         /\ target' \in Targets
         /\ at' = cursor
         /\ items' = <<>> /\ written' = 0 /\ pad' = 0
         /\ pc' = "pack"
         /\ UNCHANGED <<manifest, cursor, sealed>>

Here == manifest[at.entry]

More == pc = "pack" /\ at.entry <= Len(manifest)

Available == target - written - endBlockBudget

\* An item goes into the open volume: a header, the bytes from..to of the
\* entry, padding owed.
Add(header, from, to, whole) ==
  /\ written' = Marked.written + Marked.pad + header + (to - from)
  /\ pad' = Owed(to - from)
  /\ items' = Append(items, [id |-> at.entry, from |-> from, to |-> to,
                             whole |-> whole])

Advance == at' = [entry |-> at.entry + 1, offset |-> 0]

\* Mutant: the entry that did not fit counts as packed.
MutClose == /\ pc' = "close"
            /\ at' = [entry |-> at.entry + 1, offset |-> 0]
            /\ UNCHANGED <<manifest, cursor, sealed, target, items, written, pad>>

\* The loop is left.
Close == /\ pc' = "close"
         /\ UNCHANGED <<manifest, cursor, sealed, target, at, items, written, pad>>

\* The whole file, by its estimate, fits in what is left.
FitsHere == /\ at.offset = 0
            /\ tarEntryBudget(Here.name, Here.size) <= Available

WholeFile ==
  /\ More /\ Here.kind = "file" /\ FitsHere
  /\ Add(EntryHeader(Here), 0, Here.size, TRUE)
  /\ Advance
  /\ UNCHANGED <<manifest, cursor, sealed, pc, target>>

\* The file would fit in a fresh volume: the current one is sealed first.
FitsFresh == /\ at.offset = 0 /\ items # <<>>
             /\ tarEntryBudget(Here.name, Here.size)
                  <= target - endBlockBudget - headerBudget

CloseBeforeFile ==
  /\ More /\ Here.kind = "file" /\ ~FitsHere /\ FitsFresh
  /\ Close

\* Mutant: no room is kept for the fragment's header.
MutRoom == target - Marked.written - endBlockBudget

Room == target - Marked.written - endBlockBudget - headerBudget

\* Mutant: the part is not cut at the end of the file.
MutPartSize == Room - (Room % 512)

\* Parts that are not the last are whole 512-byte blocks.
PartSize == LET remaining == Here.size - at.offset
            IN  IF remaining <= Room THEN remaining ELSE Room - (Room % 512)

\* Mutant: the cursor leaves the file after one fragment.
MutAfterPart(to) == [entry |-> at.entry + 1, offset |-> 0]

AfterPart(to) == IF to = Here.size THEN [entry |-> at.entry + 1, offset |-> 0]
                                   ELSE [entry |-> at.entry, offset |-> to]

\* One fragment, which closes the volume.
Fragment ==
  /\ More /\ Here.kind = "file" /\ ~FitsHere /\ ~FitsFresh
  /\ Room >= 512 /\ PartSize > 0
  /\ Add(FragmentHeader(Here), at.offset, at.offset + PartSize, FALSE)
  /\ at' = AfterPart(at.offset + PartSize)
  /\ pc' = "close"
  /\ UNCHANGED <<manifest, cursor, sealed, target>>

\* Mutant: the two cases of a volume without room are swapped.
MutNoRoom ==
  /\ More /\ Here.kind = "file" /\ ~FitsHere /\ ~FitsFresh
  /\ Room < 512 /\ items = <<>>
  /\ Close

\* No room for file data: the volume is sealed, unless it is empty.
NoRoom ==
  /\ More /\ Here.kind = "file" /\ ~FitsHere /\ ~FitsFresh
  /\ Room < 512 /\ items # <<>>
  /\ Close

\* The first item of a volume is written whatever the estimate says.
MetadataFits == items = <<>> \/ tarEntryBudget(Here.name, 0) <= Available

MetadataEntry ==
  /\ More /\ Here.kind # "file" /\ MetadataFits
  /\ Add(EntryHeader(Here), 0, 0, TRUE)
  /\ Advance
  /\ UNCHANGED <<manifest, cursor, sealed, pc, target>>

CloseBeforeMetadata ==
  /\ More /\ Here.kind # "file" /\ ~MetadataFits
  /\ Close

\* The manifest has ended.
CloseAtEnd ==
  /\ pc = "pack" /\ at.entry > Len(manifest) /\ items # <<>>
  /\ Close

\* Nothing to pack: io.EOF.
EndOfManifest ==
  /\ pc = "pack" /\ at.entry > Len(manifest) /\ items = <<>>
  /\ pc' = "packed"
  /\ UNCHANGED <<manifest, cursor, sealed, target, at, items, written, pad>>

\* The size once the tar is closed: padding owed and two zero blocks.
Total == written + pad + 1024

Seal ==
  /\ pc = "close" /\ Total <= target
  /\ sealed' = Append(sealed, [items |-> items, size |-> Total, after |-> at])
  /\ cursor' = at
  /\ pc' = IF at.entry > Len(manifest) THEN "packed" ELSE "idle"
  /\ UNCHANGED <<manifest, target, at, items, written, pad>>

\* "internal error: volume is above target"
AboveTarget ==
  /\ pc = "close" /\ Total > target
  /\ pc' = "above"
  /\ UNCHANGED <<manifest, cursor, sealed, target, at, items, written, pad>>

Next == \/ Begin \/ WholeFile \/ CloseBeforeFile \/ Fragment \/ NoRoom
        \/ MetadataEntry \/ CloseBeforeMetadata \/ CloseAtEnd \/ EndOfManifest
        \/ Seal \/ AboveTarget

Spec == Init /\ [][Next]_vars

\* The packer goes on while its caller does.
FairSpec == Spec /\ WF_vars(Next)
-----------------------------------------------------------------------------
\* Everything stays of its type, and cursors stay inside their entries.
Cursors == [entry : Nat \ {0}, offset : Nat]
Items == [id : Nat \ {0}, from : Nat, to : Nat, whole : BOOLEAN]

TypeOK ==
  /\ manifest \in Manifests
  /\ cursor \in Cursors /\ at \in Cursors
  /\ \A c \in {cursor, at} :
       /\ c.entry <= Len(manifest) + 1
       /\ c.offset > 0 => c.entry <= Len(manifest) /\ c.offset < manifest[c.entry].size
  /\ sealed \in Seq([items : Seq(Items), size : Nat, after : Cursors])
  /\ pc \in {"idle", "pack", "close", "packed", "above"}
  /\ target \in Targets \union {0}
  /\ items \in Seq(Items) /\ written \in Nat /\ pad \in 0 .. 511

\* Where item it leaves off.
After(it) == IF it.to = manifest[it.id].size THEN [entry |-> it.id + 1, offset |-> 0]
                                             ELSE [entry |-> it.id, offset |-> it.to]

\* Items is lead from cursor c to cursor d without a gap or an overlap; those
\* marked whole are, and a fragment is not empty.
Lead(is, c, d) ==
  /\ \A k \in 1 .. Len(is) :
       /\ [entry |-> is[k].id, offset |-> is[k].from]
            = IF k = 1 THEN c ELSE After(is[k - 1])
       /\ IF is[k].whole THEN is[k].from = 0 /\ is[k].to = manifest[is[k].id].size
                         ELSE is[k].from < is[k].to
  /\ d = IF is = <<>> THEN c ELSE After(is[Len(is)])

\* The volumes hold every byte of the manifest up to the saved cursor exactly
\* once and in order, although each was cut against its own target; none is
\* empty, so each PackNext makes progress.
VolumesLeadToCursor ==
  /\ \A v \in 1 .. Len(sealed) :
       /\ sealed[v].items # <<>>
       /\ Lead(sealed[v].items, IF v = 1 THEN Origin ELSE sealed[v - 1].after,
               sealed[v].after)
  /\ cursor = IF sealed = <<>> THEN Origin ELSE sealed[Len(sealed)].after

\* A closed volume is never above its target: PackNext never ends in its
\* "internal error".
NeverAboveTarget == pc # "above"

\* Paths and link targets that the budgets have room for.
ShortNames == \A e \in 1 .. Len(manifest) : manifest[e].name <= 2300
                                             /\ manifest[e].link <= 2300

\* The estimates the packer decides by are safe for every path and link target
\* of up to 2300 bytes, whatever the sizes and the target.
ShortNamesFit == pc = "above" => ~ShortNames

\* Whatever targets it is given, the packer comes to the manifest's end.
PackingEnds == ShortNames => <>(pc = "packed")
=============================================================================
