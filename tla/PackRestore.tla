---------------------------- MODULE PackRestore ----------------------------
(***************************************************************************)
(* restore.Run on the volumes Packing has sealed: the round trip.  The     *)
(* user has downloaded all volumes or lost some; a restore may be          *)
(* interrupted and run again in the same destination, with --force or not. *)
(*                                                                         *)
(* Of the destination, tree keeps how many leading bytes each entry has    *)
(* there.  Of the modes, an entry's access says what the restoring user    *)
(* may write once restore has created it; the umask leaves the owner's     *)
(* bits alone.  Downloaded volumes have the bytes that were sealed.        *)
(***************************************************************************)
EXTENDS Packing, FiniteSets

CONSTANT MaxStops \* bound on interruptions

ASSUME StopsAssumption == MaxStops \in Nat

\* The manifest lists a directory before what it holds.
ASSUME AccessAssumption ==
  \A m \in Manifests : \A e \in 1 .. Len(m) :
    m[e].access = "enclosed" =>
      \E d \in 1 .. e - 1 : m[d].kind = "dir" /\ m[d].access = "readonly"

VARIABLES lost,   \* volumes that are not in the download directory
          step,   \* where restore.Run is
          force,  \* opts.Force
          vpos,   \* position among the volumes found, from 1
          ipos,   \* position in the volume's items, from 1
          tree,
          active, \* fragmentProgress: entry 0 before the first fragment
          stops

rvars == <<lost, step, force, vpos, ipos, tree, active, stops>>

Missing == -1
NoFragment == [id |-> 0, written |-> 0]

RestoreInit == /\ Init
               /\ lost = {} /\ step = "off" /\ force = FALSE
               /\ vpos = 1 /\ ipos = 1
               /\ tree = [e \in 1 .. Len(manifest) |-> Missing]
               /\ active = NoFragment /\ stops = 0

Found == (1 .. Len(sealed)) \ lost

\* Where volume v comes among those found, which are sorted by name.
Place(v) == Cardinality({w \in Found : w <= v})

\* The volume that is open, or next.
Current == CHOOSE v \in Found : Place(v) = vpos

\* The item restore is at.
It == sealed[Current].items[ipos]

\* No volume matches: nothing is done.
StartRestore ==
  /\ pc = "packed" /\ step = "off" /\ sealed # <<>>
  /\ IF stops = 0 THEN lost' \in (SUBSET (1 .. Len(sealed))) \ {1 .. Len(sealed)}
                  ELSE UNCHANGED lost
  /\ force' \in BOOLEAN
  /\ step' = "volume" /\ vpos' = 1 /\ ipos' = 1
  /\ active' = NoFragment
  /\ UNCHANGED <<tree, stops>>

Refuse == /\ step' = "refused"
          /\ UNCHANGED <<lost, force, vpos, ipos, tree, active, stops>>

\* Mutant: the marker's index is not compared with the expected one.
MutOpenVolume ==
  /\ step = "volume" /\ \E v \in Found : Place(v) = vpos
  /\ step' = "items" /\ ipos' = 1
  /\ UNCHANGED <<lost, force, vpos, tree, active, stops>>

\* The marker must carry the position the volume is found at.
OpenVolume ==
  /\ step = "volume" /\ \E v \in Found : Place(v) = vpos
  /\ IF Current = vpos
       THEN /\ step' = "items" /\ ipos' = 1
            /\ UNCHANGED <<lost, force, vpos, tree, active, stops>>
       ELSE Refuse

\* An item is left to restore.
AtItem == step = "items" /\ ipos <= Len(sealed[Current].items)

\* O_EXCL, or the symlink's Lstat, unless forced; directories may exist.
Taken(it) == /\ ~force
             /\ manifest[it.id].kind # "dir"
             /\ it.from = 0
             /\ tree[it.id] # Missing

\* Creating something in a read-only directory, or opening for writing a file
\* that an earlier fragment or run created with the manifest's mode: EACCES.
Denied(it) == \/ manifest[it.id].access = "enclosed"
              \/ /\ manifest[it.id].kind = "file"
                 /\ manifest[it.id].access = "readonly"
                 /\ tree[it.id] # Missing

Refused(it) == Taken(it) \/ Denied(it)

RestoreEntry ==
  /\ AtItem /\ It.whole
  /\ IF Refused(It)
       THEN Refuse
       ELSE /\ tree' = [tree EXCEPT ![It.id] = It.to]
            /\ ipos' = ipos + 1
            /\ UNCHANGED <<lost, step, force, vpos, active, stops>>

\* The progress the fragment belongs to.
Progress(it) == IF active.id = it.id THEN active ELSE [id |-> it.id, written |-> 0]

\* Another file's fragments have ended early.
EndedEarly(it) == active.id \notin {0, it.id}
                  /\ active.written # manifest[active.id].size

\* Mutant: written grows by the fragment's end instead of its length.
MutRestoreFragment ==
  /\ AtItem /\ ~It.whole
  /\ IF EndedEarly(It) \/ It.from # Progress(It).written \/ Refused(It)
       THEN Refuse
       ELSE /\ tree' = [tree EXCEPT ![It.id] = It.to]
            /\ active' = [id |-> It.id, written |-> Progress(It).written + It.to]
            /\ ipos' = ipos + 1
            /\ UNCHANGED <<lost, step, force, vpos, stops>>

\* A fragment continues the file at the byte written last.
RestoreFragment ==
  /\ AtItem /\ ~It.whole
  /\ IF EndedEarly(It) \/ It.from # Progress(It).written \/ Refused(It)
       THEN Refuse
       ELSE /\ tree' = [tree EXCEPT ![It.id] = It.to]
            /\ active' = [id |-> It.id, written |-> It.to]
            /\ ipos' = ipos + 1
            /\ UNCHANGED <<lost, step, force, vpos, stops>>

EndVolume ==
  /\ step = "items" /\ ipos > Len(sealed[Current].items)
  /\ step' = "volume" /\ vpos' = vpos + 1
  /\ UNCHANGED <<lost, force, ipos, tree, active, stops>>

Finish ==
  /\ step = "volume" /\ vpos > Cardinality(Found)
  /\ IF active.id # 0 /\ active.written # manifest[active.id].size
       THEN Refuse
       ELSE /\ step' = "restored"
            /\ UNCHANGED <<lost, force, vpos, ipos, tree, active, stops>>

\* Killed, or out of space.  A file that starts here may have been opened, and
\* is then empty; the symlink that was in the way may have been removed.
Interrupt ==
  /\ step \in {"volume", "items"} /\ stops < MaxStops
  /\ stops' = stops + 1
  /\ step' = "off"
  /\ \/ UNCHANGED tree
     \/ /\ AtItem /\ manifest[It.id].kind = "file" /\ ~Refused(It)
        /\ It.from = 0
        /\ tree' = [tree EXCEPT ![It.id] = 0]
     \/ /\ AtItem /\ manifest[It.id].kind = "symlink" /\ ~Refused(It)
        /\ tree' = [tree EXCEPT ![It.id] = Missing]
  /\ UNCHANGED <<lost, force, vpos, ipos, active>>

Restore == StartRestore \/ OpenVolume \/ RestoreEntry \/ RestoreFragment
           \/ EndVolume \/ Finish \/ Interrupt

RestoreNext == (Next /\ UNCHANGED rvars) \/ (Restore /\ UNCHANGED vars)

RestoreSpec == RestoreInit /\ [][RestoreNext]_<<vars, rvars>>

-----------------------------------------------------------------------------
Whole(e) == tree[e] = manifest[e].size

\* Restoring every volume gives the whole tree back: whatever the targets the
\* volumes were cut against, and after interrupted restores.
RoundTrip == step = "restored" /\ lost = {} => \A e \in 1 .. Len(manifest) : Whole(e)

\* Entry e is a file cut into fragments that lie in several volumes.
Cut(e) == \E v \in 1 .. Len(sealed) : \E k \in 1 .. Len(sealed[v].items) :
            sealed[v].items[k].id = e /\ sealed[v].items[k].from > 0

\* What a restore of every volume may be refused over: files an interrupted one
\* left, without --force; a read-only directory that holds something; a
\* read-only file that is cut, or was left by an interrupted restore.
MayRefuse ==
  \/ stops > 0 /\ ~force
  \/ \E e \in 1 .. Len(manifest) :
       \/ manifest[e].access = "enclosed"
       \/ /\ manifest[e].kind = "file" /\ manifest[e].access = "readonly"
          /\ Cut(e) \/ stops > 0

\* restore never takes what the packer sealed for incomplete or out of order:
\* with every volume at hand the marker's index, the fragments' offsets and the
\* lengths agree, and it is refused by the file system alone, over what earlier
\* runs left or what the modes it has just restored forbid.
NeverRefusesAll == step = "refused" /\ lost = {} => MayRefuse

\* A restore that returns nil leaves neither a truncated file nor a hole: with
\* volumes missing it is refused, unless only the last ones are and no file is
\* cut where they begin.  What it restores is a prefix of the manifest.
WholePrefix ==
  step = "restored" =>
    \E n \in 0 .. Len(manifest) :
      \A e \in 1 .. Len(manifest) : IF e <= n THEN Whole(e) ELSE tree[e] = Missing
=============================================================================
