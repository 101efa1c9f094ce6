----------------------------- MODULE BatchAudit -----------------------------
(***************************************************************************)
(* panpack audit-batch: audit.RunWithClient checks one job of BatchUpload  *)
(* while its uploads, and others who use the remote directory, go on.  It  *)
(* takes no lock: it reads the state, the listing page by page, the        *)
(* metadata, the source directory and the receipt one after the other.     *)
(*                                                                         *)
(* The audit is run with --require-local-empty, --require-checksum and a   *)
(* receipt, and a pattern that all names match.  Every record of an        *)
(* uploaded file has its checksums (states from v0.1.4 on).  The few       *)
(* hundred names that one metadata call takes are read at once.            *)
(***************************************************************************)
EXTENDS BatchUpload, Functions, FiniteSetsExt

CONSTANTS Audited,   \* the job that is audited
          Strangers, \* names that match the pattern and are not frozen
          Order,     \* all names as the service sorts them
          Expected,  \* --expected-list, or the frozen names
          PageSize,  \* entries in a page of the listing
          Intruder,  \* content that no job has
          MaxMeddles \* bound on what others do to the directory

ASSUME AuditAssumption ==
  /\ Audited \in Jobs /\ Strangers \cap Names = {}
  /\ Order \in Seq(Names \union Strangers) /\ IsInjective(Order)
  /\ Range(Order) = Names \union Strangers
  /\ Expected \subseteq Names \union Strangers
  /\ PageSize \in Nat \ {0}
  /\ Intruder \notin Jobs \union {Absent}
  /\ MaxMeddles \in Nat

VARIABLES others,  \* strangers that the directory holds
          apc,     \* where the audit is
          hash,    \* its first digest of the state file
          seen,    \* the state it has loaded
          listed,  \* names the pages have given so far
          clean,   \* no issue yet
          vouched, \* the receipt it has loaded
          before,  \* history: the names there when the listing began
          moved,   \* history: a name was removed while the pages were read
          spoiled, \* history: a file was spoiled after its metadata was read
          steady,  \* history: all was well at the start, nothing moved since
          meddles

\* After the metadata has been read.
Late == {"local", "receipt", "vouch", "verdict", "passed", "failed"}

reader == <<apc, hash, seen, listed, clean, vouched>>
auditVars == <<others, reader, before, moved, spoiled, steady, meddles>>

Present == {n \in Names : remote[n] # Absent} \union others

\* The names that are there, by their positions in Order.
There == {i \in 1 .. Len(Order) : Order[i] \in Present}

\* Where the i-th name in Order comes among them.
Place(i) == Cardinality({k \in There : k <= i})

\* The directory as the service would list it now.
Listing == [p \in 1 .. Cardinality(There) |->
              Order[CHOOSE i \in There : Place(i) = p]]

\* All that an audit asks for.
AllIsWell == /\ state[Audited] = [uploaded |-> Names, completed |-> TRUE]
             /\ \A n \in Names : Holds(Audited, n)
             /\ local[Audited] = {}
             /\ Accepted(Audited)
             /\ Present = Expected /\ Names \subseteq Expected

AuditInit == /\ Init
             /\ others \in SUBSET Strangers
             /\ apc = "off" /\ hash = Fresh /\ seen = Fresh /\ listed = <<>>
             /\ clean = TRUE
             /\ vouched = [status |-> "none", digest |-> Fresh]
             /\ before = {} /\ moved = FALSE /\ spoiled = FALSE /\ steady = FALSE /\ meddles = 0

-----------------------------------------------------------------------------
(* The audit. *)

Note(good) == clean' = (clean /\ good)

HashState == /\ apc = "off"
             /\ hash' = state[Audited]
             /\ apc' = "load"
             /\ steady' = (AllIsWell /\ \A r \in Runners : pc[r] = "idle")
             /\ UNCHANGED <<others, seen, listed, clean, vouched, before,
                            moved, spoiled, meddles>>

\* LoadState, and the checks on the records and the expected names.
LoadAudited == /\ apc = "load"
               /\ seen' = state[Audited]
               /\ Note(/\ seen'.completed /\ seen'.uploaded = Names
                       /\ Names \subseteq Expected)
               /\ before' = Present
               /\ apc' = "list"
               /\ UNCHANGED <<others, hash, listed, vouched, moved, spoiled, steady,
                              meddles>>

\* Mutants: every page is the first; the next page starts one entry late.
MutStuckOffset == 0
MutOffset == IF listed = <<>> THEN 0 ELSE Len(listed) + 1

\* ListDir counts the entries it has; a short page is the last one.
Offset == Len(listed)

\* Mutant: a full page is taken for the last.
MutListPage ==
  LET page == SubSeq(Listing, Offset + 1, Min({Offset + PageSize, Len(Listing)}))
  IN  /\ apc = "list"
      /\ listed' = listed \o page
      /\ apc' = IF Len(page) <= PageSize THEN "compare" ELSE "list"
      /\ UNCHANGED <<others, hash, seen, clean, vouched, before, moved, spoiled,
                     steady, meddles>>

ListPage ==
  LET page == SubSeq(Listing, Offset + 1, Min({Offset + PageSize, Len(Listing)}))
  IN  /\ apc = "list"
      /\ listed' = listed \o page
      /\ apc' = IF Len(page) < PageSize THEN "compare" ELSE "list"
      /\ UNCHANGED <<others, hash, seen, clean, vouched, before, moved, spoiled,
                     steady, meddles>>

\* Mutant: names that nobody expects are overlooked.
MutCompare == /\ apc = "compare"
              /\ Note(Expected \subseteq Range(listed) /\ IsInjective(listed))
              /\ apc' = "metadata"
              /\ UNCHANGED <<others, hash, seen, listed, vouched, before,
                             moved, spoiled, steady, meddles>>

\* Missing, extra and duplicate names.
Compare == /\ apc = "compare"
           /\ Note(Range(listed) = Expected /\ IsInjective(listed))
           /\ apc' = "metadata"
           /\ UNCHANGED <<others, hash, seen, listed, vouched, before, moved, spoiled,
                          steady, meddles>>

\* Size and checksum of every frozen file that was listed; one that is gone
\* again has no metadata.
Metadata == /\ apc = "metadata"
            /\ Note(\A n \in Names \cap Range(listed) : Holds(Audited, n))
            /\ apc' = "local"
            /\ UNCHANGED <<others, hash, seen, listed, vouched, before, moved, spoiled,
                           steady, meddles>>

GlobLocal == /\ apc = "local"
             /\ Note(local[Audited] = {})
             /\ apc' = "receipt"
             /\ UNCHANGED <<others, hash, seen, listed, vouched, before,
                            moved, spoiled, steady, meddles>>

\* VerifySucceeded loads the receipt, then hashes the state file once more.
LoadReceipt == /\ apc = "receipt"
               /\ vouched' = receipt[Audited]
               /\ apc' = "vouch"
               /\ UNCHANGED <<others, hash, seen, listed, clean, before,
                              moved, spoiled, steady, meddles>>

Vouch == /\ apc = "vouch"
         /\ Note(/\ vouched.status = "succeeded"
                 /\ vouched.digest = state[Audited])
         /\ apc' = "verdict"
         /\ UNCHANGED <<others, hash, seen, listed, vouched, before, moved, spoiled,
                        steady, meddles>>

\* The state must still have its first digest.
Conclude == /\ apc = "verdict"
            /\ apc' = IF clean /\ hash = state[Audited] THEN "passed" ELSE "failed"
            /\ UNCHANGED <<others, hash, seen, listed, clean, vouched, before,
                           moved, spoiled, steady, meddles>>

\* A file cannot be read, or a request fails for good: no verdict.
AuditStops == /\ apc \notin {"off", "passed", "failed", "stopped"}
              /\ apc' = "stopped"
              /\ UNCHANGED <<others, hash, seen, listed, clean, vouched, before,
                             moved, spoiled, steady, meddles>>

Audit == \/ HashState \/ LoadAudited \/ ListPage \/ Compare \/ Metadata
         \/ GlobLocal \/ LoadReceipt \/ Vouch \/ Conclude \/ AuditStops

-----------------------------------------------------------------------------
(* Everybody else. *)

\* An upload goes on: other content may come under a name, none goes.
UploadGoesOn == /\ Next
                /\ steady' = FALSE
                /\ UNCHANGED <<others, reader, before, moved, spoiled, meddles>>

Meddle == /\ meddles < MaxMeddles /\ meddles' = meddles + 1
          /\ steady' = FALSE
          /\ UNCHANGED <<reader, before>>

\* Somebody adds a file that no upload knows of.
Intrude == /\ Meddle
           /\ \E n \in Strangers \ others : others' = others \union {n}
           /\ UNCHANGED <<vars, moved, spoiled>>

\* Somebody removes such a file.
TidyUp == /\ Meddle
          /\ \E n \in others : others' = others \ {n}
          /\ moved' = (moved \/ apc = "list")
          /\ UNCHANGED <<vars, spoiled>>

\* Somebody removes an uploaded file, or replaces its content.
Spoil == /\ Meddle
         /\ \E n \in Names, c \in {Absent, Intruder} :
              /\ remote[n] \notin {Absent, c}
              /\ remote' = Set(remote, n, c)
              /\ moved' = (moved \/ (c = Absent /\ apc = "list"))
         /\ spoiled' = (spoiled \/ apc \in Late)
         /\ UNCHANGED <<local, state, stLock, receipt, recLock, pc, mem, pos,
                        tries, ok, digest, faults, others>>

AuditNext == \/ Audit /\ UNCHANGED vars
             \/ UploadGoesOn
             \/ Intrude \/ TidyUp \/ Spoil

AuditSpec == AuditInit /\ [][AuditNext]_<<vars, auditVars>>

-----------------------------------------------------------------------------
\* Everything stays of its type; the pages end, for together they never hold
\* more entries than there are names, duplicates included.
AuditTypeOK ==
  /\ others \subseteq Strangers
  /\ apc \in {"off", "load", "list", "compare", "metadata", "stopped"} \union Late
  /\ hash \in States /\ seen \in States
  /\ listed \in Seq(Names \union Strangers) /\ Len(listed) <= Len(Order)
  /\ clean \in BOOLEAN /\ vouched \in Receipts
  /\ before \subseteq Names \union Strangers
  /\ moved \in BOOLEAN /\ spoiled \in BOOLEAN /\ steady \in BOOLEAN
  /\ meddles \in 0 .. MaxMeddles

\* An audit that passes is right, whatever ran beside it: the batch is complete,
\* the reported digest is that of the state the files were checked against and
\* that the receipt vouches for, no local file is left, every frozen file is
\* there with its content unless it was spoiled after its metadata was read, and
\* there was nothing unexpected when the listing began unless something was
\* removed while it was read.
AuditSound ==
  apc = "passed" =>
    /\ state[Audited] = [uploaded |-> Names, completed |-> TRUE]
    /\ seen = hash /\ vouched.digest = hash
    /\ local[Audited] = {}
    /\ ~spoiled => \A n \in Names : Holds(Audited, n)
    /\ ~moved => before \subseteq Expected

\* The pages leave nothing out that was there when the first was read, though
\* uploads and others add files between them.
NothingMissed ==
  apc \in {"compare", "metadata"} \union Late /\ ~moved
    => before \subseteq Range(listed)

\* When all is as it should be and nobody touches it, the audit does not fail:
\* the pages give every name once, however many fill the last one.
NoFalseAlarm == apc = "failed" => ~steady
=============================================================================
