----------------------------- MODULE MCPacking -----------------------------
(* Instances of Packing for TLC: targets of 64 KiB and a little more, and   *)
(* entries whose sizes lie at the edges of what fits.                       *)
EXTENDS Packing

CONSTANT Lengths \* lengths of long paths and link targets

Of(kind, size, name, link) ==
  [kind |-> kind, size |-> size, name |-> name, link |-> link, access |-> "free"]
File(size, name) == Of("file", size, name, 0)
Dir(name) == Of("dir", 0, name, 0)
Symlink(name, link) == Of("symlink", 0, name, link)

\* Empty, a byte over a block, just fitting beside a small entry or alone in a
\* volume of 65536, one byte over, and three volumes' worth.
Sizes == {0, 513, 49000, 55296, 55297, 59392, 59393, 130000}

MCEntries == {File(s, 9) : s \in Sizes}
             \union {File(s, n) : s \in {513, 130000}, n \in Lengths}
             \union {Symlink(9, n) : n \in Lengths}
             \union {Dir(9), Symlink(9, 9)}

MCManifests == UNION {[1 .. n -> MCEntries] : n \in 0 .. 3}

\* Two entries are enough for the run with long paths.
MCFew == UNION {[1 .. n -> MCEntries] : n \in 0 .. 2}

MCTargets == {65536, 66048, 66560, 98304}
=============================================================================
