--------------------------- MODULE MCPackRestore ---------------------------
(* Instances of PackRestore for TLC: files that share a volume, fill one,   *)
(* spill over one or take two, one that cannot be packed, a directory and   *)
(* a symlink, in every order; and read-only files and directories, alone,   *)
(* with something in them, and beside an ordinary file.                     *)
EXTENDS PackRestore

Of(kind, size, access) ==
  [kind |-> kind, size |-> size, name |-> 9, link |-> 9, access |-> access]
File(size) == Of("file", size, "free")

MCEntries == {File(s) : s \in {0, 513, 59393, 110000}}
             \union {[File(110000) EXCEPT !.name = 3900]}
             \union {Of(k, 0, "free") : k \in {"dir", "symlink"}}

MCReadOnly == {File(513)}
              \union {Of("file", s, "readonly") : s \in {513, 59393, 110000}}
              \union {Of("dir", 0, "readonly")}
              \union {Of(k, 0, "enclosed") : k \in {"file", "dir", "symlink"}}

\* What is enclosed comes after the directory that encloses it.
Nested(m) == \A e \in DOMAIN m : m[e].access = "enclosed" =>
               \E d \in 1 .. e - 1 : m[d] = Of("dir", 0, "readonly")

MCManifests == UNION {[1 .. n -> MCEntries] : n \in 0 .. 3}
               \union {m \in UNION {[1 .. n -> MCReadOnly] : n \in 1 .. 3} : Nested(m)}

MCTargets == {65536, 98304}
=============================================================================
