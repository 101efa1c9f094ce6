---------------------------- MODULE MCBackupDisk ----------------------------
(* Instances of BackupDisk for TLC. *)
EXTENDS BackupDisk

MCSizes == 0 .. 4
MCUnit == 65536

\* Free space from too little for two volumes to enough for the largest; the
\* reserve is minFree on the first disk, the fraction of the total on others.
MCRooms == {<<n * MCUnit + 300, 20 * MCUnit>> : n \in {3}}
           \union {<<n * MCUnit + 300, 40 * MCUnit>> : n \in {3, 4, 5, 6, 8, 10}}

\* Automatic, and fixed at two units or above the maximum; the minimum is
\* not a multiple of a tar block.
MCLimits == [minFree : {MCUnit}, fraction : {<<1, 20>>},
             minVolume : {MCUnit + 100}, maxVolume : {3 * MCUnit},
             requested : {0, 2 * MCUnit, 4 * MCUnit}]
=============================================================================
