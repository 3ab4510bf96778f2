--------------------------- MODULE MCContentStore ---------------------------
(***************************************************************************)
(* Two readers over two text files, whose double counting alone exceeds    *)
(* the cap, and one of each kind of unreadable file.                       *)
(***************************************************************************)
EXTENDS ContentStore, TLC

CONSTANTS r1, r2

Readers == {r1, r2}

FileSize == [k \in Key |-> CASE k = "small" -> 1
                             [] k = "big"   -> 2
                             [] k = "huge"  -> 4
                             [] k = "blob"  -> 1]

Sources == {"small", "big", "huge", "blob"}
=============================================================================
