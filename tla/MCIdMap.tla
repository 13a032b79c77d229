------------------------------- MODULE MCIdMap ------------------------------
EXTENDS IdMap

(* Pages of 2 bytes, 8 bytes per L2 entry, 32 per L1 entry, 64 in all.    *)
UpTo2(S) == {<< >>} \cup {<<r>> : r \in S} \cup {<<r, s>> : r, s \in S}

BoardRam == UpTo2({Region(0, 24), Region(8, 16), Region(24, 16), Region(32, 32),
                   Region(16, 32), Region(40, 24), Region(4, 6)})
Board == UpTo2({Region(r, n) : r \in {0, 3, 8, 30, 47}, n \in {1, 4, 9, 17}})

(* One region over a 1GB boundary.                                         *)
StraddlingRam == {<<Region(24, 16)>>}
NoDevices == {<< >>}

(* Two regions with a gap between them, in one page of 4 bytes.            *)
NoRam == {<< >>}
SharedPage == UpTo2({Region(s, n) : s \in 0 .. 15, n \in 1 .. 9})
=============================================================================
