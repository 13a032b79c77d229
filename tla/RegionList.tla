----------------------------- MODULE RegionList -----------------------------
(***************************************************************************)
(* Memory::RegionList (memory/map.h, memory/map.cpp): a list of [start,    *)
(* start + size) regions with room for MaxNumRegions, kept in the order in *)
(* which they were added.                                                  *)
(***************************************************************************)
EXTENDS Integers, Sequences

CONSTANT MaxNumRegions

ASSUME MaxNumRegionsAssumption == MaxNumRegions \in Nat \ {0}

Region(start, size) == [_start |-> start, _size |-> size]

Regions == [_start : Nat, _size : Nat]

End(r) == r._start + r._size

(* The addresses of a region, and of all the regions of a list.            *)
Bytes(r) == r._start .. End(r) - 1

Covered(list) == UNION {Bytes(list[i]) : i \in DOMAIN list}

-----------------------------------------------------------------------------
(* Mutated operations: only one end is looked at; merging in front of a    *)
(* region leaves its start where it was; the loop does not return after    *)
(* the first merge.                                                        *)
regions_overlap_OneEnd(r, s) ==
    r._size # 0 /\ s._size # 0 /\ s._start <= r._start /\ r._start < End(s)

Merged_StartKept(r, s) == [r EXCEPT !._size = @ + s._size]

add_region_NoReturn(list, s) ==
    IF \A i \in DOMAIN list : End(list[i]) # s._start /\ End(s) # list[i]._start
    THEN Append(list, s)
    ELSE [i \in DOMAIN list |->
            IF End(list[i]) = s._start
            THEN [list[i] EXCEPT !._size = @ + s._size]
            ELSE IF End(s) = list[i]._start
                 THEN [list[i] EXCEPT !._start = @ - s._size, !._size = @ + s._size]
                 ELSE list[i]]

-----------------------------------------------------------------------------
regions_overlap(r, s) ==
    /\ r._size # 0 /\ s._size # 0
    /\ r._start < End(s) /\ s._start < End(r)

(* kprecond at the top of add_region; when it fails the kernel panics.     *)
HasRoom(list) == Len(list) < MaxNumRegions - 1

Mergeable(r, s) == End(r) = s._start \/ End(s) = r._start

(* r grown by s at the end or at the front.                                *)
Merged(r, s) ==
    IF End(r) = s._start THEN [r EXCEPT !._size = @ + s._size]
                         ELSE [r EXCEPT !._start = @ - s._size, !._size = @ + s._size]

(* The first region that s touches absorbs it; otherwise s is a new entry. *)
add_region(list, s) ==
    LET touching == {i \in DOMAIN list : Mergeable(list[i], s)}
        first    == CHOOSE i \in touching : \A j \in touching : i <= j
    IN  IF touching = {} THEN Append(list, s)
                         ELSE [list EXCEPT ![first] = Merged(@, s)]
=============================================================================
