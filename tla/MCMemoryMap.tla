---------------------------- MODULE MCMemoryMap -----------------------------
EXTENDS MemoryMap

SmallRegions == {Region(0, 2), Region(1, 1), Region(2, 2), Region(3, 0),
                 Region(3, 3), Region(4, 2), Region(6, 1)}
SmallKernel  == Region(2, 2)
=============================================================================
