---------------------------- MODULE MCAlgorithms ----------------------------
EXTENDS Algorithms, SequencesExt

MCNumbers == (-(2^(Width - 1)) .. 2^Width - 1) \X {10, 16}
MCFormats == SeqOf({"x", "%", "d", "s", "u"}, 5) \X {<<FALSE, FALSE, FALSE>>, <<TRUE, FALSE, TRUE>>}
MCLists == SeqOf(0 .. 2, 5) \X (0 .. 2) \X (SeqOf(1 .. 2, 3) \ {<< >>})
MCClocks == (1 .. 2^Width - 1) \X {1, 2, 7, 15}
=============================================================================
