----------------------------- MODULE FdtParser ------------------------------
(***************************************************************************)
(* DeviceTree::Parser (DeviceTree.h, DeviceTree.cpp): the walk over the    *)
(* structure block of a flattened device tree.  The block is a sequence of *)
(* items, a token with the name or the property that follows it.  An item  *)
(* that is not "whole" runs over the end of the block: its token, its name *)
(* without a terminator, its header or its value is cut off.               *)
(***************************************************************************)
EXTENDS Integers, Sequences, FiniteSetsExt

FDT_SUPPORTED_VERSION == 17

(* A property: its value is a list of strings or a list of 32-bit cells.   *)
Prop(name, strings, cells) == [_name |-> name, _strings |-> strings, _cells |-> cells]
NoProp == Prop("", << >>, << >>)

Item(token, name, prop) == [token |-> token, name |-> name, prop |-> prop, whole |-> TRUE]

(* The parser behind init: nothing read yet.                               *)
FreshParser == [_pos |-> 1, _token |-> "End", _node_name |-> "", _prop |-> NoProp, _depth |-> 0]

-----------------------------------------------------------------------------
(* Mutated: a NOP ends the walk, like an unknown token.                    *)
next_NopEnds(q, items) ==
    IF q._pos > Len(items) \/ ~items[q._pos].whole
       \/ items[q._pos].token \notin {"BeginNode", "EndNode", "Prop"}
    THEN [q EXCEPT !._token = "End", !._pos = Len(items) + 1]
    ELSE [q EXCEPT !._token = items[q._pos].token, !._pos = q._pos + 1,
                   !._node_name = items[q._pos].name, !._prop = items[q._pos].prop,
                   !._depth = IF items[q._pos].token = "BeginNode" THEN @ + 1
                              ELSE IF items[q._pos].token = "EndNode" THEN @ - 1 ELSE @]

-----------------------------------------------------------------------------
(* Parser::init.  A header gives the blocks as offset and size (16 for the *)
(* reservation map); the sums are computed in 64 bits.                     *)
init_status(fdt) ==
    IF fdt.null THEN "Malformed"
    ELSE IF ~fdt._magic THEN "BadMagic"
    ELSE IF fdt._version < FDT_SUPPORTED_VERSION THEN "UnsupportedVersion"
    ELSE IF \E b \in fdt.blocks : b.off + b.size > fdt._totalsize THEN "Malformed"
    ELSE "Ok"

(* Parser::next.  NOPs are skipped; the end of the block, an item that is  *)
(* cut off, the End token and an unknown token all end the walk for good.  *)
next(q, items) ==
    LET ahead == {k \in q._pos .. Len(items) : items[k].token # "Nop" \/ ~items[k].whole}
        it    == items[Min(ahead)]
    IN  IF ahead = {} \/ ~it.whole \/ it.token \notin {"BeginNode", "EndNode", "Prop"}
        THEN [q EXCEPT !._token = "End", !._pos = Len(items) + 1]
        ELSE [q EXCEPT !._token = it.token, !._pos = Min(ahead) + 1,
                       !._node_name = IF it.token = "BeginNode" THEN it.name ELSE @,
                       !._prop = IF it.token = "Prop" THEN it.prop ELSE @,
                       !._depth = CASE it.token = "BeginNode" -> @ + 1
                                    [] it.token = "EndNode" -> IF @ > 0 THEN @ - 1 ELSE 0
                                    [] OTHER -> @]
=============================================================================
