-------------------------- MODULE MCInventorySync --------------------------
EXTENDS InventorySync

\* Every list of ranges a session of at most MaxSize items can ask for.
MCRangeLists == UNION {[1 .. n -> [begin : 0 .. MaxSize, end : 0 .. MaxSize]] :
                          n \in 0 .. MaxSize}
=============================================================================
