---------------------------- MODULE MCAgentSync ----------------------------
EXTENDS AgentSync

Range(first, last) == [begin |-> first, end |-> last]

\* Nothing asked for; one item; the other one, twice; an item the batch does not
\* have; a malformed range that only the second item is compared with.
MCRangeLists ==
    {<<>>, <<Range(0, 0)>>, <<Range(1, 1), Range(0, 7)>>, <<Range(5, 6)>>,
     <<Range(0, 0), Range(2, 1)>>}
=============================================================================
