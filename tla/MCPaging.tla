------------------------------ MODULE MCPaging ------------------------------
EXTENDS Paging

\* Three rows make a page boundary within a millisecond and outside it.
RowIds == 1..3
RecordIds == 1..2
=============================================================================
