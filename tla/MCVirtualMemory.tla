-------------------------- MODULE MCVirtualMemory --------------------------
EXTENDS VirtualMemory

\* Three levels of page tables whose entries cover 4, 2 and 1 pages, and the ranges of the
\* AMD device at that scale.
MCLvlMsb == <<6, 4, 3, 2>>
MCPallocRanges == <<<<16, 8>>, <<8, 8>>, <<4, 4>>>>
=============================================================================
