------------------------------ MODULE MCBlkDev ------------------------------
EXTENDS BlkDev

\* Whole-block, partial, straddling and out-of-range requests; blocks are two
\* cells long, so offset 6 is block 3.
MCRequests ==
  [kind : {"write"}, ofs : {0}, size : {2}, val : {1}]
    \cup [kind : {"write"}, ofs : {1}, size : {2}, val : {2}]
    \cup [kind : {"write"}, ofs : {6}, size : {2}, val : {1}]
    \cup [kind : {"read"}, ofs : {0, 4}, size : {1}, val : {0}]
MCBeyond == {3}
=============================================================================
