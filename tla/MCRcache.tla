------------------------------ MODULE MCRcache ------------------------------
EXTENDS Rcache

\* Three gets with one unmap, two with a failing registration, and one with two
\* unmaps, where an unmap may also be an invalidation or a fork.
Mixed == {[get |-> 3, unmap |-> 1, fail |-> 0],
          [get |-> 2, unmap |-> 1, fail |-> 1],
          [get |-> 1, unmap |-> 2, fail |-> 1]}
=============================================================================
