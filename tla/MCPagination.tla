---------------------------- MODULE MCPagination ----------------------------
(* Three rows over two creation times: ties, rows that appear below and    *)
(* above the cursor, the cursor's own row removed, and page sizes one and  *)
(* two mixed in a walk.  0 and 3 are refused by validate_limit.  Rows of   *)
(* another owner lie between those of the walk.                            *)
EXTENDS Pagination
CONSTANTS o1, o2
MCOwning == {[r \in Rows |-> IF r = 2 THEN o2 ELSE o1], [r \in Rows |-> IF r = 2 THEN o1 ELSE None],
             [r \in Rows |-> o1]}
MCLimits == 0..3
=============================================================================
