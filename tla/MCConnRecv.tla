----------------------------- MODULE MCConnRecv -----------------------------
(***************************************************************************)
(* ConnRecv on a small instance: up to three messages with up to two          *)
(* descriptors, well formed or not, read in pieces of every size.           *)
(***************************************************************************)
EXTENDS ConnRecv

MCShapes == {[args |-> <<>>, fds |-> 0],
             [args |-> <<FdArg, Plain, FdArg>>, fds |-> 2],
             [args |-> <<Plain>>, fds |-> 1],             \* descriptors it does not describe
             [args |-> <<Unknown, FdArg>>, fds |-> 1]}

MCJunk == {<<>>, <<Magic[1]>>}

=============================================================================
