--------------------------- MODULE MCMutationQueue ---------------------------
(* Small instances of MutationQueue: nothing goes wrong, or commands are refused, or
   whatever may go wrong does, with fewer changes. *)
EXTENDS MutationQueue

MCSettings ==
    {<<{}, 3>>, <<{"refuse"}, 3>>, <<{"refuse", "network", "select", "storage", "restart"}, 2>>}
=============================================================================
