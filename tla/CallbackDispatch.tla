--------------------------- MODULE CallbackDispatch ---------------------------
(***************************************************************************)
(* What RubyQueue promises to the SimpleBLE callbacks and to the program   *)
(* that shuts RuBLE down, with no threads, locks or semaphores in sight:   *)
(*   - an accepted callback is run at most once;                           *)
(*   - callbacks are run one at a time;                                    *)
(*   - a callback is only claimed for running while the dispatcher is open *)
(*     and there is one to run, so that after Close at most the callback   *)
(*     already claimed is still begun.                                     *)
(* The order in which pending callbacks are begun is left open, and so is  *)
(* whether a callback accepted after Close is kept or refused.             *)
(***************************************************************************)
CONSTANTS Events, NoEvent

VARIABLES
    pending,    \* the callbacks accepted and not yet begun
    current,    \* the callback being run, or NoEvent
    claimed,    \* the dispatcher has committed itself to begin one more
    open        \* nobody has asked the dispatcher to stop

dvars == <<pending, current, claimed, open>>

DInit ==
    /\ pending = {}
    /\ current = NoEvent
    /\ claimed = FALSE
    /\ open = TRUE

(* A callback is handed to the dispatcher. *)
Accept(e) ==
    /\ e \notin pending
    /\ e # current
    /\ pending' = pending \cup {e}
    /\ UNCHANGED <<current, claimed, open>>

(* The dispatcher, idle and open, commits to running one more callback. *)
Claim ==
    /\ open
    /\ ~claimed
    /\ current = NoEvent
    /\ pending # {}
    /\ claimed' = TRUE
    /\ UNCHANGED <<pending, current, open>>

(* One pending callback, whichever, begins. *)
Begin(e) ==
    /\ claimed
    /\ e \in pending
    /\ pending' = pending \ {e}
    /\ current' = e
    /\ claimed' = FALSE
    /\ UNCHANGED open

End ==
    /\ current # NoEvent
    /\ current' = NoEvent
    /\ UNCHANGED <<pending, claimed, open>>

Close ==
    /\ open
    /\ open' = FALSE
    /\ UNCHANGED <<pending, current, claimed>>

DNext ==
    \/ \E e \in Events : Accept(e) \/ Begin(e)
    \/ Claim
    \/ End
    \/ Close

DSpec == DInit /\ [][DNext]_dvars
===============================================================================
