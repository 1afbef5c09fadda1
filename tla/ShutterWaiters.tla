---------------------------- MODULE ShutterWaiters ----------------------------
(***************************************************************************)
(* wait_for_shutter_event and _dispatch_shutter_event (api/client.py):     *)
(* tasks wait for a notification that mentions their shutter, and the read *)
(* loop wakes all that wait for one.                                       *)
(***************************************************************************)

CONSTANTS
    Waiters,
    Shutters,
    ShutterOf      \* the shutter each waiter waits for

ASSUME WaitedShutterAssumption == ShutterOf \in [Waiters -> Shutters]

VARIABLES
    wait,          \* each waiter: its future and where the task is
    listed         \* _shutter_waiters: an absent key is an empty list

waiterVars == <<wait, listed>>

\* "woken": the future has its result, the task has not resumed;
\* "expired": the future is cancelled, the clean-up is still to come.
Waits == {"idle", "waiting", "woken", "expired", "returned", "offline"}

WaiterTypeOK ==
    /\ wait \in [Waiters -> Waits]
    /\ listed \in [Shutters -> SUBSET Waiters]

WaiterInit ==
    /\ wait = [w \in Waiters |-> "idle"]
    /\ listed = [x \in Shutters |-> {}]

-----------------------------------------------------------------------------
WaitForEvent(w) ==
    /\ wait[w] = "idle"
    /\ wait' = [wait EXCEPT ![w] = "waiting"]
    /\ listed' = [listed EXCEPT ![ShutterOf[w]] = @ \union {w}]

\* A notification mentions some shutters: their lists are popped whole, and
\* the futures that are not done get their result.
Dispatch(mentioned) ==
    /\ listed' = [x \in Shutters |-> IF x \in mentioned THEN {} ELSE listed[x]]
    /\ wait' = [w \in Waiters |->
                   IF wait[w] = "waiting" /\ \E x \in mentioned : w \in listed[x]
                   THEN "woken"
                   ELSE wait[w]]

WaitReturns(w) ==
    /\ wait[w] = "woken"
    /\ wait' = [wait EXCEPT ![w] = "returned"]
    /\ UNCHANGED listed

\* The deadline of wait_for.  When it comes before the woken task has resumed,
\* the result is lost and the task sees TimeoutError all the same.
WaitExpires(w) ==
    /\ wait[w] \in {"waiting", "woken"}
    /\ wait' = [wait EXCEPT ![w] = "expired"]
    /\ UNCHANGED listed

\* Seeded fault: the clean-up removes the key with everybody's futures.
CleanUpAll(w) ==
    /\ wait[w] = "expired"
    /\ wait' = [wait EXCEPT ![w] = "offline"]
    /\ listed' = [listed EXCEPT ![ShutterOf[w]] = {}]

\* except TimeoutError: the entry may be gone, or others may be listed by now.
CleanUp(w) ==
    /\ wait[w] = "expired"
    /\ wait' = [wait EXCEPT ![w] = "offline"]
    /\ listed' = [listed EXCEPT ![ShutterOf[w]] = @ \ {w}]

WaiterStep(w) == WaitReturns(w) \/ WaitExpires(w) \/ CleanUp(w)

-----------------------------------------------------------------------------
\* Whoever still waits is listed under its shutter, so that an event finds it;
\* and nobody stays listed after its task has gone on, whatever the order of
\* deadline, event and clean-up.
WaitersListed ==
    /\ \A w \in Waiters : wait[w] = "waiting" => w \in listed[ShutterOf[w]]
    /\ \A x \in Shutters : \A w \in listed[x] :
           ShutterOf[w] = x /\ wait[w] \in {"waiting", "expired"}
=============================================================================
