--------------------------- MODULE ClientLifecycle ---------------------------
(***************************************************************************)
(* Who opens, shares, drops and closes the cloud connection of a           *)
(* FinderYouCoordinator (coordinator.py): _ensure_client, _drop_client,    *)
(* _run_or_reconnect, the error path of _async_update_data, and            *)
(* async_shutdown with the unload of the config entry (__init__.py).       *)
(*                                                                         *)
(* Every task does one job: an update, a call of a command or of its       *)
(* verification, or a bare drop as _send_command does before a retry.  The *)
(* methods are written check-then-await, so the steps below run from one   *)
(* await to the next; _client_lock exists and no method takes it.          *)
(***************************************************************************)
EXTENDS TokenCache, FiniteSets

CONSTANT MaxClients     \* bound: the connections of one history

ASSUME MaxClientsAssumption == MaxClients \in Nat

VARIABLES
    job,         \* what each task was started for
    pc,          \* where it is suspended
    second,      \* it is in the except branch of _run_or_reconnect
    using,       \* its local variable client, or the client it is closing
    failedOn,    \* the client its first try failed on (auxiliary)
    conn,        \* what became of each connection
    opened,      \* how many connections there have been
    current,     \* _client: a connection, or NoClient
    unload,      \* the progress of async_shutdown
    overlapped   \* two activities have been under way at once (auxiliary)

taskVars   == <<job, pc, second, using, failedOn>>
clientVars == <<conn, opened, current>>
vars       == <<taskVars, clientVars, unload, overlapped, tokenVars>>

Clients  == 1 .. MaxClients
NoClient == 0

Jobs == {"update", "call", "drop"}
Ended == {"done", "raised"}
Places == {"idle", "authorizing", "handshaking", "abandoning", "calling",
           "dropping", "forgetting"} \union Ended

TypeOK ==
    /\ TokenTypeOK
    /\ job \in [Tasks -> Jobs]
    /\ pc \in [Tasks -> Places]
    /\ second \in [Tasks -> BOOLEAN]
    /\ using \in [Tasks -> Clients \union {NoClient}]
    /\ failedOn \in [Tasks -> Clients \union {NoClient}]
    /\ conn \in [Clients -> {"unopened", "handshaking", "live", "dead", "closed"}]
    /\ opened \in 0 .. MaxClients
    /\ current \in Clients \union {NoClient}
    /\ unload \in {"no", "closing", "done"}
    /\ overlapped \in BOOLEAN

Init ==
    /\ TokenInit
    /\ job \in [Tasks -> Jobs]
    /\ pc = [t \in Tasks |-> "idle"]
    /\ second = [t \in Tasks |-> FALSE]
    /\ using = [t \in Tasks |-> NoClient]
    /\ failedOn = [t \in Tasks |-> NoClient]
    /\ conn = [k \in Clients |-> "unopened"]
    /\ opened = 0
    /\ current = NoClient
    /\ unload = "no"
    /\ overlapped = FALSE

-----------------------------------------------------------------------------
Goto(t, place) == pc' = [pc EXCEPT ![t] = place]

Busy == {t \in Tasks : pc[t] \notin {"idle"} \union Ended}

\* The synchronous part of close(): the tasks are cancelled, the socket is shut.
Close(k) == conn' = [conn EXCEPT ![k] = "closed"]

\* _ensure_client up to its first await, when it finds the client cached ...
UseCached(t) ==
    /\ current # NoClient
    /\ using' = [using EXCEPT ![t] = current]
    /\ Goto(t, "calling")
    /\ UNCHANGED tokenVars

\* ... and when it has to open one.
GetToken(t) ==
    /\ EnsureToken(t)
    /\ Goto(t, "authorizing")
    /\ using' = [using EXCEPT ![t] = NoClient]

\* Seeded fault: the retry is not counted as one.
FirstTryFailsUncounted(t) ==
    /\ ~second[t]
    /\ UNCHANGED second
    /\ failedOn' = [failedOn EXCEPT ![t] = using[t]]
    /\ \/ /\ current # NoClient
          /\ Close(current)
          /\ Goto(t, "dropping")
          /\ UNCHANGED <<using, tokenVars>>
       \/ /\ current = NoClient
          /\ GetToken(t)
          /\ UNCHANGED conn

\* An exception reaches the try of _run_or_reconnect: _drop_client, which only
\* waits when there is a client, then _ensure_client again.
FirstTryFails(t) ==
    /\ ~second[t]
    /\ second' = [second EXCEPT ![t] = TRUE]
    /\ failedOn' = [failedOn EXCEPT ![t] = using[t]]
    /\ \/ /\ current # NoClient
          /\ Close(current)
          /\ Goto(t, "dropping")
          /\ UNCHANGED <<using, tokenVars>>
       \/ /\ current = NoClient
          /\ GetToken(t)
          /\ UNCHANGED conn

\* Seeded fault: the client of a failed update is forgotten but not closed.
SecondTryFailsUnclosed(t) ==
    /\ second[t]
    /\ \/ job[t] = "update" /\ current # NoClient /\ Goto(t, "forgetting")
       \/ Goto(t, "raised")
    /\ UNCHANGED <<conn, second, failedOn, using, tokenVars>>

\* An exception leaves _run_or_reconnect.  An update drops the client for the
\* errors it knows, the other callers do not.
SecondTryFails(t) ==
    /\ second[t]
    /\ \/ /\ job[t] = "update" /\ current # NoClient
          /\ Close(current)
          /\ Goto(t, "forgetting")
       \/ /\ Goto(t, "raised")
          /\ UNCHANGED conn
    /\ UNCHANGED <<second, failedOn, using, tokenVars>>

TryFails(t) == FirstTryFails(t) \/ SecondTryFails(t)

-----------------------------------------------------------------------------
(* _run_or_reconnect.                                                      *)

Begin(t) ==
    /\ pc[t] = "idle"
    /\ unload = "no"
    /\ overlapped' = (overlapped \/ Busy # {})
    /\ \/ /\ job[t] # "drop"
          /\ UseCached(t) \/ (current = NoClient /\ GetToken(t))
          /\ UNCHANGED conn
       \/ /\ job[t] = "drop"
          /\ current # NoClient
          /\ Close(current)
          /\ Goto(t, "forgetting")
          /\ UNCHANGED <<using, tokenVars>>
       \/ /\ job[t] = "drop"
          /\ current = NoClient
          /\ Goto(t, "done")
          /\ UNCHANGED <<using, conn, tokenVars>>
    /\ UNCHANGED <<job, second, failedOn, opened, current, unload>>

\* Seeded fault: the client is published before its handshake.
ConnectPublishing(t) ==
    /\ pc[t] = "authorizing" /\ auth[t] = "held"
    /\ opened < MaxClients
    /\ opened' = opened + 1
    /\ current' = opened + 1
    /\ conn' = [conn EXCEPT ![opened + 1] = "handshaking"]
    /\ using' = [using EXCEPT ![t] = opened + 1]
    /\ Goto(t, "handshaking")
    /\ UNCHANGED <<job, second, failedOn, unload, overlapped, tokenVars>>

\* FinderHomeClient.connect returns and the handshake starts.
Connect(t) ==
    /\ pc[t] = "authorizing" /\ auth[t] = "held"
    /\ opened < MaxClients
    /\ opened' = opened + 1
    /\ conn' = [conn EXCEPT ![opened + 1] = "handshaking"]
    /\ using' = [using EXCEPT ![t] = opened + 1]
    /\ Goto(t, "handshaking")
    /\ UNCHANGED <<job, second, failedOn, current, unload, overlapped, tokenVars>>

\* The token or the connection cannot be had: there is no client to close.
ConnectFails(t) ==
    /\ pc[t] = "authorizing" /\ auth[t] \in {"held", "raised"}
    /\ TryFails(t)
    /\ UNCHANGED <<job, opened, current, unload, overlapped>>

\* Only now the client is published, over whatever was there.
HandshakeDone(t) ==
    /\ pc[t] = "handshaking"
    /\ conn' = [conn EXCEPT ![using[t]] = "live"]
    /\ current' = using[t]
    /\ Goto(t, "calling")
    /\ UNCHANGED <<job, second, failedOn, using, opened, unload, overlapped, tokenVars>>

\* The except branch of _ensure_client closes the half-open client.
HandshakeFails(t) ==
    /\ pc[t] = "handshaking"
    /\ Close(using[t])
    /\ Goto(t, "abandoning")
    /\ UNCHANGED <<job, second, failedOn, using, opened, current, unload,
                   overlapped, tokenVars>>

AbandonDone(t) ==
    /\ pc[t] = "abandoning"
    /\ TryFails(t)
    /\ UNCHANGED <<job, opened, current, unload, overlapped>>

CallReturns(t) ==
    /\ pc[t] = "calling"
    /\ conn[using[t]] = "live"
    /\ Goto(t, "done")
    /\ UNCHANGED <<job, second, failedOn, using, clientVars, unload, overlapped, tokenVars>>

\* An error response, a closed connection or the timeout of wait_for.
CallFails(t) ==
    /\ pc[t] = "calling"
    /\ TryFails(t)
    /\ UNCHANGED <<job, opened, current, unload, overlapped>>

\* Seeded fault: the dropped client stays cached.
DropDoneRemembering(t) ==
    /\ pc[t] = "dropping"
    /\ GetToken(t)
    /\ UNCHANGED <<job, second, failedOn, conn, opened, current, unload, overlapped>>

\* The close() of _drop_client returns; what _client holds by now is forgotten,
\* and the second try opens a client.
DropDone(t) ==
    /\ pc[t] = "dropping"
    /\ current' = NoClient
    /\ GetToken(t)
    /\ UNCHANGED <<job, second, failedOn, conn, opened, unload, overlapped>>

\* Seeded fault: the closed client stays cached.
ForgetDoneRemembering(t) ==
    /\ pc[t] = "forgetting"
    /\ Goto(t, IF job[t] = "update" THEN "raised" ELSE "done")
    /\ UNCHANGED <<job, second, failedOn, using, clientVars, unload, overlapped, tokenVars>>

\* The same for a drop that nothing follows.
ForgetDone(t) ==
    /\ pc[t] = "forgetting"
    /\ current' = NoClient
    /\ Goto(t, IF job[t] = "update" THEN "raised" ELSE "done")
    /\ UNCHANGED <<job, second, failedOn, using, conn, opened, unload, overlapped, tokenVars>>

-----------------------------------------------------------------------------
(* async_unload_entry once the platforms are unloaded: async_shutdown.     *)

BeginUnload ==
    /\ unload = "no"
    /\ overlapped' = (overlapped \/ Busy # {})
    /\ \/ /\ current # NoClient
          /\ Close(current)
          /\ unload' = "closing"
       \/ /\ current = NoClient
          /\ unload' = "done"
          /\ UNCHANGED conn
    /\ UNCHANGED <<taskVars, opened, current, tokenVars>>

UnloadDone ==
    /\ unload = "closing"
    /\ current' = NoClient
    /\ unload' = "done"
    /\ UNCHANGED <<taskVars, conn, opened, overlapped, tokenVars>>

\* GOAWAY, a reset or the end of the stream: the read loop ends, nobody is told.
ConnectionDies(k) ==
    /\ conn[k] = "live"
    /\ conn' = [conn EXCEPT ![k] = "dead"]
    /\ UNCHANGED <<taskVars, opened, current, unload, overlapped, tokenVars>>

-----------------------------------------------------------------------------
Authorize(t) ==
    /\ pc[t] = "authorizing"
    /\ TokenStep(t)
    /\ UNCHANGED <<taskVars, clientVars, unload, overlapped>>

Step(t) ==
    \/ Authorize(t)
    \/ Connect(t)
    \/ ConnectFails(t)
    \/ HandshakeDone(t)
    \/ HandshakeFails(t)
    \/ AbandonDone(t)
    \/ CallReturns(t)
    \/ CallFails(t)
    \/ DropDone(t)
    \/ ForgetDone(t)

Environment ==
    \/ \E k \in Clients : ConnectionDies(k)
    \/ TimePasses /\ UNCHANGED <<taskVars, clientVars, unload, overlapped>>

Next ==
    \/ \E t \in Tasks : Begin(t) \/ Step(t)
    \/ BeginUnload
    \/ UnloadDone
    \/ Environment

Spec == Init /\ [][Next]_vars

\* Every await ends: requests time out or fail, and closing does not hang.
FairSpec == Spec /\ (\A t \in Tasks : WF_vars(Step(t))) /\ WF_vars(UnloadDone)

-----------------------------------------------------------------------------
(* Properties.                                                             *)

\* No call is made on a connection that has not finished the handshake, also
\* when another task opened it.
HandshakenFirst ==
    \A t \in Tasks : pc[t] = "calling" => conn[using[t]] \in {"live", "dead", "closed"}

\* A closed client stays in _client only while the task that closed it has not
\* yet resumed to forget it: no later call finds a closed client cached for good.
ClosedIsBeingForgotten ==
    current # NoClient /\ conn[current] = "closed" =>
        unload = "closing" \/ \E t \in Tasks : pc[t] \in {"dropping", "forgetting"}

\* The client a call failed on is not in _client any more once the caller has
\* come back from dropping it, and the second try runs on another connection.
FailedClientForgotten ==
    \A t \in Tasks :
        failedOn[t] # NoClient /\ pc[t] # "dropping" =>
            current # failedOn[t] /\ (pc[t] = "calling" => using[t] # failedOn[t])

\* As long as no two activities overlap, every open connection is the cached
\* one, and none is left once the entry is unloaded.
NoOrphanAlone ==
    ~overlapped =>
        /\ \A k \in Clients : conn[k] = "live" => current = k
        /\ unload = "done" => \A k \in Clients : conn[k] \notin {"live", "handshaking"}

\* Every open connection is the cached one.
NoOrphan == \A k \in Clients : conn[k] = "live" => current = k

\* Once async_shutdown has returned and everything has come to rest, no
\* connection is left open.
ShutdownLeavesNothingOpen ==
    unload = "done" /\ Busy = {} => \A k \in Clients : conn[k] # "live"

\* A task that leaves _ensure_token has a token, whatever the other tasks did
\* to it meanwhile: the assertion of _ensure_client cannot fail.
LeavesWith(t) ==
    /\ pc'[t] = "authorizing" /\ auth'[t] = "held"
    /\ pc'[t] # pc[t] \/ auth'[t] # auth[t] \/ second'[t] # second[t]

ReturnsWithToken == [][\A t \in Tasks : LeavesWith(t) => token' # "none"]_vars

\* A token that can be refreshed is renewed before it expires: no connection is
\* opened with one that the server no longer accepts.
RefreshableRenewedInTime ==
    [][\A t \in Tasks : LeavesWith(t) /\ token' = "refreshable" => age' < Lifetime]_vars

\* The same for every token.
TokenRenewedInTime == [][\A t \in Tasks : LeavesWith(t) => age' < Lifetime]_vars

\* Every call returns or raises.
EveryTaskEnds == \A t \in Tasks : (t \in Busy) ~> (pc[t] \in Ended)
=============================================================================
