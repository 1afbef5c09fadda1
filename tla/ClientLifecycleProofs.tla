------------------------- MODULE ClientLifecycleProofs -------------------------
(***************************************************************************)
(* What holds of ClientLifecycle for any number of tasks and connections,  *)
(* any lifetime of a token and any margin.                                 *)
(***************************************************************************)
EXTENDS ClientLifecycle, TLAPS

\* A connection that has been through its handshake.
Established == {"live", "dead", "closed"}

\* Connections are numbered in the order in which they are opened.
Numbered == \A k \in Clients : k > opened => conn[k] = "unopened"

\* Only connections that have been through the handshake are published.
CurrentEstablished == current # NoClient => conn[current] \in Established

\* What a task knows of the connection it has in hand.
InHand ==
    \A t \in Tasks :
        /\ pc[t] = "authorizing" => using[t] = NoClient
        /\ pc[t] = "handshaking" => using[t] # NoClient /\ conn[using[t]] = "handshaking"
        /\ pc[t] = "abandoning" => using[t] # NoClient /\ conn[using[t]] = "closed"
        /\ pc[t] = "calling" => using[t] # NoClient /\ conn[using[t]] \in Established

\* A handshake belongs to one task.
OwnHandshake ==
    \A t, d \in Tasks :
        pc[t] = "handshaking" /\ pc[d] = "handshaking" /\ using[t] = using[d] => t = d

\* What a task knows of the connection its first try failed on.
FailedEstablished ==
    \A t \in Tasks :
        /\ pc[t] = "idle" => ~second[t]
        /\ ~second[t] => failedOn[t] = NoClient
        /\ failedOn[t] # NoClient => conn[failedOn[t]] \in Established

Inv ==
    /\ TypeOK
    /\ Numbered
    /\ CurrentEstablished
    /\ InHand
    /\ OwnHandshake
    /\ FailedEstablished

-----------------------------------------------------------------------------
\* The state predicates hold initially.
LEMMA InitInv == Init => Inv
<1> SUFFICES ASSUME Init PROVE Inv
  OBVIOUS
<1> USE LifetimeAssumption, MaxClientsAssumption
<1>1. TypeOK
  <2>1. TokenTypeOK
    BY DEF Init, TokenInit, TokenTypeOK
  <2>2. opened \in 0 .. MaxClients
    BY DEF Init
  <2> QED
    BY <2>1, <2>2 DEF Init, TypeOK, Places
<1>2. Numbered /\ CurrentEstablished
  BY DEF Init, Numbered, CurrentEstablished, Clients, NoClient
<1>3. InHand /\ OwnHandshake /\ FailedEstablished
  BY DEF Init, InHand, OwnHandshake, FailedEstablished
<1> QED
  BY <1>1, <1>2, <1>3 DEF Inv

\* What a step can do to the token.
TokenMove ==
    \/ UNCHANGED tokenVars
    \/ \E t \in Tasks : EnsureToken(t)
    \/ \E t \in Tasks : TokenStep(t)
    \/ TimePasses

\* Every step moves the token in one of these ways.
LEMMA NextMovesToken ==
    ASSUME [Next]_vars
    PROVE  TokenMove
<1>1. CASE UNCHANGED vars
  BY <1>1 DEF TokenMove, vars
<1>2. ASSUME NEW t \in Tasks, Begin(t)
      PROVE  TokenMove
  BY <1>2 DEF TokenMove, Begin, UseCached, GetToken
<1>3. ASSUME NEW t \in Tasks, Authorize(t)
      PROVE  TokenMove
  BY <1>3 DEF TokenMove, Authorize
<1>4. ASSUME NEW t \in Tasks, Connect(t)
      PROVE  TokenMove
  BY <1>4 DEF TokenMove, Connect
<1>5. ASSUME NEW t \in Tasks, ConnectFails(t)
      PROVE  TokenMove
  BY <1>5
  DEF TokenMove, ConnectFails, TryFails, FirstTryFails, SecondTryFails, GetToken
<1>6. ASSUME NEW t \in Tasks, HandshakeDone(t)
      PROVE  TokenMove
  BY <1>6 DEF TokenMove, HandshakeDone
<1>7. ASSUME NEW t \in Tasks, HandshakeFails(t)
      PROVE  TokenMove
  BY <1>7 DEF TokenMove, HandshakeFails
<1>8. ASSUME NEW t \in Tasks, AbandonDone(t)
      PROVE  TokenMove
  BY <1>8
  DEF TokenMove, AbandonDone, TryFails, FirstTryFails, SecondTryFails, GetToken
<1>9. ASSUME NEW t \in Tasks, CallReturns(t)
      PROVE  TokenMove
  BY <1>9 DEF TokenMove, CallReturns
<1>10. ASSUME NEW t \in Tasks, CallFails(t)
      PROVE  TokenMove
  BY <1>10 DEF TokenMove, CallFails, TryFails, FirstTryFails, SecondTryFails, GetToken
<1>11. ASSUME NEW t \in Tasks, DropDone(t)
      PROVE  TokenMove
  BY <1>11 DEF TokenMove, DropDone, GetToken
<1>12. ASSUME NEW t \in Tasks, ForgetDone(t)
      PROVE  TokenMove
  BY <1>12 DEF TokenMove, ForgetDone
<1>13. CASE BeginUnload
  BY <1>13 DEF TokenMove, BeginUnload
<1>14. CASE UnloadDone
  BY <1>14 DEF TokenMove, UnloadDone
<1>15. ASSUME NEW k \in Clients, ConnectionDies(k)
      PROVE  TokenMove
  BY <1>15 DEF TokenMove, ConnectionDies
<1>16. CASE TimePasses
  BY <1>16 DEF TokenMove
<1> QED
  BY <1>1, <1>2, <1>3, <1>4, <1>5, <1>6, <1>7, <1>8, <1>9, <1>10, <1>11, <1>12,
      <1>13, <1>14, <1>15, <1>16
  DEF Next, Step, Environment

\* Every step keeps the types of the token.
LEMMA NextTokenType ==
    ASSUME TokenTypeOK, [Next]_vars
    PROVE  TokenTypeOK'
<1> USE LifetimeAssumption DEF TokenTypeOK
<1>1. CASE UNCHANGED tokenVars
  BY <1>1 DEF tokenVars
<1>2. ASSUME NEW t \in Tasks, EnsureToken(t)
      PROVE  TokenTypeOK'
  BY <1>2 DEF EnsureToken
<1>3. ASSUME NEW t \in Tasks, NEW kind \in Grants, TokenGranted(t, kind)
      PROVE  TokenTypeOK'
  BY <1>3, GrantsAssumption DEF TokenGranted
<1>4. ASSUME NEW t \in Tasks, RefreshRejected(t)
      PROVE  TokenTypeOK'
  BY <1>4 DEF RefreshRejected
<1>5. ASSUME NEW t \in Tasks, TokenError(t)
      PROVE  TokenTypeOK'
  BY <1>5 DEF TokenError
<1>6. CASE TimePasses
  BY <1>6 DEF TimePasses
<1> QED
  BY <1>1, <1>2, <1>3, <1>4, <1>5, <1>6, NextMovesToken DEF TokenMove, TokenStep

\* The types of everything but the token.
OwnTypeOK ==
    /\ job \in [Tasks -> Jobs]
    /\ pc \in [Tasks -> Places]
    /\ second \in [Tasks -> BOOLEAN]
    /\ using \in [Tasks -> Clients \union {NoClient}]
    /\ failedOn \in [Tasks -> Clients \union {NoClient}]
    /\ conn \in [Clients -> {"unopened", "handshaking", "live", "dead", "closed"}]
    /\ opened \in 0 .. MaxClients
    /\ current \in Clients \union {NoClient}
    /\ unload \in {"no", "closing", "done"}
    /\ overlapped \in BOOLEAN

\* Every step keeps them.
LEMMA NextOwnType ==
    ASSUME OwnTypeOK, [Next]_vars
    PROVE  OwnTypeOK'
<1> USE MaxClientsAssumption DEF OwnTypeOK, Places, Ended, Clients, NoClient
<1>1. CASE UNCHANGED vars
  BY <1>1 DEF vars, taskVars, clientVars
<1>2. ASSUME NEW t \in Tasks, Begin(t)
      PROVE  OwnTypeOK'
  BY <1>2 DEF Begin, UseCached, GetToken, Goto, Close
<1>3. ASSUME NEW t \in Tasks, Authorize(t)
      PROVE  OwnTypeOK'
  BY <1>3 DEF Authorize, taskVars, clientVars
<1>4. ASSUME NEW t \in Tasks, Connect(t)
      PROVE  OwnTypeOK'
  BY <1>4 DEF Connect, Goto
<1>5. ASSUME NEW t \in Tasks, ConnectFails(t)
      PROVE  OwnTypeOK'
  BY <1>5
  DEF ConnectFails, TryFails, FirstTryFails, SecondTryFails, GetToken, Goto, Close
<1>6. ASSUME NEW t \in Tasks, HandshakeDone(t)
      PROVE  OwnTypeOK'
  BY <1>6 DEF HandshakeDone, Goto
<1>7. ASSUME NEW t \in Tasks, HandshakeFails(t)
      PROVE  OwnTypeOK'
  BY <1>7 DEF HandshakeFails, Goto, Close
<1>8. ASSUME NEW t \in Tasks, AbandonDone(t)
      PROVE  OwnTypeOK'
  BY <1>8
  DEF AbandonDone, TryFails, FirstTryFails, SecondTryFails, GetToken, Goto, Close
<1>9. ASSUME NEW t \in Tasks, CallReturns(t)
      PROVE  OwnTypeOK'
  BY <1>9 DEF CallReturns, Goto, clientVars
<1>10. ASSUME NEW t \in Tasks, CallFails(t)
      PROVE  OwnTypeOK'
  BY <1>10
  DEF CallFails, TryFails, FirstTryFails, SecondTryFails, GetToken, Goto, Close
<1>11. ASSUME NEW t \in Tasks, DropDone(t)
      PROVE  OwnTypeOK'
  BY <1>11 DEF DropDone, GetToken, Goto
<1>12. ASSUME NEW t \in Tasks, ForgetDone(t)
      PROVE  OwnTypeOK'
  BY <1>12 DEF ForgetDone, Goto
<1>13. CASE BeginUnload
  BY <1>13 DEF BeginUnload, Close, taskVars
<1>14. CASE UnloadDone
  BY <1>14 DEF UnloadDone, taskVars
<1>15. ASSUME NEW k \in Clients, ConnectionDies(k)
      PROVE  OwnTypeOK'
  BY <1>15 DEF ConnectionDies, taskVars
<1>16. CASE TimePasses /\ UNCHANGED <<taskVars, clientVars, unload, overlapped>>
  BY <1>16 DEF taskVars, clientVars
<1> QED
  BY <1>1, <1>2, <1>3, <1>4, <1>5, <1>6, <1>7, <1>8, <1>9, <1>10, <1>11, <1>12,
      <1>13, <1>14, <1>15, <1>16
  DEF Next, Step, Environment

\* Every step keeps the connections numbered.
LEMMA NextNumbered ==
    ASSUME Inv, [Next]_vars
    PROVE  Numbered'
<1> USE MaxClientsAssumption
  DEF Inv, TypeOK, Numbered, CurrentEstablished, InHand, Established, Clients,
    NoClient
<1>1. CASE UNCHANGED vars
  BY <1>1 DEF vars, taskVars, clientVars
<1>2. ASSUME NEW t \in Tasks, Begin(t)
      PROVE  Numbered'
  BY <1>2 DEF Begin, UseCached, GetToken, Goto, Close
<1>3. ASSUME NEW t \in Tasks, Authorize(t)
      PROVE  Numbered'
  BY <1>3 DEF Authorize, taskVars, clientVars
<1>4. ASSUME NEW t \in Tasks, Connect(t)
      PROVE  Numbered'
  BY <1>4 DEF Connect, Goto
<1>5. ASSUME NEW t \in Tasks, ConnectFails(t)
      PROVE  Numbered'
  BY <1>5
  DEF ConnectFails, TryFails, FirstTryFails, SecondTryFails, GetToken, Goto, Close
<1>6. ASSUME NEW t \in Tasks, HandshakeDone(t)
      PROVE  Numbered'
  BY <1>6 DEF HandshakeDone, Goto
<1>7. ASSUME NEW t \in Tasks, HandshakeFails(t)
      PROVE  Numbered'
  BY <1>7 DEF HandshakeFails, Goto, Close
<1>8. ASSUME NEW t \in Tasks, AbandonDone(t)
      PROVE  Numbered'
  BY <1>8
  DEF AbandonDone, TryFails, FirstTryFails, SecondTryFails, GetToken, Goto, Close
<1>9. ASSUME NEW t \in Tasks, CallReturns(t)
      PROVE  Numbered'
  BY <1>9 DEF CallReturns, Goto, clientVars
<1>10. ASSUME NEW t \in Tasks, CallFails(t)
      PROVE  Numbered'
  BY <1>10
  DEF CallFails, TryFails, FirstTryFails, SecondTryFails, GetToken, Goto, Close
<1>11. ASSUME NEW t \in Tasks, DropDone(t)
      PROVE  Numbered'
  BY <1>11 DEF DropDone, GetToken, Goto
<1>12. ASSUME NEW t \in Tasks, ForgetDone(t)
      PROVE  Numbered'
  BY <1>12 DEF ForgetDone, Goto
<1>13. CASE BeginUnload
  BY <1>13 DEF BeginUnload, Close, taskVars
<1>14. CASE UnloadDone
  BY <1>14 DEF UnloadDone, taskVars
<1>15. ASSUME NEW k \in Clients, ConnectionDies(k)
      PROVE  Numbered'
  BY <1>15 DEF ConnectionDies, taskVars
<1>16. CASE TimePasses /\ UNCHANGED <<taskVars, clientVars, unload, overlapped>>
  BY <1>16 DEF taskVars, clientVars
<1> QED
  BY <1>1, <1>2, <1>3, <1>4, <1>5, <1>6, <1>7, <1>8, <1>9, <1>10, <1>11, <1>12,
      <1>13, <1>14, <1>15, <1>16
  DEF Next, Step, Environment

\* Every step publishes only connections that have been through the handshake.
LEMMA NextCurrent ==
    ASSUME Inv, [Next]_vars
    PROVE  CurrentEstablished'
<1> USE MaxClientsAssumption
  DEF Inv, TypeOK, Numbered, CurrentEstablished, InHand, Established, Clients,
    NoClient
<1>1. CASE UNCHANGED vars
  BY <1>1 DEF vars, taskVars, clientVars
<1>2. ASSUME NEW t \in Tasks, Begin(t)
      PROVE  CurrentEstablished'
  BY <1>2 DEF Begin, UseCached, GetToken, Goto, Close
<1>3. ASSUME NEW t \in Tasks, Authorize(t)
      PROVE  CurrentEstablished'
  BY <1>3 DEF Authorize, taskVars, clientVars
<1>4. ASSUME NEW t \in Tasks, Connect(t)
      PROVE  CurrentEstablished'
  BY <1>4 DEF Connect, Goto
<1>5. ASSUME NEW t \in Tasks, ConnectFails(t)
      PROVE  CurrentEstablished'
  BY <1>5
  DEF ConnectFails, TryFails, FirstTryFails, SecondTryFails, GetToken, Goto, Close
<1>6. ASSUME NEW t \in Tasks, HandshakeDone(t)
      PROVE  CurrentEstablished'
  BY <1>6 DEF HandshakeDone, Goto
<1>7. ASSUME NEW t \in Tasks, HandshakeFails(t)
      PROVE  CurrentEstablished'
  BY <1>7 DEF HandshakeFails, Goto, Close
<1>8. ASSUME NEW t \in Tasks, AbandonDone(t)
      PROVE  CurrentEstablished'
  BY <1>8
  DEF AbandonDone, TryFails, FirstTryFails, SecondTryFails, GetToken, Goto, Close
<1>9. ASSUME NEW t \in Tasks, CallReturns(t)
      PROVE  CurrentEstablished'
  BY <1>9 DEF CallReturns, Goto, clientVars
<1>10. ASSUME NEW t \in Tasks, CallFails(t)
      PROVE  CurrentEstablished'
  BY <1>10
  DEF CallFails, TryFails, FirstTryFails, SecondTryFails, GetToken, Goto, Close
<1>11. ASSUME NEW t \in Tasks, DropDone(t)
      PROVE  CurrentEstablished'
  BY <1>11 DEF DropDone, GetToken, Goto
<1>12. ASSUME NEW t \in Tasks, ForgetDone(t)
      PROVE  CurrentEstablished'
  BY <1>12 DEF ForgetDone, Goto
<1>13. CASE BeginUnload
  BY <1>13 DEF BeginUnload, Close, taskVars
<1>14. CASE UnloadDone
  BY <1>14 DEF UnloadDone, taskVars
<1>15. ASSUME NEW k \in Clients, ConnectionDies(k)
      PROVE  CurrentEstablished'
  BY <1>15 DEF ConnectionDies, taskVars
<1>16. CASE TimePasses /\ UNCHANGED <<taskVars, clientVars, unload, overlapped>>
  BY <1>16 DEF taskVars, clientVars
<1> QED
  BY <1>1, <1>2, <1>3, <1>4, <1>5, <1>6, <1>7, <1>8, <1>9, <1>10, <1>11, <1>12,
      <1>13, <1>14, <1>15, <1>16
  DEF Next, Step, Environment

\* Every step keeps what the tasks know of the connections in their hands.
LEMMA NextInHand ==
    ASSUME Inv, [Next]_vars
    PROVE  InHand'
<1> USE MaxClientsAssumption
  DEF Inv, TypeOK, Numbered, CurrentEstablished, InHand, Established, Clients,
    NoClient, OwnHandshake
<1>1. CASE UNCHANGED vars
  BY <1>1 DEF vars, taskVars, clientVars
<1>2. ASSUME NEW t \in Tasks, Begin(t)
      PROVE  InHand'
  BY <1>2 DEF Begin, UseCached, GetToken, Goto, Close
<1>3. ASSUME NEW t \in Tasks, Authorize(t)
      PROVE  InHand'
  BY <1>3 DEF Authorize, taskVars, clientVars
<1>4. ASSUME NEW t \in Tasks, Connect(t)
      PROVE  InHand'
  BY <1>4 DEF Connect, Goto
<1>5. ASSUME NEW t \in Tasks, ConnectFails(t)
      PROVE  InHand'
  BY <1>5
  DEF ConnectFails, TryFails, FirstTryFails, SecondTryFails, GetToken, Goto, Close
<1>6. ASSUME NEW t \in Tasks, HandshakeDone(t)
      PROVE  InHand'
  BY <1>6 DEF HandshakeDone, Goto
<1>7. ASSUME NEW t \in Tasks, HandshakeFails(t)
      PROVE  InHand'
  BY <1>7 DEF HandshakeFails, Goto, Close
<1>8. ASSUME NEW t \in Tasks, AbandonDone(t)
      PROVE  InHand'
  BY <1>8
  DEF AbandonDone, TryFails, FirstTryFails, SecondTryFails, GetToken, Goto, Close
<1>9. ASSUME NEW t \in Tasks, CallReturns(t)
      PROVE  InHand'
  BY <1>9 DEF CallReturns, Goto, clientVars
<1>10. ASSUME NEW t \in Tasks, CallFails(t)
      PROVE  InHand'
  BY <1>10
  DEF CallFails, TryFails, FirstTryFails, SecondTryFails, GetToken, Goto, Close
<1>11. ASSUME NEW t \in Tasks, DropDone(t)
      PROVE  InHand'
  BY <1>11 DEF DropDone, GetToken, Goto
<1>12. ASSUME NEW t \in Tasks, ForgetDone(t)
      PROVE  InHand'
  BY <1>12 DEF ForgetDone, Goto
<1>13. CASE BeginUnload
  BY <1>13 DEF BeginUnload, Close, taskVars
<1>14. CASE UnloadDone
  BY <1>14 DEF UnloadDone, taskVars
<1>15. ASSUME NEW k \in Clients, ConnectionDies(k)
      PROVE  InHand'
  BY <1>15 DEF ConnectionDies, taskVars
<1>16. CASE TimePasses /\ UNCHANGED <<taskVars, clientVars, unload, overlapped>>
  BY <1>16 DEF taskVars, clientVars
<1> QED
  BY <1>1, <1>2, <1>3, <1>4, <1>5, <1>6, <1>7, <1>8, <1>9, <1>10, <1>11, <1>12,
      <1>13, <1>14, <1>15, <1>16
  DEF Next, Step, Environment

\* Every step keeps the handshakes apart.
LEMMA NextOwnHandshake ==
    ASSUME Inv, [Next]_vars
    PROVE  OwnHandshake'
<1> USE MaxClientsAssumption
  DEF Inv, TypeOK, Numbered, CurrentEstablished, InHand, Established, Clients,
    NoClient, OwnHandshake
<1>1. CASE UNCHANGED vars
  BY <1>1 DEF vars, taskVars, clientVars
<1>2. ASSUME NEW t \in Tasks, Begin(t)
      PROVE  OwnHandshake'
  BY <1>2 DEF Begin, UseCached, GetToken, Goto, Close
<1>3. ASSUME NEW t \in Tasks, Authorize(t)
      PROVE  OwnHandshake'
  BY <1>3 DEF Authorize, taskVars, clientVars
<1>4. ASSUME NEW t \in Tasks, Connect(t)
      PROVE  OwnHandshake'
  BY <1>4 DEF Connect, Goto
<1>5. ASSUME NEW t \in Tasks, ConnectFails(t)
      PROVE  OwnHandshake'
  BY <1>5
  DEF ConnectFails, TryFails, FirstTryFails, SecondTryFails, GetToken, Goto, Close
<1>6. ASSUME NEW t \in Tasks, HandshakeDone(t)
      PROVE  OwnHandshake'
  BY <1>6 DEF HandshakeDone, Goto
<1>7. ASSUME NEW t \in Tasks, HandshakeFails(t)
      PROVE  OwnHandshake'
  BY <1>7 DEF HandshakeFails, Goto, Close
<1>8. ASSUME NEW t \in Tasks, AbandonDone(t)
      PROVE  OwnHandshake'
  BY <1>8
  DEF AbandonDone, TryFails, FirstTryFails, SecondTryFails, GetToken, Goto, Close
<1>9. ASSUME NEW t \in Tasks, CallReturns(t)
      PROVE  OwnHandshake'
  BY <1>9 DEF CallReturns, Goto, clientVars
<1>10. ASSUME NEW t \in Tasks, CallFails(t)
      PROVE  OwnHandshake'
  BY <1>10
  DEF CallFails, TryFails, FirstTryFails, SecondTryFails, GetToken, Goto, Close
<1>11. ASSUME NEW t \in Tasks, DropDone(t)
      PROVE  OwnHandshake'
  BY <1>11 DEF DropDone, GetToken, Goto
<1>12. ASSUME NEW t \in Tasks, ForgetDone(t)
      PROVE  OwnHandshake'
  BY <1>12 DEF ForgetDone, Goto
<1>13. CASE BeginUnload
  BY <1>13 DEF BeginUnload, Close, taskVars
<1>14. CASE UnloadDone
  BY <1>14 DEF UnloadDone, taskVars
<1>15. ASSUME NEW k \in Clients, ConnectionDies(k)
      PROVE  OwnHandshake'
  BY <1>15 DEF ConnectionDies, taskVars
<1>16. CASE TimePasses /\ UNCHANGED <<taskVars, clientVars, unload, overlapped>>
  BY <1>16 DEF taskVars, clientVars
<1> QED
  BY <1>1, <1>2, <1>3, <1>4, <1>5, <1>6, <1>7, <1>8, <1>9, <1>10, <1>11, <1>12,
      <1>13, <1>14, <1>15, <1>16
  DEF Next, Step, Environment

\* Every step keeps what the tasks know of the connections they failed on.
LEMMA NextFailed ==
    ASSUME Inv, [Next]_vars
    PROVE  FailedEstablished'
<1> USE MaxClientsAssumption
  DEF Inv, TypeOK, Numbered, CurrentEstablished, InHand, Established, Clients,
    NoClient, FailedEstablished
<1>1. CASE UNCHANGED vars
  BY <1>1 DEF vars, taskVars, clientVars
<1>2. ASSUME NEW t \in Tasks, Begin(t)
      PROVE  FailedEstablished'
  BY <1>2 DEF Begin, UseCached, GetToken, Goto, Close
<1>3. ASSUME NEW t \in Tasks, Authorize(t)
      PROVE  FailedEstablished'
  BY <1>3 DEF Authorize, taskVars, clientVars
<1>4. ASSUME NEW t \in Tasks, Connect(t)
      PROVE  FailedEstablished'
  BY <1>4 DEF Connect, Goto
<1>5. ASSUME NEW t \in Tasks, ConnectFails(t)
      PROVE  FailedEstablished'
  BY <1>5
  DEF ConnectFails, TryFails, FirstTryFails, SecondTryFails, GetToken, Goto, Close
<1>6. ASSUME NEW t \in Tasks, HandshakeDone(t)
      PROVE  FailedEstablished'
  BY <1>6 DEF HandshakeDone, Goto
<1>7. ASSUME NEW t \in Tasks, HandshakeFails(t)
      PROVE  FailedEstablished'
  BY <1>7 DEF HandshakeFails, Goto, Close
<1>8. ASSUME NEW t \in Tasks, AbandonDone(t)
      PROVE  FailedEstablished'
  BY <1>8
  DEF AbandonDone, TryFails, FirstTryFails, SecondTryFails, GetToken, Goto, Close
<1>9. ASSUME NEW t \in Tasks, CallReturns(t)
      PROVE  FailedEstablished'
  BY <1>9 DEF CallReturns, Goto, clientVars
<1>10. ASSUME NEW t \in Tasks, CallFails(t)
      PROVE  FailedEstablished'
  BY <1>10
  DEF CallFails, TryFails, FirstTryFails, SecondTryFails, GetToken, Goto, Close
<1>11. ASSUME NEW t \in Tasks, DropDone(t)
      PROVE  FailedEstablished'
  BY <1>11 DEF DropDone, GetToken, Goto
<1>12. ASSUME NEW t \in Tasks, ForgetDone(t)
      PROVE  FailedEstablished'
  BY <1>12 DEF ForgetDone, Goto
<1>13. CASE BeginUnload
  BY <1>13 DEF BeginUnload, Close, taskVars
<1>14. CASE UnloadDone
  BY <1>14 DEF UnloadDone, taskVars
<1>15. ASSUME NEW k \in Clients, ConnectionDies(k)
      PROVE  FailedEstablished'
  BY <1>15 DEF ConnectionDies, taskVars
<1>16. CASE TimePasses /\ UNCHANGED <<taskVars, clientVars, unload, overlapped>>
  BY <1>16 DEF taskVars, clientVars
<1> QED
  BY <1>1, <1>2, <1>3, <1>4, <1>5, <1>6, <1>7, <1>8, <1>9, <1>10, <1>11, <1>12,
      <1>13, <1>14, <1>15, <1>16
  DEF Next, Step, Environment

-----------------------------------------------------------------------------
\* The state predicates hold in every behaviour.
THEOREM Invariance == Spec => []Inv
<1>1. ASSUME Inv, [Next]_vars
      PROVE  Inv'
  <2>1. TypeOK'
    BY <1>1, NextTokenType, NextOwnType DEF Inv, TypeOK, OwnTypeOK
  <2> QED
    BY <1>1, <2>1, NextNumbered, NextCurrent, NextInHand, NextOwnHandshake, NextFailed
    DEF Inv
<1> QED
  BY <1>1, InitInv, PTL DEF Spec

\* The types of a coordinator's connections, tasks and token.
THEOREM TypeCorrect == Spec => []TypeOK
BY Invariance, PTL DEF Inv

\* No call is made on a connection whose handshake is not over, however many
\* tasks open connections at once (_ensure_client publishes after the handshake).
THEOREM HandshakeComesFirst == Spec => []HandshakenFirst
<1>1. Inv => HandshakenFirst
  BY DEF Inv, InHand, HandshakenFirst, Established
<1> QED
  BY <1>1, Invariance, PTL

-----------------------------------------------------------------------------
\* Every step leaves a closed client cached only with somebody about to forget it.
LEMMA NextClosed ==
    ASSUME Inv, ClosedIsBeingForgotten, [Next]_vars
    PROVE  ClosedIsBeingForgotten'
<1> USE MaxClientsAssumption
  DEF Inv, TypeOK, CurrentEstablished, InHand, Established, ClosedIsBeingForgotten,
    Clients, NoClient
<1>1. CASE UNCHANGED vars
  BY <1>1 DEF vars, taskVars, clientVars
<1>2. ASSUME NEW t \in Tasks, Begin(t)
      PROVE  ClosedIsBeingForgotten'
  BY <1>2 DEF Begin, UseCached, GetToken, Goto, Close
<1>3. ASSUME NEW t \in Tasks, Authorize(t)
      PROVE  ClosedIsBeingForgotten'
  BY <1>3 DEF Authorize, taskVars, clientVars
<1>4. ASSUME NEW t \in Tasks, Connect(t)
      PROVE  ClosedIsBeingForgotten'
  BY <1>4 DEF Connect, Goto
<1>5. ASSUME NEW t \in Tasks, ConnectFails(t)
      PROVE  ClosedIsBeingForgotten'
  BY <1>5
  DEF ConnectFails, TryFails, FirstTryFails, SecondTryFails, GetToken, Goto, Close
<1>6. ASSUME NEW t \in Tasks, HandshakeDone(t)
      PROVE  ClosedIsBeingForgotten'
  BY <1>6 DEF HandshakeDone, Goto
<1>7. ASSUME NEW t \in Tasks, HandshakeFails(t)
      PROVE  ClosedIsBeingForgotten'
  BY <1>7 DEF HandshakeFails, Goto, Close
<1>8. ASSUME NEW t \in Tasks, AbandonDone(t)
      PROVE  ClosedIsBeingForgotten'
  BY <1>8
  DEF AbandonDone, TryFails, FirstTryFails, SecondTryFails, GetToken, Goto, Close
<1>9. ASSUME NEW t \in Tasks, CallReturns(t)
      PROVE  ClosedIsBeingForgotten'
  BY <1>9 DEF CallReturns, Goto, clientVars
<1>10. ASSUME NEW t \in Tasks, CallFails(t)
      PROVE  ClosedIsBeingForgotten'
  BY <1>10
  DEF CallFails, TryFails, FirstTryFails, SecondTryFails, GetToken, Goto, Close
<1>11. ASSUME NEW t \in Tasks, DropDone(t)
      PROVE  ClosedIsBeingForgotten'
  BY <1>11 DEF DropDone, GetToken, Goto
<1>12. ASSUME NEW t \in Tasks, ForgetDone(t)
      PROVE  ClosedIsBeingForgotten'
  BY <1>12 DEF ForgetDone, Goto
<1>13. CASE BeginUnload
  BY <1>13 DEF BeginUnload, Close, taskVars
<1>14. CASE UnloadDone
  BY <1>14 DEF UnloadDone, taskVars
<1>15. ASSUME NEW k \in Clients, ConnectionDies(k)
      PROVE  ClosedIsBeingForgotten'
  BY <1>15 DEF ConnectionDies, taskVars
<1>16. CASE TimePasses /\ UNCHANGED <<taskVars, clientVars, unload, overlapped>>
  BY <1>16 DEF taskVars, clientVars
<1> QED
  BY <1>1, <1>2, <1>3, <1>4, <1>5, <1>6, <1>7, <1>8, <1>9, <1>10, <1>11, <1>12,
      <1>13, <1>14, <1>15, <1>16
  DEF Next, Step, Environment

\* A closed client is cached only while the task that closed it, or the unload, is
\* suspended in its close(): _drop_client and async_shutdown always forget.
THEOREM ClosedIsForgotten == Spec => []ClosedIsBeingForgotten
<1>1. Init => ClosedIsBeingForgotten
  BY DEF Init, ClosedIsBeingForgotten
<1>2. Inv /\ ClosedIsBeingForgotten /\ [Next]_vars => ClosedIsBeingForgotten'
  BY NextClosed
<1> QED
  BY <1>1, <1>2, Invariance, PTL DEF Spec

\* Every step keeps the connections that calls failed on out of use for their callers.
LEMMA NextForgotten ==
    ASSUME Inv, FailedClientForgotten, [Next]_vars
    PROVE  FailedClientForgotten'
<1> USE MaxClientsAssumption
  DEF Inv, TypeOK, Numbered, CurrentEstablished, InHand, Established, Clients,
    NoClient, FailedEstablished, FailedClientForgotten
<1>1. CASE UNCHANGED vars
  BY <1>1 DEF vars, taskVars, clientVars
<1>2. ASSUME NEW t \in Tasks, Begin(t)
      PROVE  FailedClientForgotten'
  BY <1>2 DEF Begin, UseCached, GetToken, Goto, Close
<1>3. ASSUME NEW t \in Tasks, Authorize(t)
      PROVE  FailedClientForgotten'
  BY <1>3 DEF Authorize, taskVars, clientVars
<1>4. ASSUME NEW t \in Tasks, Connect(t)
      PROVE  FailedClientForgotten'
  BY <1>4 DEF Connect, Goto
<1>5. ASSUME NEW t \in Tasks, ConnectFails(t)
      PROVE  FailedClientForgotten'
  BY <1>5
  DEF ConnectFails, TryFails, FirstTryFails, SecondTryFails, GetToken, Goto, Close
<1>6. ASSUME NEW t \in Tasks, HandshakeDone(t)
      PROVE  FailedClientForgotten'
  BY <1>6 DEF HandshakeDone, Goto
<1>7. ASSUME NEW t \in Tasks, HandshakeFails(t)
      PROVE  FailedClientForgotten'
  BY <1>7 DEF HandshakeFails, Goto, Close
<1>8. ASSUME NEW t \in Tasks, AbandonDone(t)
      PROVE  FailedClientForgotten'
  BY <1>8
  DEF AbandonDone, TryFails, FirstTryFails, SecondTryFails, GetToken, Goto, Close
<1>9. ASSUME NEW t \in Tasks, CallReturns(t)
      PROVE  FailedClientForgotten'
  BY <1>9 DEF CallReturns, Goto, clientVars
<1>10. ASSUME NEW t \in Tasks, CallFails(t)
      PROVE  FailedClientForgotten'
  BY <1>10
  DEF CallFails, TryFails, FirstTryFails, SecondTryFails, GetToken, Goto, Close
<1>11. ASSUME NEW t \in Tasks, DropDone(t)
      PROVE  FailedClientForgotten'
  BY <1>11 DEF DropDone, GetToken, Goto
<1>12. ASSUME NEW t \in Tasks, ForgetDone(t)
      PROVE  FailedClientForgotten'
  BY <1>12 DEF ForgetDone, Goto
<1>13. CASE BeginUnload
  BY <1>13 DEF BeginUnload, Close, taskVars
<1>14. CASE UnloadDone
  BY <1>14 DEF UnloadDone, taskVars
<1>15. ASSUME NEW k \in Clients, ConnectionDies(k)
      PROVE  FailedClientForgotten'
  BY <1>15 DEF ConnectionDies, taskVars
<1>16. CASE TimePasses /\ UNCHANGED <<taskVars, clientVars, unload, overlapped>>
  BY <1>16 DEF taskVars, clientVars
<1> QED
  BY <1>1, <1>2, <1>3, <1>4, <1>5, <1>6, <1>7, <1>8, <1>9, <1>10, <1>11, <1>12,
      <1>13, <1>14, <1>15, <1>16
  DEF Next, Step, Environment

\* The second try of _run_or_reconnect runs on another connection than the first,
\* and the one that failed never gets back into the cache.
THEOREM FailedIsForgotten == Spec => []FailedClientForgotten
<1>1. Init => FailedClientForgotten
  BY DEF Init, FailedClientForgotten
<1>2. Inv /\ FailedClientForgotten /\ [Next]_vars => FailedClientForgotten'
  BY NextForgotten
<1> QED
  BY <1>1, <1>2, Invariance, PTL DEF Spec

-----------------------------------------------------------------------------
\* What holds as long as no two activities have been under way at once.
OneBusy == \A t, d \in Tasks : t \in Busy /\ d \in Busy => t = d

UnloadAlone == unload # "no" => Busy = {}

\* An open connection is cached, and a half-open one in the hands of its task.
OpenIsKnown ==
    \A k \in Clients :
        /\ conn[k] = "live" => current = k
        /\ conn[k] = "handshaking" => \E t \in Tasks : pc[t] = "handshaking" /\ using[t] = k

\* Who opens a connection found none cached, and who closes one leaves none open.
NothingElseCached ==
    /\ \A t \in Tasks :
          /\ pc[t] \in {"authorizing", "handshaking", "abandoning"} => current = NoClient
          /\ pc[t] \in {"dropping", "forgetting"} => current = NoClient \/ conn[current] = "closed"
    /\ unload = "closing" => current = NoClient \/ conn[current] = "closed"
    /\ unload = "done" => current = NoClient

AloneInv == ~overlapped => OneBusy /\ UnloadAlone /\ OpenIsKnown /\ NothingElseCached

\* A task that is alone stays alone, and nobody else is anywhere in particular.
LEMMA AloneMoves ==
    ASSUME Inv, OneBusy, UnloadAlone, NEW t \in Tasks, t \in Busy \/ (Busy = {} /\ unload = "no"),
           NEW place, Goto(t, place), UNCHANGED unload
    PROVE  /\ OneBusy' /\ UnloadAlone'
           /\ unload = "no"
           /\ \A d \in Tasks : d # t => pc'[d] = pc[d] /\ pc'[d] \in {"idle"} \union Ended
<1> USE DEF Inv, TypeOK, OneBusy, UnloadAlone, Busy, Goto
<1>1. unload = "no"
  OBVIOUS
<1>2. \A d \in Tasks : d # t => pc'[d] = pc[d] /\ pc'[d] \in {"idle"} \union Ended
  OBVIOUS
<1> QED
  BY <1>1, <1>2

\* The task fails and gives up its client: what _run_or_reconnect and its callers do.
LEMMA FailingAlone ==
    ASSUME Inv, ~overlapped, AloneInv, NEW t \in Tasks,
           pc[t] \in {"authorizing", "abandoning", "calling"},
           TryFails(t), UNCHANGED <<opened, current, unload>>
    PROVE  OneBusy' /\ UnloadAlone' /\ OpenIsKnown' /\ NothingElseCached'
<1> USE DEF Inv, TypeOK, Clients, NoClient
<1>1. t \in Busy
  BY DEF Busy, Ended
<1>2. PICK place \in {"dropping", "forgetting", "authorizing", "raised"} : Goto(t, place)
  BY DEF TryFails, FirstTryFails, SecondTryFails, GetToken
<1>3. /\ OneBusy' /\ UnloadAlone' /\ unload = "no"
      /\ \A d \in Tasks : d # t => pc'[d] = pc[d] /\ pc'[d] \in {"idle"} \union Ended
  BY <1>1, <1>2, AloneMoves DEF AloneInv
<1>4. \A k \in Clients : conn[k] # "handshaking"
  <2>1. \A d \in Tasks : pc[d] # "handshaking"
    BY <1>3 DEF Ended
  <2> QED
    BY <2>1 DEF AloneInv, OpenIsKnown
<1>5. CASE current # NoClient /\ Close(current) /\ pc'[t] \in {"dropping", "forgetting"}
  <2>1. conn'[current] = "closed" /\ \A k \in Clients : k # current => conn'[k] = conn[k]
    BY <1>5 DEF Close
  <2> QED
    BY <1>3, <1>4, <1>5, <2>1 DEF AloneInv, OpenIsKnown, NothingElseCached, Ended
<1>6. CASE UNCHANGED conn /\ current = NoClient /\ pc'[t] = "authorizing"
  BY <1>3, <1>4, <1>6 DEF AloneInv, OpenIsKnown, NothingElseCached, Ended
<1>7. CASE UNCHANGED conn /\ pc'[t] = "raised"
  BY <1>3, <1>4, <1>7 DEF AloneInv, OpenIsKnown, NothingElseCached, Ended
<1> QED
  BY <1>5, <1>6, <1>7 DEF TryFails, FirstTryFails, SecondTryFails, GetToken, Goto

\* Every step that does not begin a second activity keeps them known.
LEMMA NextAlone ==
    ASSUME Inv, AloneInv, [Next]_vars
    PROVE  AloneInv'
<1> SUFFICES ASSUME ~overlapped'
             PROVE  OneBusy' /\ UnloadAlone' /\ OpenIsKnown' /\ NothingElseCached'
  BY DEF AloneInv
<1> USE MaxClientsAssumption DEF Inv, TypeOK, Clients, NoClient
<1>1. ASSUME UNCHANGED <<pc, using, conn, current, unload, overlapped>>
      PROVE  OneBusy' /\ UnloadAlone' /\ OpenIsKnown' /\ NothingElseCached'
  BY <1>1 DEF AloneInv, OneBusy, UnloadAlone, OpenIsKnown, NothingElseCached, Busy
<1>2. ASSUME NEW t \in Tasks, Begin(t)
      PROVE  OneBusy' /\ UnloadAlone' /\ OpenIsKnown' /\ NothingElseCached'
  <2>1. ~overlapped /\ Busy = {} /\ unload = "no" /\ UNCHANGED <<current, unload>>
    BY <1>2 DEF Begin
  <2>2. PICK place \in {"calling", "authorizing", "forgetting", "done"} : Goto(t, place)
    BY <1>2 DEF Begin, UseCached, GetToken
  <2>3. /\ OneBusy' /\ UnloadAlone'
        /\ \A d \in Tasks : d # t => pc'[d] = pc[d] /\ pc'[d] \in {"idle"} \union Ended
    BY <2>1, <2>2, AloneMoves DEF AloneInv
  <2>4. \A k \in Clients : conn[k] # "handshaking"
    <3>1. \A d \in Tasks : pc[d] # "handshaking"
      BY <2>1 DEF Busy, Ended
    <3> QED
      BY <2>1, <3>1 DEF AloneInv, OpenIsKnown
  <2>5. CASE UNCHANGED conn /\ pc'[t] \in {"calling", "done"}
    BY <2>1, <2>3, <2>4, <2>5 DEF AloneInv, OpenIsKnown, NothingElseCached, Ended
  <2>6. CASE UNCHANGED conn /\ current = NoClient /\ pc'[t] = "authorizing"
    BY <2>1, <2>3, <2>4, <2>6 DEF AloneInv, OpenIsKnown, NothingElseCached, Ended
  <2>7. CASE current # NoClient /\ Close(current) /\ pc'[t] = "forgetting"
    <3>1. conn'[current] = "closed" /\ \A k \in Clients : k # current => conn'[k] = conn[k]
      BY <2>7 DEF Close
    <3> QED
      BY <2>1, <2>3, <2>4, <2>7, <3>1 DEF AloneInv, OpenIsKnown, NothingElseCached, Ended
  <2> QED
    BY <1>2, <2>5, <2>6, <2>7 DEF Begin, UseCached, GetToken, Goto
<1>3. ASSUME NEW t \in Tasks, Connect(t)
      PROVE  OneBusy' /\ UnloadAlone' /\ OpenIsKnown' /\ NothingElseCached'
  <2>1. ~overlapped /\ t \in Busy /\ UNCHANGED <<current, unload>> /\ current = NoClient
    BY <1>3 DEF Connect, Busy, Ended, AloneInv, NothingElseCached
  <2>2. /\ OneBusy' /\ UnloadAlone' /\ unload = "no"
        /\ \A d \in Tasks : d # t => pc'[d] = pc[d] /\ pc'[d] \in {"idle"} \union Ended
    BY <1>3, <2>1, AloneMoves DEF AloneInv, Connect
  <2>3. \A k \in Clients : conn[k] \notin {"live", "handshaking"}
    <3>1. \A d \in Tasks : pc[d] # "handshaking"
      BY <1>3, <2>2 DEF Connect, Ended
    <3> QED
      BY <2>1, <3>1 DEF AloneInv, OpenIsKnown
  <2>4. /\ pc'[t] = "handshaking" /\ using'[t] = opened + 1
        /\ \A k \in Clients : k # opened + 1 => conn'[k] = conn[k]
        /\ conn'[opened + 1] = "handshaking"
    BY <1>3 DEF Connect, Goto
  <2> QED
    BY <2>1, <2>2, <2>3, <2>4 DEF OpenIsKnown, NothingElseCached, Ended
<1>4. ASSUME NEW t \in Tasks, ConnectFails(t) \/ AbandonDone(t) \/ CallFails(t)
      PROVE  OneBusy' /\ UnloadAlone' /\ OpenIsKnown' /\ NothingElseCached'
  BY <1>4, FailingAlone DEF ConnectFails, AbandonDone, CallFails
<1>5. ASSUME NEW t \in Tasks, HandshakeDone(t)
      PROVE  OneBusy' /\ UnloadAlone' /\ OpenIsKnown' /\ NothingElseCached'
  <2>1. ~overlapped /\ t \in Busy /\ UNCHANGED unload /\ current = NoClient /\ using[t] \in Clients
    BY <1>5 DEF HandshakeDone, Busy, Ended, AloneInv, NothingElseCached, InHand
  <2>2. /\ OneBusy' /\ UnloadAlone' /\ unload = "no"
        /\ \A d \in Tasks : d # t => pc'[d] = pc[d] /\ pc'[d] \in {"idle"} \union Ended
    BY <1>5, <2>1, AloneMoves DEF AloneInv, HandshakeDone
  <2>3. \A k \in Clients : k # using[t] => conn[k] \notin {"live", "handshaking"}
    <3>1. \A d \in Tasks : d # t => pc[d] # "handshaking"
      BY <2>2 DEF Ended
    <3> QED
      BY <2>1, <3>1 DEF AloneInv, OpenIsKnown
  <2>4. /\ pc'[t] = "calling" /\ current' = using[t]
        /\ \A k \in Clients : k # using[t] => conn'[k] = conn[k]
        /\ conn'[using[t]] = "live"
    BY <1>5, <2>1 DEF HandshakeDone, Goto
  <2> QED
    BY <2>1, <2>2, <2>3, <2>4 DEF OpenIsKnown, NothingElseCached, Ended
<1>6. ASSUME NEW t \in Tasks, HandshakeFails(t)
      PROVE  OneBusy' /\ UnloadAlone' /\ OpenIsKnown' /\ NothingElseCached'
  <2>1. ~overlapped /\ t \in Busy /\ UNCHANGED <<current, unload>> /\ current = NoClient
        /\ using[t] \in Clients
    BY <1>6 DEF HandshakeFails, Busy, Ended, AloneInv, NothingElseCached, InHand
  <2>2. /\ OneBusy' /\ UnloadAlone' /\ unload = "no"
        /\ \A d \in Tasks : d # t => pc'[d] = pc[d] /\ pc'[d] \in {"idle"} \union Ended
    BY <1>6, <2>1, AloneMoves DEF AloneInv, HandshakeFails
  <2>3. \A k \in Clients : k # using[t] => conn[k] \notin {"live", "handshaking"}
    <3>1. \A d \in Tasks : d # t => pc[d] # "handshaking"
      BY <2>2 DEF Ended
    <3> QED
      BY <2>1, <3>1 DEF AloneInv, OpenIsKnown
  <2>4. /\ pc'[t] = "abandoning"
        /\ \A k \in Clients : k # using[t] => conn'[k] = conn[k]
        /\ conn'[using[t]] = "closed"
    BY <1>6, <2>1 DEF HandshakeFails, Close, Goto
  <2> QED
    BY <2>1, <2>2, <2>3, <2>4 DEF OpenIsKnown, NothingElseCached, Ended
<1>7. ASSUME NEW t \in Tasks, CallReturns(t)
      PROVE  OneBusy' /\ UnloadAlone' /\ OpenIsKnown' /\ NothingElseCached'
  <2>1. ~overlapped /\ t \in Busy /\ UNCHANGED <<conn, current, unload, using>> /\ pc'[t] = "done"
    BY <1>7 DEF CallReturns, Busy, Ended, clientVars, Goto
  <2>2. /\ OneBusy' /\ UnloadAlone' /\ unload = "no"
        /\ \A d \in Tasks : d # t => pc'[d] = pc[d] /\ pc'[d] \in {"idle"} \union Ended
    BY <1>7, <2>1, AloneMoves DEF AloneInv, CallReturns
  <2>3. \A d \in Tasks : pc[d] # "handshaking"
    BY <1>7, <2>2 DEF CallReturns, Ended
  <2> QED
    BY <2>1, <2>2, <2>3 DEF AloneInv, OpenIsKnown, NothingElseCached, Ended
<1>8. ASSUME NEW t \in Tasks, DropDone(t) \/ ForgetDone(t)
      PROVE  OneBusy' /\ UnloadAlone' /\ OpenIsKnown' /\ NothingElseCached'
  <2>1. /\ ~overlapped /\ t \in Busy /\ UNCHANGED <<conn, unload>> /\ current' = NoClient
        /\ pc[t] \in {"dropping", "forgetting"}
        /\ \E place \in {"authorizing", "raised", "done"} : Goto(t, place)
    BY <1>8 DEF DropDone, ForgetDone, GetToken, Busy, Ended
  <2>2. /\ OneBusy' /\ UnloadAlone' /\ unload = "no"
        /\ \A d \in Tasks : d # t => pc'[d] = pc[d] /\ pc'[d] \in {"idle"} \union Ended
    BY <2>1, AloneMoves DEF AloneInv
  <2>3. \A k \in Clients : conn[k] \notin {"live", "handshaking"}
    <3>1. \A d \in Tasks : pc[d] # "handshaking"
      BY <2>1, <2>2 DEF Ended
    <3> QED
      BY <2>1, <3>1 DEF AloneInv, OpenIsKnown, NothingElseCached
  <2>4. pc'[t] \in {"authorizing", "raised", "done"}
    BY <2>1 DEF Goto
  <2> QED
    BY <2>1, <2>2, <2>3, <2>4 DEF OpenIsKnown, NothingElseCached, Ended
<1>9. CASE BeginUnload
  <2>1. ~overlapped /\ Busy = {} /\ UNCHANGED <<pc, using, current>>
    BY <1>9 DEF BeginUnload, taskVars
  <2>2. OneBusy' /\ UnloadAlone'
    BY <2>1 DEF OneBusy, UnloadAlone, Busy
  <2>3. \A d \in Tasks : pc[d] \in {"idle"} \union Ended
    BY <2>1 DEF Busy
  <2>4. \A k \in Clients : conn[k] # "handshaking"
    BY <2>1, <2>3 DEF AloneInv, OpenIsKnown, Ended
  <2>5. CASE current # NoClient /\ Close(current) /\ unload' = "closing"
    BY <2>1, <2>2, <2>3, <2>4, <2>5 DEF AloneInv, OpenIsKnown, NothingElseCached, Close, Ended
  <2>6. CASE current = NoClient /\ UNCHANGED conn /\ unload' = "done"
    BY <2>1, <2>2, <2>3, <2>4, <2>6 DEF AloneInv, OpenIsKnown, NothingElseCached, Ended
  <2> QED
    BY <1>9, <2>5, <2>6 DEF BeginUnload
<1>10. CASE UnloadDone
  <2>1. ~overlapped /\ UNCHANGED <<pc, using, conn>> /\ unload = "closing" /\ current' = NoClient
        /\ unload' = "done"
    BY <1>10 DEF UnloadDone, taskVars
  <2>2. Busy = {} /\ Busy' = {}
    BY <2>1 DEF AloneInv, UnloadAlone, Busy
  <2>3. \A d \in Tasks : pc[d] \in {"idle"} \union Ended
    BY <2>2 DEF Busy
  <2>4. \A k \in Clients : conn[k] \notin {"live", "handshaking"}
    BY <2>1, <2>3 DEF AloneInv, OpenIsKnown, NothingElseCached, Ended
  <2> QED
    BY <2>1, <2>2, <2>3, <2>4 DEF OneBusy, UnloadAlone, OpenIsKnown, NothingElseCached, Ended
<1>11. ASSUME NEW k \in Clients, ConnectionDies(k)
       PROVE  OneBusy' /\ UnloadAlone' /\ OpenIsKnown' /\ NothingElseCached'
  <2>1. ~overlapped /\ UNCHANGED <<pc, using, current, unload>>
    BY <1>11 DEF ConnectionDies, taskVars
  <2>2. conn[k] = "live" /\ conn'[k] = "dead" /\ \A j \in Clients : j # k => conn'[j] = conn[j]
    BY <1>11 DEF ConnectionDies
  <2> QED
    BY <2>1, <2>2 DEF AloneInv, OneBusy, UnloadAlone, OpenIsKnown, NothingElseCached, Busy
<1>12. ASSUME NEW t \in Tasks, Authorize(t)
       PROVE  OneBusy' /\ UnloadAlone' /\ OpenIsKnown' /\ NothingElseCached'
  BY <1>1, <1>12 DEF Authorize, taskVars, clientVars
<1>13. CASE TimePasses /\ UNCHANGED <<taskVars, clientVars, unload, overlapped>>
  BY <1>1, <1>13 DEF taskVars, clientVars
<1>14. CASE UNCHANGED vars
  BY <1>1, <1>14 DEF vars, taskVars, clientVars
<1> QED
  BY <1>2, <1>3, <1>4, <1>5, <1>6, <1>7, <1>8, <1>9, <1>10, <1>11, <1>12, <1>13, <1>14
  DEF Next, Step, Environment

\* As long as no two activities overlap, no connection is left behind: every open one
\* is the cached one, and none is left after the unload, for any number of tasks,
\* failures and reconnects.
THEOREM NothingLeftAlone == Spec => []NoOrphanAlone
<1>1. Init => AloneInv
  BY DEF Init, AloneInv, OneBusy, UnloadAlone, OpenIsKnown, NothingElseCached, Busy
<1>2. Inv /\ AloneInv /\ [Next]_vars => AloneInv'
  BY NextAlone
<1>3. Inv /\ AloneInv => NoOrphanAlone
  <2> SUFFICES ASSUME AloneInv, ~overlapped
               PROVE  /\ \A k \in Clients : conn[k] = "live" => current = k
                      /\ unload = "done" => \A k \in Clients : conn[k] \notin {"live", "handshaking"}
    BY DEF NoOrphanAlone
  <2>1. unload = "done" => current = NoClient /\ \A t \in Tasks : pc[t] # "handshaking"
    BY DEF AloneInv, UnloadAlone, NothingElseCached, Busy, Ended
  <2> QED
    BY <2>1 DEF AloneInv, OpenIsKnown, Clients, NoClient
<1> QED
  BY <1>1, <1>2, <1>3, Invariance, PTL DEF Spec

-----------------------------------------------------------------------------
\* The coordinator believes that a token it can refresh expires when it does, or
\* before.
ExpiryBelieved == token = "refreshable" => age + expiresIn <= Lifetime

\* Every step keeps it so.
LEMMA NextExpiryBelieved ==
    ASSUME TokenTypeOK, ExpiryBelieved, [Next]_vars
    PROVE  ExpiryBelieved'
<1> USE LifetimeAssumption DEF TokenTypeOK, ExpiryBelieved
<1>1. CASE UNCHANGED tokenVars
  BY <1>1 DEF tokenVars
<1>2. ASSUME NEW t \in Tasks, EnsureToken(t)
      PROVE  ExpiryBelieved'
  BY <1>2 DEF EnsureToken
<1>3. ASSUME NEW t \in Tasks, NEW kind \in Grants, TokenGranted(t, kind)
      PROVE  ExpiryBelieved'
  BY <1>3 DEF TokenGranted
<1>4. ASSUME NEW t \in Tasks, RefreshRejected(t)
      PROVE  ExpiryBelieved'
  BY <1>4 DEF RefreshRejected
<1>5. ASSUME NEW t \in Tasks, TokenError(t)
      PROVE  ExpiryBelieved'
  BY <1>5 DEF TokenError
<1>6. CASE TimePasses
  BY <1>6 DEF TimePasses
<1> QED
  BY <1>1, <1>2, <1>3, <1>4, <1>5, <1>6, NextMovesToken DEF TokenMove, TokenStep

\* There is a token, and it has not expired if it can be refreshed.
TokenGood == token # "none" /\ (token = "refreshable" => age < Lifetime)

\* _ensure_token returns at once with a good token, ...
LEMMA EnsureGivesToken ==
    ASSUME TokenTypeOK, ExpiryBelieved, NEW t \in Tasks, EnsureToken(t)
    PROVE  /\ auth'[t] = "held" => TokenGood'
           /\ \A d \in Tasks \ {t} : auth'[d] = auth[d]
BY LifetimeAssumption
DEF TokenTypeOK, ExpiryBelieved, EnsureToken, TokenUsable, TokenGood

\* ... or after a request.
LEMMA RequestGivesToken ==
    ASSUME TokenTypeOK, NEW t \in Tasks, TokenStep(t)
    PROVE  /\ auth'[t] = "held" => TokenGood'
           /\ \A d \in Tasks \ {t} : auth'[d] = auth[d]
<1> USE DEF TokenTypeOK
<1>1. ASSUME NEW kind \in Grants, TokenGranted(t, kind)
      PROVE  TokenGood' /\ \A d \in Tasks \ {t} : auth'[d] = auth[d]
  BY <1>1, LifetimeAssumption, GrantsAssumption DEF TokenGranted, TokenGood
<1>2. ASSUME RefreshRejected(t) \/ TokenError(t)
      PROVE  auth'[t] # "held" /\ \A d \in Tasks \ {t} : auth'[d] = auth[d]
  BY <1>2 DEF RefreshRejected, TokenError
<1> QED
  BY <1>1, <1>2 DEF TokenStep

\* Every task that comes out of _ensure_token has a good token.
LeavesSoundly == \A t \in Tasks : LeavesWith(t) => TokenGood'

\* A task's place in _ensure_token is moved by the task alone.
LEMMA NextLeavesSoundly ==
    ASSUME Inv, ExpiryBelieved, [Next]_vars
    PROVE  LeavesSoundly
<1> USE DEF Inv, TypeOK, TokenTypeOK, tokenVars, LeavesSoundly, LeavesWith
<1>1. CASE UNCHANGED vars
  BY <1>1 DEF vars, taskVars, clientVars
<1>2. ASSUME NEW t \in Tasks, Begin(t)
      PROVE  LeavesSoundly
  BY <1>2, EnsureGivesToken DEF Begin, UseCached, GetToken, Goto, Close
<1>3. ASSUME NEW t \in Tasks, Authorize(t)
      PROVE  LeavesSoundly
  BY <1>3, RequestGivesToken DEF Authorize, taskVars, clientVars
<1>4. ASSUME NEW t \in Tasks, Connect(t)
      PROVE  LeavesSoundly
  BY <1>4 DEF Connect, Goto
<1>5. ASSUME NEW t \in Tasks, ConnectFails(t)
      PROVE  LeavesSoundly
  BY <1>5, EnsureGivesToken
  DEF ConnectFails, TryFails, FirstTryFails, SecondTryFails, GetToken, Goto, Close
<1>6. ASSUME NEW t \in Tasks, HandshakeDone(t)
      PROVE  LeavesSoundly
  BY <1>6 DEF HandshakeDone, Goto
<1>7. ASSUME NEW t \in Tasks, HandshakeFails(t)
      PROVE  LeavesSoundly
  BY <1>7 DEF HandshakeFails, Goto, Close
<1>8. ASSUME NEW t \in Tasks, AbandonDone(t)
      PROVE  LeavesSoundly
  BY <1>8, EnsureGivesToken
  DEF AbandonDone, TryFails, FirstTryFails, SecondTryFails, GetToken, Goto, Close
<1>9. ASSUME NEW t \in Tasks, CallReturns(t)
      PROVE  LeavesSoundly
  BY <1>9 DEF CallReturns, Goto, clientVars
<1>10. ASSUME NEW t \in Tasks, CallFails(t)
      PROVE  LeavesSoundly
  BY <1>10, EnsureGivesToken
  DEF CallFails, TryFails, FirstTryFails, SecondTryFails, GetToken, Goto, Close
<1>11. ASSUME NEW t \in Tasks, DropDone(t)
      PROVE  LeavesSoundly
  BY <1>11, EnsureGivesToken DEF DropDone, GetToken, Goto
<1>12. ASSUME NEW t \in Tasks, ForgetDone(t)
      PROVE  LeavesSoundly
  BY <1>12 DEF ForgetDone, Goto
<1>13. CASE BeginUnload
  BY <1>13 DEF BeginUnload, Close, taskVars
<1>14. CASE UnloadDone
  BY <1>14 DEF UnloadDone, taskVars
<1>15. ASSUME NEW k \in Clients, ConnectionDies(k)
      PROVE  LeavesSoundly
  BY <1>15 DEF ConnectionDies, taskVars
<1>16. CASE TimePasses /\ UNCHANGED <<taskVars, clientVars, unload, overlapped>>
  BY <1>16 DEF TimePasses, taskVars, clientVars
<1> QED
  BY <1>1, <1>2, <1>3, <1>4, <1>5, <1>6, <1>7, <1>8, <1>9, <1>10, <1>11, <1>12,
      <1>13, <1>14, <1>15, <1>16
  DEF Next, Step, Environment

\* Whatever other tasks do to the cached token meanwhile, a task leaves
\* _ensure_token with one: the assertion in _ensure_client cannot fail.
THEOREM TokenIsThere == Spec => ReturnsWithToken
<1>1. Init => ExpiryBelieved
  BY DEF Init, TokenInit, ExpiryBelieved
<1>2. Inv /\ ExpiryBelieved /\ [Next]_vars => ExpiryBelieved'
  BY NextExpiryBelieved DEF Inv, TypeOK
<1>3. Inv /\ ExpiryBelieved /\ [Next]_vars =>
        [\A t \in Tasks : LeavesWith(t) => token' # "none"]_vars
  BY NextLeavesSoundly DEF LeavesSoundly, TokenGood
<1> QED
  BY <1>1, <1>2, <1>3, Invariance, PTL DEF Spec, ReturnsWithToken

\* No connection is opened with a refreshable token that has expired: the margin
\* of _ensure_token is on the safe side, whichever task renewed the token last.
THEOREM TokenIsFresh == Spec => RefreshableRenewedInTime
<1>1. Init => ExpiryBelieved
  BY DEF Init, TokenInit, ExpiryBelieved
<1>2. Inv /\ ExpiryBelieved /\ [Next]_vars => ExpiryBelieved'
  BY NextExpiryBelieved DEF Inv, TypeOK
<1>3. Inv /\ ExpiryBelieved /\ [Next]_vars =>
        [\A t \in Tasks : LeavesWith(t) /\ token' = "refreshable" => age' < Lifetime]_vars
  BY NextLeavesSoundly DEF LeavesSoundly, TokenGood
<1> QED
  BY <1>1, <1>2, <1>3, Invariance, PTL DEF Spec, RefreshableRenewedInTime
=============================================================================
