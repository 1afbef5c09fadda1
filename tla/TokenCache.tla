------------------------------ MODULE TokenCache ------------------------------
(***************************************************************************)
(* FinderYouCoordinator._ensure_token (coordinator.py) over the two OAuth  *)
(* requests of api/oauth.py.  Several tasks may be inside it at once: they *)
(* share the cached token and its expiry, and nothing serialises them.     *)
(*                                                                         *)
(* Time is counted in ticks.  age is the age of the cached access token as *)
(* the server sees it, expiresIn what the coordinator believes is left.    *)
(***************************************************************************)
EXTENDS Naturals

CONSTANTS
    Tasks,      \* the tasks that may need a token
    Lifetime,   \* expires_in, in ticks
    Margin,     \* TOKEN_REFRESH_MARGIN, in ticks
    Grants      \* the kinds of token the server hands out

ASSUME LifetimeAssumption == Lifetime \in Nat \ {0} /\ Margin \in 0 .. Lifetime

\* A response of the token endpoint may come with a refresh_token or without.
ASSUME GrantsAssumption == Grants \subseteq {"refreshable", "plain"}

VARIABLES
    auth,       \* where each task is inside _ensure_token
    token,      \* _token: none, or the kind of the cached token
    age,        \* ticks since the cached token was issued, up to Lifetime
    expiresIn   \* ticks to _token_expiry

tokenVars == <<auth, token, age, expiresIn>>

TokenTypeOK ==
    /\ auth \in [Tasks -> {"idle", "refreshing", "login", "held", "raised"}]
    /\ token \in {"none", "refreshable", "plain"}
    /\ age \in 0 .. Lifetime
    /\ expiresIn \in 0 .. Lifetime

TokenInit ==
    /\ auth = [t \in Tasks |-> "idle"]
    /\ token = "none"
    /\ age = 0
    /\ expiresIn = 0

-----------------------------------------------------------------------------
\* Seeded fault: a cached token is used whatever its expiry.
TokenCached == token # "none"

TokenUsable == token # "none" /\ expiresIn > Margin

\* A task is not inside _ensure_token; "held" and "raised" are how it last left.
Outside(t) == auth[t] \in {"idle", "held", "raised"}

\* The part of _ensure_token before its first await.  A token that is due and
\* has no refresh_token is kept, and its expiry is computed afresh.
EnsureToken(t) ==
    /\ Outside(t)
    /\ \/ /\ TokenUsable
          /\ auth' = [auth EXCEPT ![t] = "held"]
          /\ UNCHANGED expiresIn
       \/ /\ ~TokenUsable /\ token = "refreshable"
          /\ auth' = [auth EXCEPT ![t] = "refreshing"]
          /\ UNCHANGED expiresIn
       \/ /\ ~TokenUsable /\ token = "plain"
          /\ auth' = [auth EXCEPT ![t] = "held"]
          /\ expiresIn' = Lifetime
       \/ /\ token = "none"
          /\ auth' = [auth EXCEPT ![t] = "login"]
          /\ UNCHANGED expiresIn
    /\ UNCHANGED <<token, age>>

\* Seeded fault: the margin is added to the expiry instead of taken from it.
TokenGrantedTooLong(t, kind) ==
    /\ auth[t] \in {"refreshing", "login"}
    /\ token' = kind
    /\ age' = 0
    /\ expiresIn' = Lifetime + Margin
    /\ auth' = [auth EXCEPT ![t] = "held"]

\* refresh_token or fetch_token returns a token.
TokenGranted(t, kind) ==
    /\ auth[t] \in {"refreshing", "login"}
    /\ token' = kind
    /\ age' = 0
    /\ expiresIn' = Lifetime
    /\ auth' = [auth EXCEPT ![t] = "held"]

\* Seeded fault: a rejected refresh is not followed by a login.
RefreshRejectedForGood(t) ==
    /\ auth[t] = "refreshing"
    /\ token' = "none"
    /\ auth' = [auth EXCEPT ![t] = "held"]
    /\ UNCHANGED <<age, expiresIn>>

\* OAuthError from refresh_token: forget the token and log in again.
RefreshRejected(t) ==
    /\ auth[t] = "refreshing"
    /\ token' = "none"
    /\ auth' = [auth EXCEPT ![t] = "login"]
    /\ UNCHANGED <<age, expiresIn>>

\* Any error of the login, or another error of the refresh, leaves the method.
TokenError(t) ==
    /\ auth[t] \in {"refreshing", "login"}
    /\ auth' = [auth EXCEPT ![t] = "raised"]
    /\ UNCHANGED <<token, age, expiresIn>>

TimePasses ==
    /\ age < Lifetime \/ expiresIn > 0
    /\ age' = IF age < Lifetime THEN age + 1 ELSE age
    /\ expiresIn' = IF expiresIn > 0 THEN expiresIn - 1 ELSE 0
    /\ UNCHANGED <<auth, token>>

TokenStep(t) ==
    \/ \E kind \in Grants : TokenGranted(t, kind)
    \/ RefreshRejected(t)
    \/ TokenError(t)

=============================================================================
