------------------------------ MODULE Session ------------------------------
(***************************************************************************)
(* The server's start and its session with the feed.  Every call to the    *)
(* feed carries a guest JWT, renewable at any time, and an API token bound *)
(* to an on-chain subscription.  buildContext tries the stored ones, then  *)
(* a fresh JWT, then a new subscription; without a session no worker ever  *)
(* starts.                                                                 *)
(*                                                                         *)
(* A token is the number of its subscription, 0 when there is none.        *)
(***************************************************************************)
EXTENDS Integers, FiniteSets

CONSTANTS
    Seed,               \* external: the token in the auth file or TXLINE_AUTH_JSON
    MaxFaults           \* BOUND on failed calls, crashes and lost records

ASSUME SessionAssumption == MaxFaults \in Nat /\ Seed \in Nat

VARIABLES
    main,               \* where main is: a step of buildContext, "up" or "apiOnly"
    jwt,                \* session.jwt: "live", or "stale" when missing or expired
    token,              \* session.apiToken
    file,               \* the token in the auth file
    subs,               \* chain: subscriptions made
    lapsed,             \* chain: those that ran out
    faults

sessionVars == <<main, jwt, token, file, subs, lapsed>>

\* The stored JWT may have expired when it is read back.
Loaded(t) == token' = t /\ jwt' \in {"live", "stale"}

SessionInit ==
    /\ main = "probe"
    /\ file = Seed /\ token = Seed /\ jwt \in {"live", "stale"}
    /\ subs = Seed /\ lapsed = {}
    /\ faults = 0

Fault == faults < MaxFaults /\ faults' = faults + 1

Allowed == token \notin lapsed \cup {0}

NotRenewed(j) == j
\* A 401 renews the JWT, once, and the call is repeated.
Renewed(j) == "live"

\* TxlineClient.get: refused with 403 whatever the JWT when the token is not allowed.
Get(ok) ==
    /\ jwt' = Renewed(jwt)
    /\ ok = (jwt' = "live" /\ Allowed)
    /\ UNCHANGED faults

\* A network failure, before or after the renewal.
GetFails == Fault /\ jwt' \in {jwt, Renewed(jwt)}

-----------------------------------------------------------------------------
\* The session is saved, with the token newToken.
GoUp(newToken) ==
    /\ main' = "up"
    /\ token' = newToken
    /\ file' = newToken

Probe ==
    /\ main \in {"probe", "reprobe"}
    /\ \/ Get(TRUE) /\ GoUp(token)
       \/ /\ Get(FALSE) \/ GetFails
          /\ main' = IF main = "probe" THEN "renew" ELSE "subscribe"
          /\ UNCHANGED <<token, file>>
    /\ UNCHANGED <<subs, lapsed>>

RenewJwt ==
    /\ main = "renew"
    /\ main' = "reprobe" /\ jwt' = "live"
    /\ UNCHANGED <<token, file, subs, lapsed, faults>>

SubscribeFreeTier ==
    /\ main = "subscribe"
    /\ main' = "activate" /\ subs' = subs + 1
    /\ UNCHANGED <<jwt, token, file, lapsed, faults>>

StoredToken == token
NewToken == subs
Activate ==
    /\ main = "activate" /\ jwt = "live"
    /\ GoUp(NewToken)
    /\ UNCHANGED <<jwt, subs, lapsed, faults>>

\* A throw in buildContext is caught by main, which starts no worker.
BuildContextThrows ==
    /\ main \in {"renew", "subscribe", "activate"} /\ Fault
    /\ main' = "apiOnly"
    /\ subs' \in IF main = "subscribe" THEN {subs, subs + 1} ELSE {subs}
    /\ UNCHANGED <<jwt, token, file, lapsed>>

Boots == Probe \/ RenewJwt \/ SubscribeFreeTier \/ Activate

-----------------------------------------------------------------------------
\* A restart may find the file as it was deployed.
RestartSession(lost) ==
    /\ Fault
    /\ main' = "probe"
    /\ file' = IF lost THEN Seed ELSE file
    /\ Loaded(file')
    /\ UNCHANGED <<subs, lapsed>>

\* Thirty days after it was issued.
JwtExpires ==
    /\ main = "up" /\ jwt = "live"
    /\ jwt' = "stale"
    /\ UNCHANGED <<main, token, file, subs, lapsed, faults>>

\* Four weeks after it was made.
SubscriptionLapses ==
    /\ main \in {"probe", "up"} /\ token \notin lapsed \cup {0}
    /\ lapsed' = lapsed \cup {token}
    /\ UNCHANGED <<main, jwt, token, file, subs, faults>>

SessionEnvironment == JwtExpires \/ SubscriptionLapses

-----------------------------------------------------------------------------
SessionTypeOK ==
    /\ main \in {"probe", "renew", "reprobe", "subscribe", "activate", "up", "apiOnly"}
    /\ jwt \in {"live", "stale"}
    /\ subs \in Nat /\ {token, file} \subseteq 0..subs
    /\ lapsed \subseteq 1..subs
    /\ faults \in 0..MaxFaults

\* The subscription just made has not run out when its token is fetched.
SessionInv ==
    /\ SessionTypeOK
    /\ Seed <= subs
    /\ main = "activate" => subs \notin lapsed \cup {0}

\* The workers start with a session that the feed accepts, whatever was
\* stored, and however the calls before failed (txline.ts 32-46).
StartsWithASession == [][(main # "up" /\ main' = "up") => token' \notin lapsed \cup {0}]_sessionVars
=============================================================================
