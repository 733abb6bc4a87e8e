------------------------------- MODULE McpAccess -------------------------------
(***************************************************************************)
(* A call of the public MCP service, from its personal access token (PAT)  *)
(* to its answer.  The PAT is exchanged for an access token, which is kept *)
(* in Redis for a while; the token is verified with keys that are fetched  *)
(* only when one is unknown; a script counts the call in the daily and the *)
(* weekly window of the user; the search runs; the usage ledger and the    *)
(* analytics get a row each, and the answer is given.  Meanwhile PATs are  *)
(* revoked, keys are rotated, and the dashboard reads the windows.         *)
(*                                                                         *)
(* Time is discrete and relative, as in ViewCaches.                        *)
(***************************************************************************)
EXTENDS Integers, FiniteSets, FiniteSetsExt

CONSTANTS
    McpCall,        \* numbers of calls in flight
    Pat, UserOf,    \* PATs and the user of each
    QuotaLimit,     \* of the "daily" and the "weekly" window
    QuotaWindow,
    TokenLife,      \* expires_in of an exchanged token
    SafetyMargin,
    TokenCacheTtl,
    CallPatience,   \* bound: time a call or a dashboard read takes
    MaxCalls,       \* bound: calls made
    MaxMcpFaults    \* bound: failures of Redis, Logto, the API or the database

QuotaWindows == {"daily", "weekly"}

ASSUME McpConstants ==
    /\ QuotaLimit \in [QuotaWindows -> Nat \ {0}] /\ QuotaWindow \in [QuotaWindows -> Nat \ {0}]
    /\ TokenLife \in Nat \ {0} /\ SafetyMargin \in Nat /\ TokenCacheTtl \in Nat \ {0}
    /\ IsFiniteSet(McpCall) /\ CallPatience \in Nat /\ MaxCalls \in Nat /\ MaxMcpFaults \in Nat

VARIABLES
    revokedFor,     \* time since each PAT was revoked, 0 while it is not
    rotation,       \* how far Logto has rotated its signing key
    tokenCache,     \* Redis: [kid, life, left] of the token of each PAT
    jwks,           \* the keys the verifier has
    counter,        \* Redis: [value, left] of each user and window
    counted,        \* ghost: for each user and length of time, calls counted in it up to now
    successRows,    \* search_usage_events of each PAT with status success, the only ones read
    analyticsRows,  \* agent_search_events of each PAT
    answered,       \* answers given to each PAT
    callsMade,
    mcpCall,        \* [at, pat, kid, life, spent]: what each call is doing
    dashboard,      \* [at, user, window, used, spent]: one read of the windows
    mcpFaults

mcpVars == <<revokedFor, rotation, tokenCache, jwks, counter, counted, successRows,
             analyticsRows, answered, callsMade, mcpCall, dashboard, mcpFaults>>
authVars == <<revokedFor, rotation, tokenCache, jwks>>
quotaVars == <<counter, counted>>
ledgerVars == <<successRows, analyticsRows, answered, callsMade>>

McpUser == {UserOf[p] : p \in Pat}
Oldness == 0..(Max({QuotaWindow[w] : w \in QuotaWindows}) + CallPatience)
NoCall == [at |-> "idle", pat |-> CHOOSE p \in Pat : TRUE, kid |-> 0, life |-> 0, spent |-> 0]
NoToken == [kid |-> 0, life |-> 0, left |-> 0]
NoCounter == [value |-> 0, left |-> 0]
NoRead == [at |-> "idle", user |-> CHOOSE u \in McpUser : TRUE, window |-> "daily",
           used |-> 0, spent |-> 0]

McpInit ==
    /\ revokedFor = [p \in Pat |-> 0] /\ rotation = 1
    /\ tokenCache = [p \in Pat |-> NoToken] /\ jwks = {}
    /\ counter = [u \in McpUser |-> [w \in QuotaWindows |-> NoCounter]]
    /\ counted = [u \in McpUser |-> [a \in Oldness |-> 0]]
    /\ successRows = [p \in Pat |-> 0]
    /\ analyticsRows = [p \in Pat |-> 0] /\ answered = [p \in Pat |-> 0] /\ callsMade = 0
    /\ mcpCall = [c \in McpCall |-> NoCall]
    /\ dashboard = NoRead
    /\ mcpFaults = 0

McpFault == mcpFaults < MaxMcpFaults /\ mcpFaults' = mcpFaults + 1

\* Logto signs with one key, publishes the next one beside it, and drops the old.
PublishedKeys == CASE rotation = 1 -> {1} [] rotation = 2 -> {1, 2} [] OTHER -> {2}
SigningKey == Max(PublishedKeys)

-----------------------------------------------------------------------------
(* The environment *)

Less(n) == IF n = 0 THEN 0 ELSE n - 1

LongRevoked == TokenCacheTtl + 2 * CallPatience + 2

\* The dashboard is between two commands, or between its two windows.
ReadGoesOn == dashboard.at = "ttl" \/ (dashboard.at = "shown" /\ dashboard.window = "daily")

McpTick ==
    /\ \A c \in McpCall : mcpCall[c].at = "idle" \/ mcpCall[c].spent < CallPatience
    /\ ~ ReadGoesOn \/ dashboard.spent < CallPatience
    /\ revokedFor' = [p \in Pat |->
           IF revokedFor[p] \in 1..(LongRevoked - 1) THEN revokedFor[p] + 1 ELSE revokedFor[p]]
    /\ tokenCache' = [p \in Pat |->
           IF tokenCache[p].left <= 1 THEN NoToken
           ELSE [tokenCache[p] EXCEPT !.life = Less(@), !.left = @ - 1]]
    /\ counter' = [u \in McpUser |-> [w \in QuotaWindows |->
           IF counter[u][w].left <= 1 THEN NoCounter ELSE [counter[u][w] EXCEPT !.left = @ - 1]]]
    /\ counted' = [u \in McpUser |-> [a \in Oldness |-> IF a = 0 THEN 0 ELSE counted[u][a - 1]]]
    /\ mcpCall' = [c \in McpCall |->
           IF mcpCall[c].at = "idle" THEN NoCall
           ELSE [mcpCall[c] EXCEPT !.life = Less(@), !.spent = @ + 1]]
    /\ dashboard' = IF ReadGoesOn THEN [dashboard EXCEPT !.spent = @ + 1] ELSE NoRead
    /\ UNCHANGED <<rotation, jwks, ledgerVars, mcpFaults>>

\* A revoked PAT counts from 1, so that 0 is a PAT that is valid.
RevokesPat(p) ==
    /\ revokedFor[p] = 0
    /\ revokedFor' = [revokedFor EXCEPT ![p] = 1]
    /\ UNCHANGED <<rotation, tokenCache, jwks, quotaVars, ledgerVars, mcpCall, dashboard, mcpFaults>>

RotatesKey ==
    /\ rotation < 3 /\ rotation' = rotation + 1
    /\ UNCHANGED <<revokedFor, tokenCache, jwks, quotaVars, ledgerVars, mcpCall, dashboard, mcpFaults>>

-----------------------------------------------------------------------------
(* AuthContextMiddleware *)

GoesOn(c, at) == mcpCall' = [mcpCall EXCEPT ![c].at = at]
EndsCall(c) == mcpCall' = [mcpCall EXCEPT ![c] = NoCall]

\* A request with a PAT: _load_cached_result.
CallsSearch(c, p) ==
    LET entry == tokenCache[p]  call == [NoCall EXCEPT !.pat = p, !.kid = entry.kid, !.life = entry.life] IN
    /\ c = Min({d \in McpCall : mcpCall[d].at = "idle"} \cup {c}) /\ mcpCall[c].at = "idle"
    /\ callsMade < MaxCalls /\ callsMade' = callsMade + 1
    /\ mcpCall' = [mcpCall EXCEPT ![c] = [call EXCEPT !.at = IF entry = NoToken THEN "exchange" ELSE "verify"]]
    /\ UNCHANGED <<authVars, quotaVars, successRows, analyticsRows, answered, dashboard, mcpFaults>>

\* _request_token_exchange: Logto rejects a PAT that is revoked.
ExchangesPat(c) ==
    /\ mcpCall[c].at = "exchange"
    /\ IF revokedFor[mcpCall[c].pat] > 0 THEN EndsCall(c)
       ELSE mcpCall' = [mcpCall EXCEPT ![c].at = "store", ![c].kid = SigningKey, ![c].life = TokenLife]
    /\ UNCHANGED <<authVars, quotaVars, ledgerVars, dashboard, mcpFaults>>

\* _store_cached_result: the TTL is that of the answer, at whatever time it is stored.
StoresToken(c) ==
    LET ttl == Max({1, Min({TokenLife - SafetyMargin, TokenCacheTtl})}) IN
    /\ mcpCall[c].at = "store"
    /\ tokenCache' = [tokenCache EXCEPT ![mcpCall[c].pat] =
                         [kid |-> mcpCall[c].kid, life |-> mcpCall[c].life, left |-> ttl]]
    /\ GoesOn(c, "verify")
    /\ UNCHANGED <<revokedFor, rotation, jwks, quotaVars, ledgerVars, dashboard, mcpFaults>>

\* verify_access_token: the keys are loaded again if the token has another.
VerifiesToken(c) ==
    /\ mcpCall[c].at = "verify"
    /\ jwks' = IF mcpCall[c].kid \in jwks THEN jwks ELSE PublishedKeys
    /\ IF mcpCall[c].kid \in jwks' /\ mcpCall[c].life > 0
       THEN mcpCall' = [mcpCall EXCEPT ![c].at = "reserve", ![c].kid = 0, ![c].life = 0]
       ELSE EndsCall(c)
    /\ UNCHANGED <<revokedFor, rotation, tokenCache, quotaVars, ledgerVars, dashboard, mcpFaults>>

\* 503, or an error of Redis.
AuthUnavailable(c) ==
    /\ mcpCall[c].at \in {"exchange", "store"} \/ (mcpCall[c].at = "verify" /\ mcpCall[c].kid \notin jwks)
    /\ McpFault
    /\ EndsCall(c)
    /\ UNCHANGED <<authVars, quotaVars, ledgerVars, dashboard>>

-----------------------------------------------------------------------------
(* QuotaStore and SearchTool.search *)

\* Mutant: every counted call starts the window again.
CountedSliding(u) ==
    /\ counter' = [counter EXCEPT ![u] = [w \in QuotaWindows |->
           [value |-> @[w].value + 1, left |-> QuotaWindow[w]]]]
    /\ counted' = [counted EXCEPT ![u] = [a \in Oldness |-> @[a] + 1]]

\* INCRBY, and EXPIRE for the call that made the counter.
Counted(u) ==
    /\ counter' = [counter EXCEPT ![u] = [w \in QuotaWindows |->
           [value |-> @[w].value + 1, left |-> IF @[w].value = 0 THEN QuotaWindow[w] ELSE @[w].left]]]
    /\ counted' = [counted EXCEPT ![u] = [a \in Oldness |-> @[a] + 1]]

Full(u) == \E w \in QuotaWindows : counter[u][w].value + 1 > QuotaLimit[w]

\* RESERVE_SCRIPT.
Reserves(c) ==
    LET u == UserOf[mcpCall[c].pat] IN
    /\ mcpCall[c].at = "reserve"
    /\ IF Full(u) THEN GoesOn(c, "quota_rejected") /\ UNCHANGED quotaVars
       ELSE GoesOn(c, "search") /\ Counted(u)
    /\ UNCHANGED <<authVars, ledgerVars, dashboard, mcpFaults>>

\* The reservation fails, perhaps when the script had run.
ReserveFails(c) ==
    LET u == UserOf[mcpCall[c].pat] IN
    /\ mcpCall[c].at = "reserve" /\ McpFault
    /\ EndsCall(c)
    /\ UNCHANGED quotaVars \/ (~ Full(u) /\ Counted(u))
    /\ UNCHANGED <<authVars, ledgerVars, dashboard>>

\* InternalSearchService.search answers or raises; the quota stays used.
Searches(c) ==
    /\ mcpCall[c].at = "search"
    /\ \/ GoesOn(c, "success") /\ UNCHANGED mcpFaults
       \/ GoesOn(c, "error") /\ McpFault
    /\ UNCHANGED <<authVars, quotaVars, ledgerVars, dashboard>>

\* _record_usage, in a transaction of its own.
RecordsUsage(c) ==
    LET status == mcpCall[c].at IN
    /\ status \in {"success", "error", "quota_rejected"}
    /\ IF status = "success"
       THEN successRows' = [successRows EXCEPT ![mcpCall[c].pat] = @ + 1] /\ GoesOn(c, "analytics")
       ELSE UNCHANGED successRows /\ EndsCall(c)
    /\ UNCHANGED <<authVars, quotaVars, analyticsRows, answered, callsMade, dashboard, mcpFaults>>

\* _record_agent_search_analytics, in another one, and the answer.
RecordsAnalytics(c) ==
    LET p == mcpCall[c].pat IN
    /\ mcpCall[c].at = "analytics"
    /\ analyticsRows' = [analyticsRows EXCEPT ![p] = @ + 1]
    /\ answered' = [answered EXCEPT ![p] = @ + 1]
    /\ EndsCall(c)
    /\ UNCHANGED <<authVars, quotaVars, successRows, callsMade, dashboard, mcpFaults>>

\* A row is not written, or is written and the commit not answered: the
\* call fails, though the search has succeeded.
RecordFails(c) ==
    LET p == mcpCall[c].pat  status == mcpCall[c].at IN
    /\ status \in {"success", "error", "quota_rejected", "analytics"} /\ McpFault
    /\ EndsCall(c)
    /\ \/ UNCHANGED <<successRows, analyticsRows>>
       \/ /\ status = "analytics" /\ UNCHANGED successRows
          /\ analyticsRows' = [analyticsRows EXCEPT ![p] = @ + 1]
       \/ /\ status = "success" /\ UNCHANGED analyticsRows
          /\ successRows' = [successRows EXCEPT ![p] = @ + 1]
    /\ UNCHANGED <<authVars, quotaVars, answered, callsMade, dashboard>>

-----------------------------------------------------------------------------
(* The dashboard endpoints *)

\* get_summary reads the daily and then the weekly window.
\* _window_snapshot: GET; a window without a counter is shown as not started.
ReadsCounter(u, w) ==
    /\ \/ w = "daily" /\ dashboard.at = "idle"
       \/ w = "weekly" /\ dashboard.at = "shown" /\ dashboard.window = "daily" /\ dashboard.user = u
    /\ dashboard' = [dashboard EXCEPT
           !.user = u, !.window = w, !.used = counter[u][w].value,
           !.at = IF counter[u][w].value = 0 THEN "shown" ELSE "ttl"]
    /\ UNCHANGED <<authVars, quotaVars, ledgerVars, mcpCall, mcpFaults>>

\* TTL; a counter that expired in between is an error.
ReadsTtl ==
    /\ dashboard.at = "ttl"
    /\ dashboard' = IF counter[dashboard.user][dashboard.window].left < 1 THEN NoRead
                    ELSE [dashboard EXCEPT !.at = "shown"]
    /\ UNCHANGED <<authVars, quotaVars, ledgerVars, mcpCall, mcpFaults>>

\* get_search_usage_summaries.
SearchUsageSummary(p) == successRows[p]

-----------------------------------------------------------------------------

McpNext ==
    \/ McpTick \/ RotatesKey \/ ReadsTtl
    \/ \E p \in Pat : RevokesPat(p)
    \/ \E u \in McpUser, w \in QuotaWindows : ReadsCounter(u, w)
    \/ \E c \in McpCall :
        \/ \E p \in Pat : CallsSearch(c, p)
        \/ ExchangesPat(c) \/ StoresToken(c) \/ VerifiesToken(c) \/ AuthUnavailable(c)
        \/ Reserves(c) \/ ReserveFails(c) \/ Searches(c)
        \/ RecordsUsage(c) \/ RecordsAnalytics(c) \/ RecordFails(c)

McpSpec == McpInit /\ [][McpNext]_mcpVars

\* "From the user's first counted request in that window": a counter holds
\* just the calls since the one that started it, and ends a window later.
WindowsAreAnchored ==
    \A u \in McpUser, w \in QuotaWindows :
        LET k == counter[u][w]  age == QuotaWindow[w] - k.left IN
        k.value > 0 =>
            /\ age = 0 \/ counted[u][age] > counted[u][age - 1]
            /\ k.value = counted[u][age]
            /\ k.value <= QuotaLimit[w]

\* A revoked PAT is answered only within the time of a cached token, the
\* call that cached it and the call that used it.
RevocationIsEnforced ==
    \A c \in McpCall : mcpCall[c].at = "analytics" =>
        revokedFor[mcpCall[c].pat] <= TokenCacheTtl + 2 * CallPatience + 1

\* An answer has its two rows; rows without an answer are calls in flight
\* and calls that a fault cut short.
AnswersAreRecorded ==
    \A p \in Pat :
        LET inFlight == Cardinality({c \in McpCall : mcpCall[c].pat = p /\ mcpCall[c].at = "analytics"})
        IN  /\ answered[p] <= analyticsRows[p] /\ analyticsRows[p] <= SearchUsageSummary(p)
            /\ SearchUsageSummary(p) <= answered[p] + inFlight + mcpFaults

\* What the dashboard shows as used was counted within a window and a read.
ShownIsCounted ==
    dashboard.at = "shown" =>
        dashboard.used <= counted[dashboard.user][QuotaWindow[dashboard.window] + dashboard.spent]

\* Whoever is answered was entitled to be, and it was counted: whatever is
\* revoked, rotated, expired, lost or concurrent with it.
AnswersAreEntitled ==
    /\ WindowsAreAnchored /\ RevocationIsEnforced /\ AnswersAreRecorded /\ ShownIsCounted
=============================================================================
