--------------------------- MODULE McpAccessProofs ----------------------------
(*****************************************************************************)
(* Proofs about McpAccess: for any windows, limits, lives of tokens and      *)
(* number of concurrent calls, the counters hold the calls of their window,  *)
(* a revoked PAT is not answered for long, every answer has its rows, and    *)
(* the dashboard shows what was counted.                                     *)
(*****************************************************************************)
EXTENDS McpAccess, FiniteSetTheorems, TLAPS

CallStates == {"idle", "exchange", "store", "verify", "reserve", "search",
               "success", "error", "quota_rejected", "analytics"}

CallRecord == [at : CallStates, pat : Pat \cup {NoCall.pat}, kid : Nat, life : Nat, spent : 0..CallPatience]
TokenRecord == [kid : Nat, life : Nat, left : 0..TokenCacheTtl]
CounterRecord == [value : Nat, left : Nat]
ReadRecord == [at : {"idle", "ttl", "shown"}, user : McpUser \cup {NoRead.user},
               window : QuotaWindows, used : Nat, spent : 0..CallPatience]

McpTypeOK ==
    /\ revokedFor \in [Pat -> 0..LongRevoked]
    /\ rotation \in 1..3
    /\ tokenCache \in [Pat -> TokenRecord]
    /\ counter \in [McpUser -> [QuotaWindows -> CounterRecord]]
    /\ counted \in [McpUser -> [Oldness -> Nat]]
    /\ successRows \in [Pat -> Nat] /\ analyticsRows \in [Pat -> Nat]
    /\ answered \in [Pat -> Nat] /\ callsMade \in Nat
    /\ mcpCall \in [McpCall -> CallRecord]
    /\ \A c \in McpCall : mcpCall[c].at # "idle" => mcpCall[c].pat \in Pat
    /\ dashboard \in ReadRecord
    /\ mcpFaults \in Nat

LEMMA LongestWindow ==
    /\ Oldness \subseteq Nat
    /\ \A w \in QuotaWindows : QuotaWindow[w] \in Nat \ {0} /\ QuotaWindow[w] + CallPatience \in Oldness
    /\ \A w \in QuotaWindows, s \in 0..CallPatience : QuotaWindow[w] + s \in Oldness
    /\ \A a \in Oldness : 0..a \subseteq Oldness
  <1> DEFINE d == QuotaWindow["daily"]  k == QuotaWindow["weekly"]
             S == {QuotaWindow[w] : w \in QuotaWindows}
  <1>1. S = {d, k} /\ d \in Nat \ {0} /\ k \in Nat \ {0} /\ CallPatience \in Nat
    BY McpConstants DEF QuotaWindows
  <1>2. \E x \in S : \A y \in S : x >= y
    <2>1. CASE d >= k
      BY <1>1, <2>1
    <2>2. CASE ~ d >= k
      BY <1>1, <2>2
    <2> QED BY <2>1, <2>2
  <1>3. Max(S) \in S /\ \A y \in S : Max(S) >= y
    BY <1>2 DEF Max
  <1>4. Oldness = 0..(Max(S) + CallPatience)
    BY DEF Oldness
  <1> HIDE DEF S
  <1>5. \A w \in QuotaWindows : QuotaWindow[w] \in S
    BY DEF S
  <1>6. Max(S) \in Nat
    BY <1>1, <1>3
  <1>7. \A w \in QuotaWindows : QuotaWindow[w] \in Nat \ {0} /\ Max(S) >= QuotaWindow[w]
    BY <1>3, <1>5, McpConstants
  <1> DEFINE m == Max(S)
  <1> HIDE DEF m
  <1>8. Oldness = 0..(m + CallPatience) /\ m \in Nat /\ CallPatience \in Nat
    BY <1>1, <1>4, <1>6 DEF m
  <1>9. \A w \in QuotaWindows : QuotaWindow[w] \in Nat \ {0} /\ m >= QuotaWindow[w]
    BY <1>7 DEF m
  <1>10. \A w \in QuotaWindows, s \in 0..CallPatience : QuotaWindow[w] + s \in Oldness
    BY <1>8, <1>9
  <1>a. CallPatience \in 0..CallPatience
    BY <1>8
  <1> QED BY <1>8, <1>9, <1>10, <1>a

LEMMA KeysAreNumbers == rotation \in 1..3 => SigningKey \in Nat
  <1> SUFFICES ASSUME rotation \in 1..3 PROVE SigningKey \in Nat
    OBVIOUS
  <1>1. PublishedKeys \in {{1}, {1, 2}, {2}}
    BY DEF PublishedKeys
  <1>2. Max({1}) = 1 /\ Max({1, 2}) = 2 /\ Max({2}) = 2
    BY DEF Max
  <1> QED BY <1>1, <1>2 DEF SigningKey

\* The TTL that StoresToken gives a token.
StoreTtl == Max({1, Min({TokenLife - SafetyMargin, TokenCacheTtl})})

LEMMA StoreTtlBounds == StoreTtl \in 1..TokenCacheTtl
  <1> DEFINE x == TokenLife - SafetyMargin  m == Min({x, TokenCacheTtl})
  <1>1. x \in Int /\ TokenCacheTtl \in Nat \ {0}
    BY McpConstants
  <1>2. m \in {x, TokenCacheTtl} /\ m <= x /\ m <= TokenCacheTtl
    <2>1. \E y \in {x, TokenCacheTtl} : \A z \in {x, TokenCacheTtl} : y <= z
      <3>1. CASE x <= TokenCacheTtl
        BY <1>1, <3>1
      <3>2. CASE ~ x <= TokenCacheTtl
        BY <1>1, <3>2
      <3> QED BY <3>1, <3>2
    <2> QED BY <2>1 DEF Min
  <1> HIDE DEF m
  <1>3. Max({1, m}) \in {1, m} /\ Max({1, m}) >= 1
    <2>0. m \in Int
      BY <1>1, <1>2
    <2>1. \E y \in {1, m} : \A z \in {1, m} : y >= z
      <3>1. CASE 1 >= m
        BY <2>0, <3>1
      <3>2. CASE ~ 1 >= m
        BY <2>0, <3>2
      <3> QED BY <3>1, <3>2
    <2> QED BY <2>1 DEF Max
  <1> QED BY <1>1, <1>2, <1>3 DEF StoreTtl, m


LEMMA NothingTypes ==
    /\ NoCall \in CallRecord /\ NoCall.at = "idle" /\ NoCall.spent = 0
    /\ NoToken \in TokenRecord /\ NoToken.left = 0
    /\ NoCounter \in CounterRecord /\ NoCounter.value = 0
    /\ NoRead \in ReadRecord /\ NoRead.at = "idle" /\ NoRead.spent = 0
  <1>1. CallPatience \in Nat /\ TokenCacheTtl \in Nat
    BY McpConstants
  <1>2. NoCall \in CallRecord /\ NoCall.at = "idle" /\ NoCall.spent = 0
    BY <1>1 DEF NoCall, CallRecord, CallStates
  <1>3. NoRead \in ReadRecord /\ NoRead.at = "idle" /\ NoRead.spent = 0
    BY <1>1 DEF NoRead, ReadRecord, QuotaWindows
  <1> QED BY <1>1, <1>2, <1>3 DEF NoToken, NoCounter, TokenRecord, CounterRecord

\* A call goes on, or ends; the others stay as they are.
OnlyCall(c, call) ==
    /\ mcpCall'[c] = call
    /\ \A d \in McpCall \ {c} : mcpCall'[d] = mcpCall[d]

LEMMA CallGoesOn ==
    ASSUME McpTypeOK, NEW c \in McpCall, NEW at \in CallStates, GoesOn(c, at)
    PROVE  OnlyCall(c, [mcpCall[c] EXCEPT !.at = at])
    BY DEF McpTypeOK, GoesOn, OnlyCall

LEMMA CallEnds ==
    ASSUME McpTypeOK, NEW c \in McpCall, EndsCall(c)
    PROVE  OnlyCall(c, NoCall)
    BY DEF McpTypeOK, EndsCall, OnlyCall

\* Every step of a call c, by what becomes of it.
CallSteps(c) ==
    \/ ExchangesPat(c) \/ StoresToken(c) \/ VerifiesToken(c) \/ AuthUnavailable(c)
    \/ Reserves(c) \/ ReserveFails(c) \/ Searches(c)
    \/ RecordsUsage(c) \/ RecordsAnalytics(c) \/ RecordFails(c)

NewCall(p) ==
    [at |-> IF tokenCache[p] = NoToken THEN "exchange" ELSE "verify", pat |-> p,
     kid |-> tokenCache[p].kid, life |-> tokenCache[p].life, spent |-> 0]

LEMMA CallsSearchOutcome ==
    ASSUME McpTypeOK, NEW c \in McpCall, NEW p \in Pat, CallsSearch(c, p)
    PROVE  OnlyCall(c, NewCall(p)) /\ mcpCall[c].at = "idle"
    BY DEF McpTypeOK, CallsSearch, OnlyCall, NewCall, NoCall

\* From where to where the steps of a call lead.
Transition(c) ==
    LET from == mcpCall[c].at  to == mcpCall'[c].at IN
    /\ from # "idle"
    /\ \/ to = "idle" /\ mcpCall'[c] = NoCall
       \/ /\ mcpCall'[c].pat = mcpCall[c].pat /\ mcpCall'[c].spent = mcpCall[c].spent
          /\ <<from, to>> \in {<<"exchange", "store">>, <<"store", "verify">>, <<"verify", "reserve">>,
                               <<"reserve", "quota_rejected">>, <<"reserve", "search">>,
                               <<"search", "success">>, <<"search", "error">>, <<"success", "analytics">>}
          /\ from = "exchange" => revokedFor[mcpCall[c].pat] = 0

LEMMA CallOutcome ==
    ASSUME McpTypeOK, NEW c \in McpCall, CallSteps(c)
    PROVE  /\ Transition(c) /\ mcpCall'[c] \in CallRecord
           /\ \A d \in McpCall \ {c} : mcpCall'[d] = mcpCall[d]
           /\ mcpCall' \in [McpCall -> CallRecord]
  <1> DEFINE Goal == /\ Transition(c) /\ mcpCall'[c] \in CallRecord
                     /\ \A d \in McpCall \ {c} : mcpCall'[d] = mcpCall[d]
  <1>a. \E f : mcpCall' = [mcpCall EXCEPT ![c] = f]
    BY DEF CallSteps, ExchangesPat, VerifiesToken, StoresToken, AuthUnavailable, ReserveFails,
           RecordFails, RecordsAnalytics, Reserves, Searches, RecordsUsage, GoesOn, EndsCall
  <1> SUFFICES Goal
    BY <1>a DEF McpTypeOK
  <1>0. mcpCall[c] \in CallRecord
    BY DEF McpTypeOK
  <1>1. ASSUME NEW at \in CallStates, GoesOn(c, at),
               <<mcpCall[c].at, at>> \in {<<"store", "verify">>, <<"reserve", "quota_rejected">>,
                   <<"reserve", "search">>, <<"search", "success">>, <<"search", "error">>,
                   <<"success", "analytics">>}
        PROVE  Goal
    <2>1. OnlyCall(c, [mcpCall[c] EXCEPT !.at = at])
      BY <1>1, CallGoesOn
    <2> QED BY <1>0, <1>1, <2>1 DEF OnlyCall, Transition, CallRecord
  <1>2. ASSUME EndsCall(c), mcpCall[c].at # "idle" PROVE Goal
    <2>1. OnlyCall(c, NoCall)
      BY <1>2, CallEnds
    <2> QED BY <1>2, <2>1, NothingTypes DEF OnlyCall, Transition
  <1>3. CASE ExchangesPat(c)
    <2>1. CASE EndsCall(c)
      BY <1>2, <1>3, <2>1 DEF ExchangesPat
    <2>2. CASE ~ EndsCall(c)
      <3>1. /\ mcpCall[c].at = "exchange" /\ ~ revokedFor[mcpCall[c].pat] > 0
            /\ mcpCall' = [mcpCall EXCEPT ![c].at = "store", ![c].kid = SigningKey, ![c].life = TokenLife]
        BY <1>3, <2>2 DEF ExchangesPat
      <3>2. SigningKey \in Nat /\ TokenLife \in Nat /\ rotation \in 1..3
        BY KeysAreNumbers, McpConstants DEF McpTypeOK
      <3>3. mcpCall'[c] = [mcpCall[c] EXCEPT !.at = "store", !.kid = SigningKey, !.life = TokenLife]
            /\ \A d \in McpCall \ {c} : mcpCall'[d] = mcpCall[d]
        BY <3>1 DEF McpTypeOK
      <3>4. revokedFor[mcpCall[c].pat] = 0
        <4>1. mcpCall[c].pat \in Pat /\ LongRevoked \in Nat
          BY <3>1, McpConstants DEF McpTypeOK, LongRevoked
        <4> QED BY <3>1, <4>1 DEF McpTypeOK
      <3>5. mcpCall'[c] \in CallRecord
        BY <1>0, <3>2, <3>3 DEF CallRecord, CallStates
      <3>6. mcpCall'[c].at = "store" /\ mcpCall'[c].pat = mcpCall[c].pat /\ mcpCall'[c].spent = mcpCall[c].spent
        BY <1>0, <3>3 DEF CallRecord
      <3> QED BY <3>1, <3>3, <3>4, <3>5, <3>6 DEF Transition
    <2> QED BY <2>1, <2>2
  <1>4. CASE VerifiesToken(c)
    <2>1. CASE EndsCall(c)
      BY <1>2, <1>4, <2>1 DEF VerifiesToken
    <2>2. CASE ~ EndsCall(c)
      <3>1. /\ mcpCall[c].at = "verify"
            /\ mcpCall' = [mcpCall EXCEPT ![c].at = "reserve", ![c].kid = 0, ![c].life = 0]
        BY <1>4, <2>2 DEF VerifiesToken
      <3>2. mcpCall'[c] = [mcpCall[c] EXCEPT !.at = "reserve", !.kid = 0, !.life = 0]
            /\ \A d \in McpCall \ {c} : mcpCall'[d] = mcpCall[d]
        BY <3>1 DEF McpTypeOK
      <3>3. /\ mcpCall'[c].at = "reserve" /\ mcpCall'[c].pat = mcpCall[c].pat
            /\ mcpCall'[c].spent = mcpCall[c].spent
        BY <1>0, <3>2 DEF CallRecord
      <3>4. mcpCall'[c] \in CallRecord
        <4>1. "reserve" \in CallStates /\ 0 \in Nat
          BY DEF CallStates
        <4> QED BY <1>0, <3>2, <4>1 DEF CallRecord
      <3> QED BY <3>1, <3>2, <3>3, <3>4 DEF Transition
    <2> QED BY <2>1, <2>2
  <1>5. CASE StoresToken(c)
    BY <1>1, <1>5 DEF StoresToken, CallStates
  <1>6. CASE AuthUnavailable(c) \/ ReserveFails(c) \/ RecordFails(c) \/ RecordsAnalytics(c)
    <2>1. EndsCall(c) /\ mcpCall[c].at # "idle"
      BY <1>6 DEF AuthUnavailable, ReserveFails, RecordFails, RecordsAnalytics
    <2> QED BY <1>2, <2>1
  <1>7. CASE Reserves(c)
    BY <1>1, <1>7 DEF Reserves, CallStates
  <1>8. CASE Searches(c)
    BY <1>1, <1>8 DEF Searches, CallStates
  <1>9. CASE RecordsUsage(c)
    <2>1. CASE mcpCall[c].at = "success"
      BY <1>1, <1>9, <2>1 DEF RecordsUsage, CallStates
    <2>2. CASE mcpCall[c].at # "success"
      BY <1>2, <1>9, <2>2 DEF RecordsUsage
    <2> QED BY <2>1, <2>2
  <1> QED
    BY <1>3, <1>4, <1>5, <1>6, <1>7, <1>8, <1>9 DEF CallSteps


LEMMA QuotaTypes ==
    ASSUME McpTypeOK, NEW u \in McpUser, Counted(u)
    PROVE  /\ counter' \in [McpUser -> [QuotaWindows -> CounterRecord]]
           /\ counted' \in [McpUser -> [Oldness -> Nat]]
  <1>1. \A w \in QuotaWindows : QuotaWindow[w] \in Nat
    BY LongestWindow
  <1>2. \A w \in QuotaWindows : counter[u][w] \in CounterRecord
    BY DEF McpTypeOK
  <1>3. [w \in QuotaWindows |->
           [value |-> counter[u][w].value + 1,
            left |-> IF counter[u][w].value = 0 THEN QuotaWindow[w] ELSE counter[u][w].left]]
        \in [QuotaWindows -> CounterRecord]
    BY <1>1, <1>2 DEF CounterRecord
  <1>4. [a \in Oldness |-> counted[u][a] + 1] \in [Oldness -> Nat]
    BY DEF McpTypeOK
  <1> QED BY <1>3, <1>4 DEF McpTypeOK, Counted

\* What a step of a call does to the rest.
LEMMA CallEffects ==
    ASSUME McpTypeOK, NEW c \in McpCall, CallSteps(c)
    PROVE  /\ UNCHANGED <<revokedFor, rotation, dashboard, callsMade>>
           /\ mcpFaults' = mcpFaults \/ mcpFaults' = mcpFaults + 1
           /\ tokenCache' = tokenCache \/ StoresToken(c)
           /\ UNCHANGED quotaVars \/ (mcpCall[c].at = "reserve" /\ ~ Full(UserOf[mcpCall[c].pat])
                                          /\ Counted(UserOf[mcpCall[c].pat]))
    BY DEF CallSteps, ExchangesPat, StoresToken, VerifiesToken, AuthUnavailable, Reserves, ReserveFails,
           Searches, RecordsUsage, RecordsAnalytics, RecordFails, authVars, ledgerVars, quotaVars, McpFault

LEMMA LedgerEffects ==
    ASSUME McpTypeOK, NEW c \in McpCall, CallSteps(c)
    PROVE  LET p == mcpCall[c].pat  from == mcpCall[c].at  to == mcpCall'[c].at IN
           \/ UNCHANGED <<successRows, analyticsRows, answered>> /\ (from # "analytics" \/ mcpFaults' = mcpFaults + 1)
              /\ to # "analytics"
           \/ /\ from = "success" /\ successRows' = [successRows EXCEPT ![p] = @ + 1]
              /\ UNCHANGED <<analyticsRows, answered>>
              /\ to = "analytics" \/ (to = "idle" /\ mcpFaults' = mcpFaults + 1)
           \/ /\ from = "analytics" /\ to = "idle"
              /\ analyticsRows' = [analyticsRows EXCEPT ![p] = @ + 1] /\ UNCHANGED successRows
              /\ \/ answered' = [answered EXCEPT ![p] = @ + 1]
                 \/ answered' = answered /\ mcpFaults' = mcpFaults + 1
  <1>1. Transition(c)
    BY CallOutcome
  <1>2. CASE \/ ExchangesPat(c) \/ StoresToken(c) \/ VerifiesToken(c) \/ AuthUnavailable(c)
             \/ Reserves(c) \/ ReserveFails(c) \/ Searches(c)
    BY <1>1, <1>2 DEF ExchangesPat, StoresToken, VerifiesToken, AuthUnavailable, Reserves, ReserveFails,
           Searches, ledgerVars, Transition
  <1>3. CASE RecordsUsage(c) /\ mcpCall[c].at = "success"
    <2>1. OnlyCall(c, [mcpCall[c] EXCEPT !.at = "analytics"])
      BY <1>3, CallGoesOn DEF RecordsUsage, CallStates
    <2>2. mcpCall'[c].at = "analytics"
      BY <2>1 DEF OnlyCall, McpTypeOK, CallRecord
    <2> QED BY <1>3, <2>2 DEF RecordsUsage
  <1>4. CASE RecordsUsage(c) /\ mcpCall[c].at # "success"
    BY <1>1, <1>4 DEF RecordsUsage, Transition
  <1>5. CASE RecordsAnalytics(c)
    BY <1>1, <1>5, NothingTypes DEF RecordsAnalytics, Transition
  <1>6. CASE RecordFails(c)
    <2>1. OnlyCall(c, NoCall)
      BY <1>6, CallEnds DEF RecordFails
    <2>2. mcpCall'[c].at = "idle" /\ mcpFaults' = mcpFaults + 1
      BY <1>6, <2>1, NothingTypes DEF OnlyCall, RecordFails, McpFault
    <2> QED BY <1>6, <2>2 DEF RecordFails
  <1> QED BY <1>2, <1>3, <1>4, <1>5, <1>6 DEF CallSteps

LEMMA NextSteps ==
    McpNext => \/ McpTick \/ RotatesKey \/ ReadsTtl
               \/ \E p \in Pat : RevokesPat(p)
               \/ \E u \in McpUser, w \in QuotaWindows : ReadsCounter(u, w)
               \/ \E c \in McpCall, p \in Pat : CallsSearch(c, p)
               \/ \E c \in McpCall : CallSteps(c)
    BY DEF McpNext, CallSteps

LEMMA TickTypes == ASSUME McpTypeOK, McpTick PROVE McpTypeOK'
  <1>0. LongRevoked \in Nat /\ CallPatience \in Nat /\ TokenCacheTtl \in Nat
    BY McpConstants DEF LongRevoked
  <1>a. \A n \in Nat : Less(n) \in Nat
    BY DEF Less
  <1>1. revokedFor' \in [Pat -> 0..LongRevoked]
    <2>1. \A p \in Pat : revokedFor[p] \in 0..LongRevoked
      BY DEF McpTypeOK
    <2>2. \A p \in Pat : (IF revokedFor[p] \in 1..(LongRevoked - 1) THEN revokedFor[p] + 1 ELSE revokedFor[p])
              \in 0..LongRevoked
      BY <1>0, <2>1
    <2>3. revokedFor' = [p \in Pat |->
              IF revokedFor[p] \in 1..(LongRevoked - 1) THEN revokedFor[p] + 1 ELSE revokedFor[p]]
      BY DEF McpTick
    <2> QED BY <2>2, <2>3
  <1>2. tokenCache' \in [Pat -> TokenRecord]
    <2>1. \A p \in Pat : tokenCache[p] \in TokenRecord
      BY DEF McpTypeOK
    <2>2. ASSUME NEW p \in Pat, ~ tokenCache[p].left <= 1
          PROVE  [tokenCache[p] EXCEPT !.life = Less(@), !.left = @ - 1] \in TokenRecord
      <3>1. tokenCache[p].left - 1 \in 0..TokenCacheTtl /\ Less(tokenCache[p].life) \in Nat
        BY <1>0, <1>a, <2>1, <2>2 DEF TokenRecord
      <3> QED BY <2>1, <3>1 DEF TokenRecord
    <2> QED BY <2>2, NothingTypes DEF McpTick
  <1>3. counter' \in [McpUser -> [QuotaWindows -> CounterRecord]]
    <2>1. \A u \in McpUser, w \in QuotaWindows : counter[u][w] \in CounterRecord
      BY DEF McpTypeOK
    <2>2. \A u \in McpUser, w \in QuotaWindows : ~ counter[u][w].left <= 1 =>
              [counter[u][w] EXCEPT !.left = @ - 1] \in CounterRecord
      BY <2>1 DEF CounterRecord
    <2> QED BY <2>2, NothingTypes DEF McpTick
  <1>4. counted' \in [McpUser -> [Oldness -> Nat]]
    <2>1. \A a \in Oldness : a # 0 => a - 1 \in Oldness
      BY LongestWindow
    <2> QED BY <2>1 DEF McpTypeOK, McpTick
  <1>5. mcpCall' \in [McpCall -> CallRecord] /\ \A c \in McpCall : mcpCall'[c].at # "idle" => mcpCall'[c].pat \in Pat
    <2>1. \A c \in McpCall : mcpCall[c] \in CallRecord
      BY DEF McpTypeOK
    <2>2. ASSUME NEW c \in McpCall, mcpCall[c].at # "idle"
          PROVE  LET d == [mcpCall[c] EXCEPT !.life = Less(@), !.spent = @ + 1]
                 IN  d \in CallRecord /\ d.pat = mcpCall[c].pat
      <3>1. mcpCall[c].spent < CallPatience
        BY <2>2 DEF McpTick
      <3>2. Less(mcpCall[c].life) \in Nat /\ mcpCall[c].spent + 1 \in 0..CallPatience
        BY <1>0, <1>a, <2>1, <3>1 DEF CallRecord
      <3> QED BY <2>1, <3>2 DEF CallRecord
    <2>3. \A c \in McpCall : mcpCall'[c] = IF mcpCall[c].at = "idle" THEN NoCall
                                           ELSE [mcpCall[c] EXCEPT !.life = Less(@), !.spent = @ + 1]
      BY DEF McpTick
    <2>4. mcpCall' \in [McpCall -> CallRecord]
      BY <2>2, NothingTypes DEF McpTick
    <2> QED BY <2>2, <2>3, <2>4, NothingTypes DEF McpTypeOK
  <1>6. dashboard' \in ReadRecord
    <2>1. ReadGoesOn => dashboard.spent < CallPatience /\ dashboard' = [dashboard EXCEPT !.spent = @ + 1]
      BY DEF McpTick
    <2>2. ~ ReadGoesOn => dashboard' = NoRead
      BY DEF McpTick
    <2>3. dashboard \in ReadRecord
      BY DEF McpTypeOK
    <2>4. ReadGoesOn => dashboard.spent + 1 \in 0..CallPatience
      BY <1>0, <2>1, <2>3 DEF ReadRecord
    <2> QED BY <2>1, <2>2, <2>3, <2>4, NothingTypes DEF ReadRecord
  <1> QED BY <1>1, <1>2, <1>3, <1>4, <1>5, <1>6 DEF McpTypeOK, McpTick, ledgerVars

\* The search and its bookkeeping keep their types.
THEOREM McpTypeCorrect == McpSpec => []McpTypeOK
  <1>0. LongRevoked \in Nat \ {0} /\ CallPatience \in Nat /\ TokenCacheTtl \in Nat \ {0}
    BY McpConstants DEF LongRevoked
  <1>1. McpInit => McpTypeOK
    BY <1>0, NothingTypes DEF McpInit, McpTypeOK
  <1>2. McpTypeOK /\ [McpNext]_mcpVars => McpTypeOK'
    <2> SUFFICES ASSUME McpTypeOK, [McpNext]_mcpVars PROVE McpTypeOK'
      OBVIOUS
    <2>1. CASE RotatesKey
      BY <2>1 DEF McpTypeOK, RotatesKey, quotaVars, ledgerVars
    <2>2. ASSUME ReadsTtl PROVE McpTypeOK'
      <3>1. dashboard' \in ReadRecord
        BY <2>2, NothingTypes DEF ReadsTtl, McpTypeOK, ReadRecord
      <3> QED BY <2>2, <3>1 DEF McpTypeOK, ReadsTtl, authVars, quotaVars, ledgerVars
    <2>3. ASSUME NEW p \in Pat, RevokesPat(p) PROVE McpTypeOK'
      BY <1>0, <2>3 DEF McpTypeOK, RevokesPat, quotaVars, ledgerVars
    <2>4. ASSUME NEW u \in McpUser, NEW w \in QuotaWindows, ReadsCounter(u, w) PROVE McpTypeOK'
      <3>1. counter[u][w].value \in Nat
        BY DEF McpTypeOK, CounterRecord
      <3>2. dashboard' \in ReadRecord
        BY <2>4, <3>1 DEF ReadsCounter, McpTypeOK, ReadRecord
      <3> QED BY <2>4, <3>2 DEF McpTypeOK, ReadsCounter, authVars, quotaVars, ledgerVars
    <2>5. ASSUME NEW c \in McpCall, NEW p \in Pat, CallsSearch(c, p) PROVE McpTypeOK'
      <3>1. OnlyCall(c, NewCall(p))
        BY <2>5, CallsSearchOutcome
      <3>2. NewCall(p) \in CallRecord /\ NewCall(p).pat = p
        BY <1>0 DEF NewCall, CallRecord, CallStates, McpTypeOK, TokenRecord
      <3>3. \E f : mcpCall' = [mcpCall EXCEPT ![c] = f]
        BY <2>5 DEF CallsSearch
      <3>4. mcpCall' \in [McpCall -> CallRecord] /\ \A d \in McpCall : mcpCall'[d].at # "idle" => mcpCall'[d].pat \in Pat
        BY <3>1, <3>2, <3>3 DEF McpTypeOK, OnlyCall
      <3> QED BY <2>5, <3>4 DEF McpTypeOK, CallsSearch, authVars, quotaVars
    <2>6. ASSUME NEW c \in McpCall, CallSteps(c) PROVE McpTypeOK'
      <3>1. /\ mcpCall' \in [McpCall -> CallRecord] /\ Transition(c)
            /\ \A d \in McpCall \ {c} : mcpCall'[d] = mcpCall[d]
        BY <2>6, CallOutcome
      <3>2. mcpCall[c].pat \in Pat /\ \A d \in McpCall : mcpCall'[d].at # "idle" => mcpCall'[d].pat \in Pat
        BY <3>1 DEF McpTypeOK, Transition
      <3>3. tokenCache' \in [Pat -> TokenRecord]
        <4>1. ASSUME StoresToken(c) PROVE tokenCache' \in [Pat -> TokenRecord]
          <5>1. tokenCache' = [tokenCache EXCEPT ![mcpCall[c].pat] =
                                  [kid |-> mcpCall[c].kid, life |-> mcpCall[c].life, left |-> StoreTtl]]
            BY <4>1 DEF StoresToken, StoreTtl
          <5>2. mcpCall[c] \in CallRecord /\ StoreTtl \in 0..TokenCacheTtl
            BY StoreTtlBounds DEF McpTypeOK
          <5>3. [kid |-> mcpCall[c].kid, life |-> mcpCall[c].life, left |-> StoreTtl] \in TokenRecord
            BY <5>2 DEF CallRecord, TokenRecord
          <5> QED BY <5>1, <5>3 DEF McpTypeOK
        <4> QED BY <2>6, <4>1, CallEffects DEF McpTypeOK
      <3>4. counter' \in [McpUser -> [QuotaWindows -> CounterRecord]] /\ counted' \in [McpUser -> [Oldness -> Nat]]
        <4>1. UserOf[mcpCall[c].pat] \in McpUser
          BY <3>2 DEF McpUser
        <4> QED BY <2>6, <4>1, CallEffects, QuotaTypes DEF McpTypeOK, quotaVars
      <3>5. /\ successRows' \in [Pat -> Nat] /\ analyticsRows' \in [Pat -> Nat]
            /\ answered' \in [Pat -> Nat]
        BY <2>6, <3>2, LedgerEffects DEF McpTypeOK
      <3>6. mcpFaults' \in Nat /\ UNCHANGED <<revokedFor, rotation, dashboard, callsMade>>
        BY <2>6, CallEffects DEF McpTypeOK
      <3> QED BY <3>1, <3>2, <3>3, <3>4, <3>5, <3>6 DEF McpTypeOK
    <2>7. CASE UNCHANGED mcpVars
      BY <2>7 DEF McpTypeOK, mcpVars
    <2> QED BY <2>1, <2>2, <2>3, <2>4, <2>5, <2>6, <2>7, TickTypes, NextSteps
  <1> QED BY <1>1, <1>2, PTL DEF McpSpec

\* A window of a user, and how long ago the call was that began it.
Age(u, w) == QuotaWindow[w] - counter[u][w].left

Anchored(u, w) ==
    counter[u][w].value > 0 =>
        /\ counter[u][w].left \in 1..QuotaWindow[w]
        /\ Age(u, w) = 0 \/ counted[u][Age(u, w)] > counted[u][Age(u, w) - 1]
        /\ counter[u][w].value = counted[u][Age(u, w)]
        /\ counter[u][w].value <= QuotaLimit[w]

\* A window that has not been started had no call in this instant.
QuotaInv ==
    /\ \A u \in McpUser, w \in QuotaWindows : counter[u][w].value = 0 => counted[u][0] = 0
    /\ \A u \in McpUser, w \in QuotaWindows : Anchored(u, w)
    /\ \A u \in McpUser, a, b \in Oldness : a <= b => counted[u][a] <= counted[u][b]

\* Where a call stands in front of which a token was found valid.
Verified == {"verify", "reserve", "search", "success", "error", "quota_rejected", "analytics"}

RevocationInv ==
    /\ \A p \in Pat :
        /\ tokenCache[p].left = 0 => tokenCache[p] = NoToken
        /\ tokenCache[p].left > 0 => revokedFor[p] + tokenCache[p].left <= TokenCacheTtl + CallPatience + 1
    /\ \A c \in McpCall :
        LET call == mcpCall[c] IN
        /\ call.at = "store" => revokedFor[call.pat] <= call.spent + 1
        /\ call.at \in Verified => revokedFor[call.pat] <= TokenCacheTtl + CallPatience + call.spent

InFlight(p) == {c \in McpCall : mcpCall[c].pat = p /\ mcpCall[c].at = "analytics"}

LedgerInv ==
    \A p \in Pat :
        /\ answered[p] <= analyticsRows[p]
        /\ analyticsRows[p] + Cardinality(InFlight(p)) <= successRows[p]
        /\ successRows[p] <= answered[p] + Cardinality(InFlight(p)) + mcpFaults

DashboardInv ==
    /\ dashboard.at = "idle" => dashboard.spent = 0
    /\ dashboard.at # "idle" =>
        /\ dashboard.user \in McpUser
        /\ dashboard.used <= counted[dashboard.user][QuotaWindow[dashboard.window] + dashboard.spent]

McpInv == McpTypeOK /\ QuotaInv /\ RevocationInv /\ LedgerInv /\ DashboardInv

LEMMA AgeIsKnown ==
    ASSUME McpTypeOK, QuotaInv, NEW u \in McpUser, NEW w \in QuotaWindows, counter[u][w].value > 0
    PROVE  Age(u, w) \in Nat /\ Age(u, w) \in Oldness /\ Age(u, w) + 1 <= QuotaWindow[w]
           /\ QuotaWindow[w] \in Oldness
  <1>1. counter[u][w].left \in 1..QuotaWindow[w]
    BY DEF QuotaInv, Anchored
  <1>2. QuotaWindow[w] \in Nat /\ CallPatience \in Nat /\ \A s \in 0..CallPatience : QuotaWindow[w] + s \in Oldness
    BY LongestWindow, McpConstants
  <1>3. QuotaWindow[w] + 0 \in Oldness
    BY <1>2
  <1>4. QuotaWindow[w] \in Oldness /\ 0..QuotaWindow[w] \subseteq Oldness
    BY <1>2, <1>3, LongestWindow
  <1> QED BY <1>1, <1>2, <1>4 DEF Age

LEMMA ZeroOld == 0 \in Oldness
  <1>1. "daily" \in QuotaWindows /\ CallPatience \in Nat
    BY McpConstants DEF QuotaWindows
  <1>2. QuotaWindow["daily"] + CallPatience \in Oldness /\ QuotaWindow["daily"] \in Nat
    BY <1>1, LongestWindow
  <1>3. 0..(QuotaWindow["daily"] + CallPatience) \subseteq Oldness
    BY <1>2, LongestWindow
  <1> QED BY <1>1, <1>2, <1>3

LEMMA QuotaTick == ASSUME McpTypeOK, McpTypeOK', QuotaInv, McpTick PROVE QuotaInv'
  <1>0. Oldness \subseteq Nat /\ \A a \in Oldness : 0..a \subseteq Oldness
    BY LongestWindow
  <1>1. \A u \in McpUser, a \in Oldness : counted'[u][a] = IF a = 0 THEN 0 ELSE counted[u][a - 1]
    BY DEF McpTick
  <1>2. \A u \in McpUser, w \in QuotaWindows :
            counter'[u][w] = IF counter[u][w].left <= 1 THEN NoCounter ELSE [counter[u][w] EXCEPT !.left = @ - 1]
    BY DEF McpTick
  <1>3. ASSUME NEW u \in McpUser, NEW w \in QuotaWindows PROVE Anchored(u, w)'
    <2> SUFFICES ASSUME counter'[u][w].value > 0 PROVE Anchored(u, w)'
      BY DEF Anchored
    <2>0. counter[u][w] \in CounterRecord /\ QuotaWindow[w] \in Nat
      BY LongestWindow DEF McpTypeOK
    <2>1. ~ counter[u][w].left <= 1
      <3>1. counter'[u][w] # NoCounter
        BY NothingTypes
      <3> QED BY <1>2, <3>1
    <2>2. /\ counter'[u][w].value = counter[u][w].value
          /\ counter'[u][w].left = counter[u][w].left - 1
      BY <1>2, <2>0, <2>1 DEF CounterRecord
    <2>3. counter[u][w].value > 0 /\ Anchored(u, w)
      BY <2>2 DEF QuotaInv
    <2>4. Age(u, w)' = Age(u, w) + 1
      BY <2>0, <2>2 DEF Age, CounterRecord
    <2>5. /\ Age(u, w) \in Nat /\ Age(u, w) \in Oldness /\ Age(u, w) + 1 \in Oldness
      <3>1. Age(u, w) \in Nat /\ Age(u, w) \in Oldness /\ Age(u, w) + 1 <= QuotaWindow[w] /\ QuotaWindow[w] \in Oldness
        BY <2>3, AgeIsKnown
      <3> QED BY <1>0, <2>0, <3>1
    <2>6. /\ counted'[u][Age(u, w) + 1] = counted[u][Age(u, w)]
          /\ counted'[u][Age(u, w)] = IF Age(u, w) = 0 THEN 0 ELSE counted[u][Age(u, w) - 1]
      BY <1>1, <2>5
    <2>7. counted[u][Age(u, w)] > counted'[u][Age(u, w)]
      BY <2>3, <2>6 DEF Anchored
    <2>8. counter'[u][w].left \in 1..QuotaWindow[w]
      BY <2>0, <2>1, <2>2, <2>3 DEF Anchored, CounterRecord
    <2> QED BY <2>2, <2>3, <2>4, <2>5, <2>6, <2>7, <2>8 DEF Anchored
  <1>4. ASSUME NEW u \in McpUser, NEW a \in Oldness, NEW b \in Oldness, a <= b
        PROVE  counted'[u][a] <= counted'[u][b]
    <2>1. counted'[u][a] \in Nat /\ counted'[u][b] \in Nat
      BY DEF McpTypeOK
    <2>2. a # 0 => a - 1 \in Oldness /\ b - 1 \in Oldness /\ a - 1 <= b - 1 /\ b # 0
      BY <1>0, <1>4
    <2> QED BY <1>1, <2>1, <2>2 DEF QuotaInv
  <1>5. \A u \in McpUser : counted'[u][0] = 0
    <2>1. 0 \in Oldness
      BY ZeroOld
    <2> QED BY <1>1, <2>1
  <1> QED BY <1>3, <1>4, <1>5 DEF QuotaInv

LEMMA QuotaCounted ==
    ASSUME McpTypeOK, QuotaInv, NEW v \in McpUser, ~ Full(v), Counted(v)
    PROVE  QuotaInv'
  <1>0. Oldness \subseteq Nat /\ 0 \in Oldness /\ \A a \in Oldness : 0..a \subseteq Oldness
    BY LongestWindow, ZeroOld
  <1>1. \A u \in McpUser, a \in Oldness : counted'[u][a] = IF u = v THEN counted[u][a] + 1 ELSE counted[u][a]
    BY DEF Counted, McpTypeOK
  <1>2. \A w \in QuotaWindows :
            /\ counter'[v][w].value = counter[v][w].value + 1
            /\ counter'[v][w].left = IF counter[v][w].value = 0 THEN QuotaWindow[w] ELSE counter[v][w].left
    <2>1. counter'[v] = [w \in QuotaWindows |->
              [value |-> counter[v][w].value + 1,
               left |-> IF counter[v][w].value = 0 THEN QuotaWindow[w] ELSE counter[v][w].left]]
      BY DEF Counted, McpTypeOK
    <2> QED BY <2>1
  <1>3. \A u \in McpUser \ {v} : counter'[u] = counter[u]
    BY DEF Counted, McpTypeOK
  <1>4. ASSUME NEW u \in McpUser \ {v}, NEW w \in QuotaWindows PROVE Anchored(u, w)'
    <2>1. Age(u, w)' = Age(u, w)
      BY <1>3 DEF Age
    <2>2. ASSUME counter[u][w].value > 0 
          PROVE /\ counted'[u][Age(u, w)] = counted[u][Age(u, w)]
                /\ Age(u, w) # 0 => counted'[u][Age(u, w) - 1] = counted[u][Age(u, w) - 1]
      <3>1. Age(u, w) \in Nat /\ Age(u, w) \in Oldness
        BY <2>2, AgeIsKnown
      <3>2. Age(u, w) # 0 => Age(u, w) - 1 \in Oldness
        BY <1>0, <3>1
      <3> QED BY <1>1, <3>1, <3>2
    <2> QED BY <1>3, <2>1, <2>2 DEF Anchored, QuotaInv
  <1>5. ASSUME NEW w \in QuotaWindows PROVE Anchored(v, w)'
    <2>0. counter[v][w] \in CounterRecord /\ QuotaWindow[w] \in Nat \ {0} /\ QuotaLimit[w] \in Nat
          /\ counted[v] \in [Oldness -> Nat]
      BY LongestWindow, McpConstants DEF McpTypeOK
    <2>1. counter'[v][w].value = counter[v][w].value + 1 /\ counter[v][w].value + 1 <= QuotaLimit[w]
      BY <1>2, <2>0 DEF Full, CounterRecord
    <2>2. CASE counter[v][w].value = 0
      <3>1. counter'[v][w].left = QuotaWindow[w] /\ Age(v, w)' = 0
        BY <1>2, <2>0, <2>2 DEF Age
      <3>2. counted'[v][0] = counted[v][0] + 1
        BY <1>0, <1>1
      <3>3. counted[v][0] = 0
        BY <2>2 DEF QuotaInv
      <3> QED BY <2>0, <2>1, <2>2, <3>1, <3>2, <3>3 DEF Anchored
    <2>3. CASE counter[v][w].value # 0
      <3>1. counter[v][w].value > 0 /\ counter'[v][w].left = counter[v][w].left
        BY <1>2, <2>0, <2>3 DEF CounterRecord
      <3>2. Age(v, w)' = Age(v, w) /\ Age(v, w) \in Nat /\ Age(v, w) \in Oldness
        BY <3>1, AgeIsKnown DEF Age
      <3>3. Age(v, w) # 0 => Age(v, w) - 1 \in Oldness
        BY <1>0, <3>2
      <3>4. Anchored(v, w)
        BY DEF QuotaInv
      <3>5. /\ counted'[v][Age(v, w)] = counted[v][Age(v, w)] + 1
            /\ Age(v, w) # 0 => counted'[v][Age(v, w) - 1] = counted[v][Age(v, w) - 1] + 1
        BY <1>1, <3>2, <3>3
      <3> QED BY <2>0, <2>1, <3>1, <3>2, <3>3, <3>4, <3>5 DEF Anchored
    <2> QED BY <2>2, <2>3
  <1>6. ASSUME NEW u \in McpUser, NEW a \in Oldness, NEW b \in Oldness, a <= b
        PROVE  counted'[u][a] <= counted'[u][b]
    <2>1. counted[u][a] <= counted[u][b] /\ counted[u][a] \in Nat /\ counted[u][b] \in Nat
      BY <1>6 DEF QuotaInv, McpTypeOK
    <2> QED BY <1>1, <2>1
  <1>7. ASSUME NEW u \in McpUser, NEW w \in QuotaWindows, counter'[u][w].value = 0
        PROVE  counted'[u][0] = 0
    <2>1. counter[v][w].value \in Nat
      BY DEF McpTypeOK, CounterRecord
    <2>2. u # v
      BY <1>2, <1>7, <2>1
    <2> QED BY <1>0, <1>1, <1>3, <1>7, <2>2 DEF QuotaInv
  <1> QED BY <1>4, <1>5, <1>6, <1>7 DEF QuotaInv

\* What RevocationInv says of a call.
CallRevocation(c) ==
    LET call == mcpCall[c] IN
    /\ call.at = "store" => revokedFor[call.pat] <= call.spent + 1
    /\ call.at \in Verified => revokedFor[call.pat] <= TokenCacheTtl + CallPatience + call.spent

LEMMA RevocationTick == ASSUME McpTypeOK, RevocationInv, McpTick PROVE RevocationInv'
  <1>0. TokenCacheTtl \in Nat /\ CallPatience \in Nat /\ LongRevoked \in Nat
    BY McpConstants DEF LongRevoked
  <1>1. \A p \in Pat : revokedFor[p] \in Nat /\ revokedFor'[p] \in Nat /\ revokedFor'[p] <= revokedFor[p] + 1
    <2>1. \A p \in Pat : revokedFor'[p] =
              IF revokedFor[p] \in 1..(LongRevoked - 1) THEN revokedFor[p] + 1 ELSE revokedFor[p]
      BY DEF McpTick
    <2>2. \A p \in Pat : revokedFor[p] \in Nat
      BY <1>0 DEF McpTypeOK
    <2> QED BY <2>1, <2>2
  <1>2. ASSUME NEW p \in Pat
        PROVE  /\ tokenCache'[p].left = 0 => tokenCache'[p] = NoToken
               /\ tokenCache'[p].left > 0 =>
                     revokedFor'[p] + tokenCache'[p].left <= TokenCacheTtl + CallPatience + 1
    <2>1. tokenCache'[p] = IF tokenCache[p].left <= 1 THEN NoToken
                           ELSE [tokenCache[p] EXCEPT !.life = Less(@), !.left = @ - 1]
      BY DEF McpTick
    <2>2. tokenCache[p] \in TokenRecord /\ tokenCache[p].left \in Nat
      BY <1>0 DEF McpTypeOK, TokenRecord
    <2>3. CASE tokenCache[p].left <= 1
      BY <2>1, <2>3, NothingTypes
    <2>4. CASE ~ tokenCache[p].left <= 1
      <3>1. tokenCache'[p].left = tokenCache[p].left - 1
        BY <2>1, <2>2, <2>4 DEF TokenRecord
      <3>2. revokedFor[p] + tokenCache[p].left <= TokenCacheTtl + CallPatience + 1
        BY <2>2, <2>4 DEF RevocationInv
      <3> QED BY <1>0, <1>1, <2>2, <2>4, <3>1, <3>2
    <2> QED BY <2>3, <2>4
  <1>3. ASSUME NEW c \in McpCall PROVE CallRevocation(c)'
    <2>1. mcpCall'[c] = IF mcpCall[c].at = "idle" THEN NoCall
                        ELSE [mcpCall[c] EXCEPT !.life = Less(@), !.spent = @ + 1]
      BY DEF McpTick
    <2>2. CASE mcpCall[c].at = "idle"
      BY <2>1, <2>2, NothingTypes DEF CallRevocation, Verified
    <2>3. CASE mcpCall[c].at # "idle"
      <3>1. mcpCall[c] \in CallRecord /\ mcpCall[c].pat \in Pat /\ mcpCall[c].spent \in Nat
        BY <1>0, <2>3 DEF McpTypeOK, CallRecord
      <3>2. /\ mcpCall'[c].at = mcpCall[c].at /\ mcpCall'[c].pat = mcpCall[c].pat
            /\ mcpCall'[c].spent = mcpCall[c].spent + 1
        BY <2>1, <2>3, <3>1 DEF CallRecord
      <3>3. CallRevocation(c)
        BY DEF RevocationInv, CallRevocation
      <3> QED BY <1>0, <1>1, <3>1, <3>2, <3>3 DEF CallRevocation
    <2> QED BY <2>2, <2>3
  <1> QED BY <1>2, <1>3 DEF RevocationInv, CallRevocation

LEMMA RevocationRevokes ==
    ASSUME McpTypeOK, RevocationInv, NEW p \in Pat, RevokesPat(p)
    PROVE  RevocationInv'
  <1>0. TokenCacheTtl \in Nat \ {0} /\ CallPatience \in Nat
    BY McpConstants
  <1>1. /\ UNCHANGED <<tokenCache, mcpCall>>
        /\ \A q \in Pat : revokedFor'[q] = revokedFor[q] \/ revokedFor'[q] = 1
    BY DEF RevokesPat, McpTypeOK
  <1>2. \A q \in Pat : tokenCache[q].left \in 0..TokenCacheTtl
    BY DEF McpTypeOK, TokenRecord
  <1>3. ASSUME NEW c \in McpCall PROVE CallRevocation(c)'
    <2>1. CallRevocation(c)
      BY DEF RevocationInv, CallRevocation
    <2>2. mcpCall[c].spent \in Nat /\ (mcpCall[c].at # "idle" => mcpCall[c].pat \in Pat)
      BY <1>0 DEF McpTypeOK, CallRecord
    <2> QED BY <1>0, <1>1, <2>1, <2>2 DEF CallRevocation, Verified
  <1> QED BY <1>0, <1>1, <1>2, <1>3 DEF RevocationInv, CallRevocation

LEMMA RevocationCall ==
    ASSUME McpTypeOK, RevocationInv, NEW c \in McpCall,
           CallSteps(c) \/ \E p \in Pat : CallsSearch(c, p)
    PROVE  RevocationInv'
  <1>0. TokenCacheTtl \in Nat \ {0} /\ CallPatience \in Nat /\ LongRevoked \in Nat
    BY McpConstants DEF LongRevoked
  <1>1. revokedFor' = revokedFor
    BY CallEffects DEF CallsSearch, authVars
  <1>r. \A p \in Pat : revokedFor[p] \in Nat
    BY <1>0 DEF McpTypeOK
  <1>2. \A d \in McpCall \ {c} : mcpCall'[d] = mcpCall[d]
    BY CallsSearchOutcome, CallOutcome DEF OnlyCall
  <1>3. CallRevocation(c)
    BY DEF RevocationInv, CallRevocation
  <1>4. mcpCall[c].spent \in 0..CallPatience
    BY DEF McpTypeOK, CallRecord
  <1>5. CallRevocation(c)'
    <2>1. ASSUME NEW p \in Pat, CallsSearch(c, p) PROVE CallRevocation(c)'
      <3>1. mcpCall'[c] = NewCall(p)
        BY <2>1, CallsSearchOutcome DEF OnlyCall
      <3>2. /\ mcpCall'[c].at = IF tokenCache[p] = NoToken THEN "exchange" ELSE "verify"
            /\ mcpCall'[c].pat = p /\ mcpCall'[c].spent = 0
        BY <3>1 DEF NewCall
      <3>3. CASE tokenCache[p] = NoToken
        BY <3>2, <3>3 DEF CallRevocation, Verified
      <3>4. CASE tokenCache[p] # NoToken
        <4>1. tokenCache[p].left \in Nat \ {0}
          BY <1>0, <3>4 DEF RevocationInv, McpTypeOK, TokenRecord
        <4>2. revokedFor[p] + tokenCache[p].left <= TokenCacheTtl + CallPatience + 1
          BY <4>1 DEF RevocationInv
        <4> QED BY <1>0, <1>1, <1>r, <3>2, <3>4, <4>1, <4>2 DEF CallRevocation
      <3> QED BY <3>3, <3>4
    <2>2. ASSUME CallSteps(c) PROVE CallRevocation(c)'
      <3>1. Transition(c)
        BY <2>2, CallOutcome
      <3>2. CASE mcpCall'[c].at = "idle"
        BY <3>2 DEF CallRevocation, Verified
      <3>3. CASE mcpCall'[c].at # "idle"
        <4>1. /\ mcpCall'[c].pat = mcpCall[c].pat /\ mcpCall'[c].spent = mcpCall[c].spent
              /\ mcpCall[c].at = "exchange" => revokedFor[mcpCall[c].pat] = 0
              /\ mcpCall'[c].at = "store" => mcpCall[c].at = "exchange"
              /\ mcpCall'[c].at \in Verified => mcpCall[c].at \in Verified \cup {"store"}
          BY <3>1, <3>3 DEF Transition, Verified
        <4>2. mcpCall[c].pat \in Pat
          BY <3>1 DEF Transition, McpTypeOK
        <4> QED BY <1>0, <1>1, <1>3, <1>4, <1>r, <4>1, <4>2 DEF CallRevocation
      <3> QED BY <3>2, <3>3
    <2> QED BY <2>1, <2>2
  <1>6. \A d \in McpCall : CallRevocation(d)'
    BY <1>1, <1>2, <1>5 DEF RevocationInv, CallRevocation
  <1>7. ASSUME NEW p \in Pat
        PROVE  /\ tokenCache'[p].left = 0 => tokenCache'[p] = NoToken
               /\ tokenCache'[p].left > 0 =>
                     revokedFor'[p] + tokenCache'[p].left <= TokenCacheTtl + CallPatience + 1
    <2>1. ASSUME StoresToken(c), p = mcpCall[c].pat
          PROVE  /\ tokenCache'[p].left \in 1..TokenCacheTtl
                 /\ revokedFor[p] <= CallPatience + 1
      <3>1. tokenCache'[p].left = StoreTtl /\ mcpCall[c].at = "store"
        BY <2>1 DEF StoresToken, StoreTtl, McpTypeOK
      <3> QED BY <1>0, <1>3, <1>4, <1>r, <2>1, <3>1, StoreTtlBounds DEF CallRevocation
    <2>2. tokenCache'[p] = tokenCache[p] \/ (StoresToken(c) /\ p = mcpCall[c].pat)
      <3>1. CASE StoresToken(c)
        BY <3>1 DEF StoresToken, McpTypeOK
      <3>2. CASE ~ StoresToken(c)
        BY <3>2, CallEffects DEF CallsSearch, authVars
      <3> QED BY <3>1, <3>2
    <2> QED BY <1>0, <1>1, <1>r, <2>1, <2>2 DEF RevocationInv
  <1> QED BY <1>6, <1>7 DEF RevocationInv, CallRevocation

LEMMA InFlightFinite ==
    /\ \A p : IsFiniteSet(InFlight(p)) /\ Cardinality(InFlight(p)) \in Nat
  <1> SUFFICES ASSUME NEW p PROVE IsFiniteSet(InFlight(p)) /\ Cardinality(InFlight(p)) \in Nat
    OBVIOUS
  <1>1. InFlight(p) \subseteq McpCall /\ IsFiniteSet(McpCall)
    BY McpConstants DEF InFlight
  <1> QED BY <1>1, FS_Subset, FS_CardinalityType

\* A call comes to its last step, leaves it, or neither.
LEMMA InFlightStep ==
    ASSUME McpTypeOK, NEW c \in McpCall, NEW p, \A d \in McpCall \ {c} : mcpCall'[d] = mcpCall[d],
           mcpCall[c].at = "idle" \/ mcpCall'[c].at = "idle" \/ mcpCall'[c].pat = mcpCall[c].pat
    PROVE  LET was == mcpCall[c].pat = p /\ mcpCall[c].at = "analytics"
               is  == mcpCall'[c].pat = p /\ mcpCall'[c].at = "analytics"
           IN  /\ was <=> is => InFlight(p)' = InFlight(p)
               /\ was /\ ~ is => Cardinality(InFlight(p)') = Cardinality(InFlight(p)) - 1
               /\ ~ was /\ is => Cardinality(InFlight(p)') = Cardinality(InFlight(p)) + 1
  <1> DEFINE was == mcpCall[c].pat = p /\ mcpCall[c].at = "analytics"
             is  == mcpCall'[c].pat = p /\ mcpCall'[c].at = "analytics"
  <1>1. ASSUME was <=> is PROVE InFlight(p)' = InFlight(p)
    BY <1>1 DEF InFlight
  <1>2. ASSUME was, ~ is PROVE Cardinality(InFlight(p)') = Cardinality(InFlight(p)) - 1
    <2>1. c \in InFlight(p) /\ InFlight(p)' = InFlight(p) \ {c}
      BY <1>2 DEF InFlight
    <2> QED BY <2>1, InFlightFinite, FS_RemoveElement
  <1>3. ASSUME ~ was, is PROVE Cardinality(InFlight(p)') = Cardinality(InFlight(p)) + 1
    <2>1. c \notin InFlight(p) /\ InFlight(p)' = InFlight(p) \cup {c}
      BY <1>3 DEF InFlight
    <2> QED BY <2>1, InFlightFinite, FS_AddElement
  <1> QED BY <1>1, <1>2, <1>3

LEMMA LedgerCall ==
    ASSUME McpTypeOK, McpTypeOK', LedgerInv, NEW c \in McpCall, CallSteps(c)
    PROVE  LedgerInv'
  <1> SUFFICES ASSUME NEW p \in Pat
               PROVE  /\ answered'[p] <= analyticsRows'[p]
                      /\ analyticsRows'[p] + Cardinality(InFlight(p)') <= successRows'[p]
                      /\ successRows'[p] <= answered'[p] + Cardinality(InFlight(p)') + mcpFaults'
    BY DEF LedgerInv
  <1> DEFINE q == mcpCall[c].pat
             was == mcpCall[c].pat = p /\ mcpCall[c].at = "analytics"
             is  == mcpCall'[c].pat = p /\ mcpCall'[c].at = "analytics"
             n == Cardinality(InFlight(p))  m == Cardinality(InFlight(p)')
  <1>1. /\ Transition(c) /\ \A d \in McpCall \ {c} : mcpCall'[d] = mcpCall[d]
    BY CallOutcome
  <1>2. mcpCall'[c].at = "idle" \/ mcpCall'[c].pat = q
    BY <1>1, NothingTypes DEF Transition
  <1>3. /\ was <=> is => m = n
        /\ was /\ ~ is => m = n - 1
        /\ ~ was /\ is => m = n + 1
    BY <1>1, <1>2, InFlightStep
  <1>4. n \in Nat /\ q \in Pat /\ mcpFaults \in Nat
        /\ successRows \in [Pat -> Nat] /\ analyticsRows \in [Pat -> Nat] /\ answered \in [Pat -> Nat]
    BY <1>1, InFlightFinite DEF McpTypeOK, Transition
  <1>5. /\ answered[p] <= analyticsRows[p] /\ analyticsRows[p] + n <= successRows[p]
        /\ successRows[p] <= answered[p] + n + mcpFaults
    BY DEF LedgerInv
  <1>6. mcpFaults' = mcpFaults \/ mcpFaults' = mcpFaults + 1
    BY CallEffects
  <1> HIDE DEF n, m
  <1>7. CASE q # p
    <2>1. m = n
      BY <1>2, <1>3, <1>7
    <2>2. UNCHANGED <<successRows[p], analyticsRows[p], answered[p]>>
      BY <1>4, <1>7, LedgerEffects
    <2> QED BY <1>4, <1>5, <1>6, <2>1, <2>2 DEF n, m
  <1>8. CASE q = p
    <2>1. CASE /\ UNCHANGED <<successRows, analyticsRows, answered>>
               /\ mcpCall[c].at # "analytics" \/ mcpFaults' = mcpFaults + 1
               /\ mcpCall'[c].at # "analytics"
      <3>1. m = n \/ (m = n - 1 /\ mcpFaults' = mcpFaults + 1)
        BY <1>3, <2>1
      <3> QED BY <1>4, <1>5, <1>6, <2>1, <3>1 DEF n, m
    <2>2. CASE /\ mcpCall[c].at = "success" /\ successRows' = [successRows EXCEPT ![q] = @ + 1]
               /\ UNCHANGED <<analyticsRows, answered>>
               /\ \/ mcpCall'[c].at = "analytics"
                  \/ mcpCall'[c].at = "idle" /\ mcpFaults' = mcpFaults + 1
      <3>1. \/ m = n + 1
            \/ m = n /\ mcpFaults' = mcpFaults + 1
        BY <1>2, <1>3, <1>8, <2>2
      <3>2. successRows'[p] = successRows[p] + 1
        BY <1>4, <1>8, <2>2
      <3> QED BY <1>4, <1>5, <1>6, <2>2, <3>1, <3>2 DEF n, m
    <2>3. CASE /\ mcpCall[c].at = "analytics" /\ mcpCall'[c].at = "idle"
               /\ analyticsRows' = [analyticsRows EXCEPT ![q] = @ + 1] /\ UNCHANGED successRows
               /\ \/ answered' = [answered EXCEPT ![q] = @ + 1]
                  \/ answered' = answered /\ mcpFaults' = mcpFaults + 1
      <3>1. m = n - 1
        BY <1>3, <1>8, <2>3
      <3>2. /\ analyticsRows'[p] = analyticsRows[p] + 1
            /\ \/ answered'[p] = answered[p] + 1
               \/ answered'[p] = answered[p] /\ mcpFaults' = mcpFaults + 1
        BY <1>4, <1>8, <2>3
      <3> QED BY <1>4, <1>5, <1>6, <2>3, <3>1, <3>2 DEF n, m
    <2> QED BY <1>8, <2>1, <2>2, <2>3, LedgerEffects
  <1> QED BY <1>7, <1>8

\* The answers under way are those of before if no call comes to its last
\* step or leaves it.
LEMMA LedgerStays ==
    ASSUME LedgerInv, UNCHANGED <<successRows, analyticsRows, answered, mcpFaults>>,
           \A c \in McpCall :
               /\ (mcpCall'[c].at = "analytics") <=> (mcpCall[c].at = "analytics")
               /\ mcpCall[c].at = "analytics" => mcpCall'[c].pat = mcpCall[c].pat
    PROVE  LedgerInv'
  <1>1. \A p \in Pat : InFlight(p)' = InFlight(p)
    BY DEF InFlight
  <1> QED BY <1>1 DEF LedgerInv

LEMMA LedgerTick == ASSUME McpTypeOK, LedgerInv, McpTick PROVE LedgerInv'
  <1>1. ASSUME NEW c \in McpCall
        PROVE  /\ (mcpCall'[c].at = "analytics") <=> (mcpCall[c].at = "analytics")
               /\ mcpCall[c].at = "analytics" => mcpCall'[c].pat = mcpCall[c].pat
    <2>1. mcpCall'[c] = IF mcpCall[c].at = "idle" THEN NoCall
                        ELSE [mcpCall[c] EXCEPT !.life = Less(@), !.spent = @ + 1]
      BY DEF McpTick
    <2>2. mcpCall[c] \in CallRecord
      BY DEF McpTypeOK
    <2> QED BY <2>1, <2>2, NothingTypes DEF CallRecord
  <1> QED BY <1>1, LedgerStays DEF McpTick, ledgerVars

\* A read of the dashboard that has begun.
LEMMA ShownStays ==
    ASSUME McpTypeOK, McpTypeOK', DashboardInv, UNCHANGED dashboard,
           \A u \in McpUser, a \in Oldness : counted[u][a] <= counted'[u][a]
    PROVE  DashboardInv'
  <1> SUFFICES ASSUME dashboard.at # "idle"
               PROVE  dashboard.used <= counted'[dashboard.user][QuotaWindow[dashboard.window] + dashboard.spent]
    BY DEF DashboardInv
  <1> DEFINE u == dashboard.user  a == QuotaWindow[dashboard.window] + dashboard.spent
  <1>1. dashboard \in ReadRecord /\ u \in McpUser /\ dashboard.used <= counted[u][a]
    BY DEF DashboardInv, McpTypeOK
  <1>2. a \in Oldness /\ dashboard.used \in Nat
    BY <1>1, LongestWindow DEF ReadRecord
  <1>3. counted[u][a] \in Nat /\ counted'[u][a] \in Nat
    BY <1>1, <1>2 DEF McpTypeOK
  <1> HIDE DEF u, a
  <1>4. counted[u][a] <= counted'[u][a]
    BY <1>1, <1>2 DEF u
  <1>5. dashboard.used <= counted'[u][a]
    BY <1>1, <1>2, <1>3, <1>4
  <1> QED BY <1>5 DEF u, a

LEMMA DashboardTick == ASSUME McpTypeOK, McpTypeOK', DashboardInv, McpTick PROVE DashboardInv'
  <1>1. CASE ReadGoesOn
    <2>1. /\ dashboard.at # "idle" /\ dashboard.spent < CallPatience
          /\ dashboard' = [dashboard EXCEPT !.spent = @ + 1]
      BY <1>1 DEF ReadGoesOn, McpTick
    <2>2. /\ dashboard \in ReadRecord /\ dashboard.user \in McpUser
          /\ dashboard.used <= counted[dashboard.user][QuotaWindow[dashboard.window] + dashboard.spent]
      BY <2>1 DEF DashboardInv, McpTypeOK
    <2>3. /\ dashboard'.user = dashboard.user /\ dashboard'.window = dashboard.window
          /\ dashboard'.used = dashboard.used /\ dashboard'.at = dashboard.at
          /\ dashboard'.spent = dashboard.spent + 1
      BY <2>1, <2>2 DEF ReadRecord
    <2> DEFINE w == QuotaWindow[dashboard.window]  s == dashboard.spent
    <2>4. w \in Nat \ {0} /\ s \in Nat /\ CallPatience \in Nat /\ s + 1 \in 0..CallPatience
      BY <2>1, <2>2, LongestWindow, McpConstants DEF ReadRecord
    <2>5. w + (s + 1) \in Oldness
      BY <2>2, <2>4, LongestWindow DEF ReadRecord
    <2> HIDE DEF w, s
    <2>6. counted'[dashboard.user][w + (s + 1)] = counted[dashboard.user][w + s]
      <3>1. counted'[dashboard.user][w + (s + 1)] = counted[dashboard.user][(w + (s + 1)) - 1]
        <4>1. \A u \in McpUser, a \in Oldness : counted'[u][a] = IF a = 0 THEN 0 ELSE counted[u][a - 1]
          BY DEF McpTick
        <4>2. w + (s + 1) # 0
          BY <2>4
        <4> QED BY <2>2, <2>5, <4>1, <4>2
      <3>2. (w + (s + 1)) - 1 = w + s
        BY <2>4
      <3> QED BY <3>1, <3>2
    <2> QED BY <2>1, <2>2, <2>3, <2>6 DEF DashboardInv, w, s
  <1>2. CASE ~ ReadGoesOn
    BY <1>2, NothingTypes DEF McpTick, DashboardInv
  <1> QED BY <1>1, <1>2

LEMMA DashboardReadsCounter ==
    ASSUME McpTypeOK, McpTypeOK', QuotaInv, DashboardInv, NEW u \in McpUser, NEW w \in QuotaWindows,
           ReadsCounter(u, w)
    PROVE  DashboardInv'
  <1> DEFINE k == counter[u][w]  a == QuotaWindow[w] + dashboard.spent
  <1>1. /\ dashboard \in ReadRecord /\ k \in CounterRecord /\ CallPatience \in Nat
    BY McpConstants DEF McpTypeOK
  <1>2. /\ dashboard'.user = u /\ dashboard'.window = w /\ dashboard'.used = k.value
        /\ dashboard'.at # "idle" /\ dashboard'.spent = dashboard.spent /\ counted' = counted
    BY <1>1 DEF ReadsCounter, ReadRecord, quotaVars
  <1>3. a \in Oldness /\ dashboard.spent \in Nat /\ QuotaWindow[w] \in Nat
    BY <1>1, LongestWindow DEF ReadRecord
  <1>4. k.value <= counted[u][a]
    <2>1. CASE k.value = 0
      <3>1. counted[u][a] \in Nat
        BY <1>3 DEF McpTypeOK
      <3> QED BY <2>1, <3>1
    <2>2. CASE k.value # 0
      <3>1. k.value > 0 /\ k.value \in Nat
        BY <1>1, <2>2 DEF CounterRecord
      <3>2. Age(u, w) \in Oldness /\ Age(u, w) \in Nat /\ Age(u, w) + 1 <= QuotaWindow[w]
        BY <3>1, AgeIsKnown
      <3>3. k.value = counted[u][Age(u, w)]
        BY <3>1 DEF QuotaInv, Anchored
      <3>4. Age(u, w) <= a
        BY <1>3, <3>2
      <3> QED BY <1>3, <3>2, <3>3, <3>4 DEF QuotaInv
    <2> QED BY <2>1, <2>2
  <1> QED BY <1>2, <1>4 DEF DashboardInv

LEMMA DashboardReadsTtl ==
    ASSUME McpTypeOK, DashboardInv, ReadsTtl PROVE DashboardInv'
  <1>1. dashboard \in ReadRecord /\ dashboard.at = "ttl" /\ counted' = counted
    BY DEF McpTypeOK, ReadsTtl, quotaVars
  <1>2. CASE dashboard' = NoRead
    BY <1>2, NothingTypes DEF DashboardInv
  <1>3. CASE dashboard' = [dashboard EXCEPT !.at = "shown"]
    BY <1>1, <1>3 DEF DashboardInv, ReadRecord
  <1> QED BY <1>2, <1>3 DEF ReadsTtl

LEMMA CountedGrows ==
    ASSUME McpTypeOK, NEW v \in McpUser, Counted(v), NEW u \in McpUser, NEW a \in Oldness
    PROVE  counted[u][a] <= counted'[u][a]
  <1>1. counted'[u][a] = IF u = v THEN counted[u][a] + 1 ELSE counted[u][a]
    BY DEF Counted, McpTypeOK
  <1>2. counted[u][a] \in Nat
    BY DEF McpTypeOK
  <1> QED BY <1>1, <1>2

\* The bookkeeping of quotas, revocations, answers and the dashboard is
\* consistent in every state.
THEOREM McpInvariant == McpSpec => []McpInv
  <1>0. LongRevoked \in Nat \ {0} /\ CallPatience \in Nat /\ TokenCacheTtl \in Nat \ {0}
    BY McpConstants DEF LongRevoked
  <1>1. McpInit => QuotaInv /\ RevocationInv /\ LedgerInv /\ DashboardInv
    <2> SUFFICES ASSUME McpInit PROVE QuotaInv /\ RevocationInv /\ LedgerInv /\ DashboardInv
      OBVIOUS
    <2>1. QuotaInv
      BY NothingTypes, ZeroOld DEF McpInit, QuotaInv, Anchored
    <2>2. RevocationInv
      BY NothingTypes DEF McpInit, RevocationInv, Verified
    <2>3. LedgerInv
      <3>1. \A p \in Pat : InFlight(p) = {}
        BY NothingTypes DEF McpInit, InFlight
      <3>2. Cardinality({}) = 0
        BY FS_EmptySet
      <3> QED BY <3>1, <3>2 DEF McpInit, LedgerInv
    <2>4. DashboardInv
      BY NothingTypes DEF McpInit, DashboardInv
    <2> QED BY <2>1, <2>2, <2>3, <2>4
  <1>2. McpTypeOK /\ McpTypeOK' /\ QuotaInv /\ RevocationInv /\ LedgerInv /\ DashboardInv /\ [McpNext]_mcpVars
            => QuotaInv' /\ RevocationInv' /\ LedgerInv' /\ DashboardInv'
    <2> DEFINE Goal == QuotaInv' /\ RevocationInv' /\ LedgerInv' /\ DashboardInv'
    <2> SUFFICES ASSUME McpTypeOK, McpTypeOK', QuotaInv, RevocationInv, LedgerInv, DashboardInv,
                        [McpNext]_mcpVars
                 PROVE  Goal
      OBVIOUS
    <2>a. \A u \in McpUser, a \in Oldness : counted' = counted => counted[u][a] <= counted'[u][a]
      BY DEF McpTypeOK
    <2>q. quotaVars' = quotaVars => QuotaInv'
      BY DEF quotaVars, QuotaInv, Anchored, Age
    <2>1. CASE McpTick
      BY <2>1, QuotaTick, RevocationTick, LedgerTick, DashboardTick
    <2>2. CASE RotatesKey
      BY <2>2 DEF RotatesKey, QuotaInv, Anchored, Age, RevocationInv, LedgerInv, InFlight, DashboardInv,
                  quotaVars, ledgerVars
    <2>3. CASE ReadsTtl
      <3>1. DashboardInv'
        BY <2>3, DashboardReadsTtl
      <3> QED BY <2>3, <3>1 DEF ReadsTtl, QuotaInv, Anchored, Age, RevocationInv, LedgerInv, InFlight,
                  authVars, quotaVars, ledgerVars
    <2>4. ASSUME NEW p \in Pat, RevokesPat(p) PROVE Goal
      <3>1. RevocationInv'
        BY <2>4, RevocationRevokes
      <3> QED BY <2>4, <3>1 DEF RevokesPat, QuotaInv, Anchored, Age, LedgerInv, InFlight, DashboardInv,
                  quotaVars, ledgerVars
    <2>5. ASSUME NEW u \in McpUser, NEW w \in QuotaWindows, ReadsCounter(u, w) PROVE Goal
      <3>1. DashboardInv'
        BY <2>5, DashboardReadsCounter
      <3> QED BY <2>5, <3>1 DEF ReadsCounter, QuotaInv, Anchored, Age, RevocationInv, LedgerInv, InFlight,
                  authVars, quotaVars, ledgerVars
    <2>6. ASSUME NEW c \in McpCall, NEW p \in Pat, CallsSearch(c, p) PROVE Goal
      <3>1. RevocationInv'
        BY <2>6, RevocationCall
      <3>2. OnlyCall(c, NewCall(p)) /\ mcpCall[c].at = "idle"
        BY <2>6, CallsSearchOutcome
      <3>3. mcpCall'[c].at # "analytics"
        BY <3>2 DEF OnlyCall, NewCall
      <3>4. LedgerInv'
        BY <2>6, <3>2, <3>3, LedgerStays DEF OnlyCall, CallsSearch
      <3> QED BY <2>6, <2>q, <3>1, <3>4 DEF CallsSearch, DashboardInv, quotaVars
    <2>7. ASSUME NEW c \in McpCall, CallSteps(c) PROVE Goal
      <3>1. RevocationInv' /\ LedgerInv'
        BY <2>7, RevocationCall, LedgerCall
      <3>2. UserOf[mcpCall[c].pat] \in McpUser
        BY <2>7, CallOutcome DEF Transition, McpTypeOK, McpUser
      <3>3. dashboard' = dashboard
        BY <2>7, CallEffects
      <3>4. CASE UNCHANGED quotaVars
        BY <2>a, <2>q, <3>1, <3>3, <3>4, ShownStays DEF quotaVars
      <3>5. CASE ~ Full(UserOf[mcpCall[c].pat]) /\ Counted(UserOf[mcpCall[c].pat])
        <4>1. QuotaInv'
          BY <3>2, <3>5, QuotaCounted
        <4>2. \A u \in McpUser, a \in Oldness : counted[u][a] <= counted'[u][a]
          BY <3>2, <3>5, CountedGrows
        <4>3. DashboardInv'
          BY <3>3, <4>2, ShownStays
        <4> QED BY <3>1, <4>1, <4>3
      <3> QED BY <2>7, <3>4, <3>5, CallEffects
    <2>8. CASE UNCHANGED mcpVars
      BY <2>8 DEF mcpVars, QuotaInv, Anchored, Age, RevocationInv, LedgerInv, InFlight, DashboardInv
    <2> QED BY <2>1, <2>2, <2>3, <2>4, <2>5, <2>6, <2>7, <2>8, NextSteps
  <1> QED BY <1>1, <1>2, McpTypeCorrect, PTL DEF McpSpec, McpInv

\* Whoever is answered was entitled to be, and it was counted: the windows
\* of RESERVE_SCRIPT, the cached tokens of revoked PATs, the two rows of an
\* answer and what the dashboard shows, for any windows, limits and lives.
THEOREM AnswersAreAlwaysEntitled == McpSpec => []AnswersAreEntitled
  <1>1. McpInv => AnswersAreEntitled
    <2> SUFFICES ASSUME McpInv PROVE AnswersAreEntitled
      OBVIOUS
    <2>1. WindowsAreAnchored
      BY DEF McpInv, QuotaInv, Anchored, Age, WindowsAreAnchored
    <2>2. RevocationIsEnforced
      <3>1. TokenCacheTtl \in Nat /\ CallPatience \in Nat /\ LongRevoked \in Nat
        BY McpConstants DEF LongRevoked
      <3> SUFFICES ASSUME NEW c \in McpCall, mcpCall[c].at = "analytics"
                   PROVE  revokedFor[mcpCall[c].pat] <= TokenCacheTtl + 2 * CallPatience + 1
        BY DEF RevocationIsEnforced
      <3>2. revokedFor[mcpCall[c].pat] <= TokenCacheTtl + CallPatience + mcpCall[c].spent
        BY DEF McpInv, RevocationInv, Verified
      <3>3. mcpCall[c].spent \in 0..CallPatience /\ mcpCall[c].pat \in Pat
        BY DEF McpInv, McpTypeOK, CallRecord
      <3>4. revokedFor[mcpCall[c].pat] \in Nat
        BY <3>1, <3>3 DEF McpInv, McpTypeOK
      <3> QED BY <3>1, <3>2, <3>3, <3>4
    <2>3. AnswersAreRecorded
      <3> SUFFICES ASSUME NEW p \in Pat
                   PROVE  /\ answered[p] <= analyticsRows[p] /\ analyticsRows[p] <= successRows[p]
                          /\ successRows[p] <= answered[p] + Cardinality(InFlight(p)) + mcpFaults
        BY DEF AnswersAreRecorded, SearchUsageSummary, InFlight
      <3>1. /\ answered[p] \in Nat /\ analyticsRows[p] \in Nat /\ successRows[p] \in Nat
            /\ Cardinality(InFlight(p)) \in Nat
        BY InFlightFinite DEF McpInv, McpTypeOK
      <3> QED BY <3>1 DEF McpInv, LedgerInv
    <2>4. ShownIsCounted
      BY DEF McpInv, DashboardInv, ShownIsCounted
    <2> QED BY <2>1, <2>2, <2>3, <2>4 DEF AnswersAreEntitled
  <1> QED BY <1>1, McpInvariant, PTL
=============================================================================
