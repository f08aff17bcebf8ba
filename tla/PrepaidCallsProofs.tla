--------------------------- MODULE PrepaidCallsProofs ---------------------------
(***************************************************************************)
(* Proofs about PrepaidCalls, for any number of clients, counts of calls,  *)
(* strategies built, failures, other payments and claims.                  *)
(***************************************************************************)
EXTENDS PrepaidCalls, TLAPS

-----------------------------------------------------------------------------
(* The inductive invariant.                                                *)

\* What is signed, by a strategy or in a request, at the channel's nonce fits
\* what the payer agreed to; no nonce is ahead of the channel's.
AmountFits(nonce, amount) ==
    /\ nonce <= dNonce
    /\ nonce = dNonce => claimed + amount <= allowed

StrategyFits(t) ==
    /\ AmountFits(strategy[t].nonce, Abs(strategy[t].signedAmount))
    /\ strategy[t].token <= dNonce

Budget ==
    /\ claimed + dSigned <= allowed
    /\ dSigned <= value
    /\ \A t \in Threads : StrategyFits(t)
    /\ \A r \in net : AmountFits(r.nonce, r.amount)

\* A request its client waits for is for the strategy the client has, and the
\* client sent all others before its last failure.
RequestMatches(r) ==
    /\ r.attempt <= faults
    /\ Awaited(r) => /\ r.nonce = strategy[r.from].nonce
                     /\ r.amount = Abs(strategy[r.from].signedAmount)
                     /\ r.told = Uint64(strategy[r.from].signedAmount)
    /\ ~Awaited(r) => r.attempt < faults

Matching == \A r \in net : RequestMatches(r)

\* A client that asks for a token has a strategy.
Installed == \A t \in Threads : work[t].step \in {"refresh", "waiting"} => strategy[t].nonce \in Nat

CountsKnown == \A t \in Threads : work[t].count \in 0..(2 * Half - 1)

\* Until the first claim the channel holds what it was opened with and what it
\* was ensured for.
EnsuredFunded ==
    dNonce = 0 =>
        /\ StartValue <= value
        /\ \A t \in Threads : work[t].step = "ensured" => work[t].first + Price <= value

Funded == EnsuredFunded /\ OneCallFunded

IInv == TypeOK /\ Budget /\ Matching /\ Installed /\ CountsKnown /\ TokenBacked /\ Funded

-----------------------------------------------------------------------------
(* Arithmetic.                                                             *)

LEMMA Constants ==
    /\ Half \in Nat /\ Half > 0 /\ Price \in Nat
    /\ Counts \subseteq 0..(2 * Half - 1)
    /\ StartSigned \in Nat /\ StartValue \in Nat /\ StartSigned <= StartValue
  BY PrepaidAssumption

LEMMA AbsType == ASSUME NEW x \in Int PROVE Abs(x) \in Nat
  BY DEF Abs

LEMMA Uint64Type == ASSUME NEW x \in Int PROVE Uint64(x) \in Nat
  <1>1. 2 * Half \in Nat /\ 2 * Half > 0
    BY Constants
  <1>2. QED
    BY <1>1, AbsType DEF Uint64

LEMMA Int64Bounds ==
    ASSUME NEW c \in 0..(2 * Half - 1)
    PROVE  Int64(c) \in Int /\ -c <= Int64(c) /\ Int64(c) <= c
  BY Constants DEF Int64

LEMMA Monotone ==
    ASSUME NEW p \in Nat, NEW a \in Int, NEW b \in Int, a <= b
    PROVE  p * a <= p * b
  <1>1. p * (b - a) >= 0
    OBVIOUS
  <1>2. p * (b - a) = p * b - p * a
    OBVIOUS
  <1>3. p * a \in Int /\ p * b \in Int
    OBVIOUS
  <1>4. QED
    BY <1>1, <1>2, <1>3

\* Whatever becomes of the count, no more is signed than its price.
LEMMA SignedBounded ==
    ASSUME NEW s \in Nat, NEW c \in 0..(2 * Half - 1)
    PROVE  Signed(s, c) \in Int /\ Abs(Signed(s, c)) <= s + Price * c
  <1>1. Int64(c) \in Int /\ c \in Nat /\ -c <= Int64(c) /\ Int64(c) <= c
    BY Int64Bounds, Constants
  <1>2. Price * Int64(c) <= Price * c /\ Price * (-c) <= Price * Int64(c)
    BY <1>1, Monotone, Constants
  <1>3. Price * (-c) = -(Price * c) /\ Price * c \in Nat /\ Price * Int64(c) \in Int
    BY <1>1, Constants
  <1>4. QED
    BY <1>2, <1>3 DEF Signed, Abs

LEMMA MissingFacts ==
    ASSUME NEW a \in Nat
    PROVE  Missing(a) \in Nat /\ a <= StartValue + Missing(a)
  BY Constants DEF Missing

-----------------------------------------------------------------------------
(* Types.                                                                  *)

LEMMA StrategyFields ==
    ASSUME TypeOK, NEW t \in Threads
    PROVE  /\ strategy[t] \in Strategy
           /\ strategy[t].nonce \in Nat \cup {-1} /\ strategy[t].token \in Nat \cup {-1}
           /\ strategy[t].signedAmount \in Int
           /\ Abs(strategy[t].signedAmount) \in Nat
  BY AbsType DEF TypeOK, Strategy, NoStrategy

LEMMA WorkFields ==
    ASSUME TypeOK, NEW t \in Threads
    PROVE  /\ work[t] \in Work
           /\ work[t].step \in Step /\ work[t].count \in Nat /\ work[t].first \in Nat
           /\ work[t].attempt \in Nat /\ work[t].nonce \in Nat
  BY DEF TypeOK, Work

LEMMA RequestFields ==
    ASSUME TypeOK, NEW r \in net
    PROVE  /\ r.from \in Threads /\ r.attempt \in Nat /\ r.nonce \in Nat
           /\ r.amount \in Nat /\ r.told \in Nat
  BY DEF TypeOK, Request

LEMMA IdleType == Idle \in Work /\ Idle.step = "idle" /\ Idle.count = 0
  BY DEF Idle, Work, Step

LEMMA NumberTypes ==
    ASSUME TypeOK
    PROVE  /\ dNonce \in Nat /\ dSigned \in Nat /\ used \in Nat /\ value \in Nat
           /\ claimed \in Nat /\ allowed \in Nat /\ builds \in Nat /\ faults \in Nat
           /\ others \in Nat
  BY DEF TypeOK

-----------------------------------------------------------------------------
(* The initial states.                                                     *)

LEMMA InitIInv == ASSUME Init PROVE IInv
  <1>1. TypeOK
    BY Constants, IdleType DEF Init, TypeOK, Strategy, NoStrategy
  <1>2. Budget
    BY Constants DEF Init, Budget, StrategyFits, AmountFits, NoStrategy, Abs
  <1>3. Matching /\ Installed /\ CountsKnown
    BY Constants, IdleType DEF Init, Matching, Installed, CountsKnown
  <1>4. TokenBacked
    BY DEF Init, TokenBacked, NoStrategy
  <1>5. Funded
    BY Constants, IdleType DEF Init, Funded, EnsuredFunded, OneCallFunded, NoStrategy, Idle
  <1>6. QED
    BY <1>1, <1>2, <1>3, <1>4, <1>5 DEF IInv

-----------------------------------------------------------------------------
(* TypeOK is preserved.                                                    *)

LEMMA FindType == ASSUME TypeOK, NEW t \in Threads, Find(t) PROVE TypeOK'
  <1>1. PICK count \in Counts :
          work' = [work EXCEPT ![t] = [Idle EXCEPT !.step = "found", !.count = count,
                                                   !.nonce = dNonce, !.first = dSigned]]
    BY DEF Find, Become
  <1>2. [Idle EXCEPT !.step = "found", !.count = count, !.nonce = dNonce,
                    !.first = dSigned] \in Work
    <2>1. count \in Nat /\ dSigned \in Nat /\ dNonce \in Nat
      BY Constants, NumberTypes
    <2>2. QED
      BY <2>1 DEF Idle, Work, Step
  <1>3. work' \in [Threads -> Work]
    BY <1>1, <1>2 DEF TypeOK
  <1>4. QED
    BY <1>3, NumberTypes DEF TypeOK, Find, daemonVars

\* The channel gets what the ChannelOpen event's amount lacks, and loses nothing.
LEMMA EnsureAdds ==
    ASSUME TypeOK, NEW t \in Threads, Ensure(t)
    PROVE  /\ value' \in Nat /\ value' >= value
           /\ StartValue <= value => work[t].first + Price <= value'
  <1>1. work[t].first + Price \in Nat /\ value \in Nat /\ StartValue \in Nat
    BY WorkFields, NumberTypes, Constants
  <1> DEFINE m == Missing(work[t].first + Price)
  <1>2. m \in Nat /\ work[t].first + Price <= StartValue + m
    BY <1>1, MissingFacts
  <1>3. value' = value + m
    BY DEF Ensure
  <1> HIDE DEF m
  <1>4. QED
    BY <1>1, <1>2, <1>3

LEMMA EnsureType == ASSUME TypeOK, NEW t \in Threads, Ensure(t) PROVE TypeOK'
  <1>1. [work[t] EXCEPT !.step = "ensured"] \in Work
    BY WorkFields DEF Work, Step
  <1>2. work' \in [Threads -> Work]
    BY <1>1 DEF TypeOK, Ensure, Become
  <1>3. value' \in Nat
    BY EnsureAdds, NumberTypes
  <1>4. QED
    BY <1>2, <1>3, NumberTypes DEF TypeOK, Ensure, daemonVars, countVars

LEMMA BuildType == ASSUME TypeOK, CountsKnown, NEW t \in Threads, Build(t) PROVE TypeOK'
  <1> DEFINE s == [nonce |-> dNonce, signedAmount |-> Signed(dSigned, work[t].count),
                   token |-> -1, count |-> work[t].count,
                   steady |-> work[t].nonce = dNonce /\ work[t].first = dSigned]
  <1>1. Signed(dSigned, work[t].count) \in Int
    BY SignedBounded, NumberTypes DEF CountsKnown
  <1>2. s \in Strategy
    BY <1>1, WorkFields, NumberTypes DEF Strategy
  <1>3. strategy' \in [Threads -> Strategy]
    BY <1>2 DEF TypeOK, Build
  <1>4. allowed' \in Nat
    BY WorkFields, NumberTypes, Constants DEF Build
  <1>5. [Idle EXCEPT !.step = "refresh"] \in Work
    BY DEF Idle, Work, Step
  <1>6. work' \in [Threads -> Work]
    BY <1>5 DEF TypeOK, Build, Become
  <1>7. QED
    BY <1>3, <1>4, <1>6, NumberTypes DEF TypeOK, Build, daemonVars

LEMMA RenewType == ASSUME TypeOK, NEW t \in Threads, Renew(t) PROVE TypeOK'
  <1>1. [Idle EXCEPT !.step = "refresh"] \in Work
    BY DEF Idle, Work, Step
  <1>2. work' \in [Threads -> Work]
    BY <1>1 DEF TypeOK, Renew, Become
  <1>3. QED
    BY <1>2, NumberTypes DEF TypeOK, Renew, daemonVars, countVars

LEMMA GetTokenType == ASSUME TypeOK, Installed, NEW t \in Threads, GetToken(t) PROVE TypeOK'
  <1>1. strategy[t].nonce \in Nat
    BY DEF Installed, GetToken, At
  <1>2. TokenRequest(t) \in Request
    BY <1>1, StrategyFields, Uint64Type, NumberTypes DEF TokenRequest, Request
  <1>3. [Idle EXCEPT !.step = "waiting", !.attempt = faults] \in Work
    BY NumberTypes DEF Idle, Work, Step
  <1>4. work' \in [Threads -> Work]
    BY <1>3 DEF TypeOK, GetToken, Become
  <1>5. QED
    BY <1>2, <1>4, NumberTypes DEF TypeOK, GetToken, daemonVars, countVars

LEMMA HandleType == ASSUME TypeOK, NEW r \in net, Handle(r) PROVE TypeOK'
  <1>1. r.from \in Threads /\ r.amount \in Nat /\ r.nonce \in Nat
    BY RequestFields
  <1>2. dSigned' \in Nat
    BY <1>1, NumberTypes DEF Handle
  <1>3. work' \in [Threads -> Work]
    BY <1>1, IdleType DEF TypeOK, Handle
  <1>4. [strategy[r.from] EXCEPT !.token = r.nonce] \in Strategy
    BY <1>1, StrategyFields DEF Strategy
  <1>5. strategy' \in [Threads -> Strategy]
    BY <1>1, <1>4 DEF TypeOK, Handle, TakesToken
  <1>6. QED
    BY <1>2, <1>3, <1>5, NumberTypes DEF TypeOK, Handle, countVars

LEMMA TypeStep == ASSUME IInv, [Next]_vars PROVE TypeOK'
  <1> USE DEF IInv
  <1>1. ASSUME NEW t \in Threads, Fails(t) PROVE TypeOK'
    <2>1. work' \in [Threads -> Work]
      BY <1>1, IdleType DEF TypeOK, Fails, Become
    <2>2. QED
      BY <1>1, <2>1, NumberTypes DEF TypeOK, Fails, daemonVars
  <1>2. ASSUME NEW t \in Threads, Call(t) PROVE TypeOK'
    BY <1>2, NumberTypes, Constants DEF TypeOK, Call, clientVars, countVars
  <1>3. CASE OtherOpens
    BY <1>3, NumberTypes DEF TypeOK, OtherOpens, clientVars, daemonVars, countVars
  <1>4. CASE OtherPays
    BY <1>4, NumberTypes, Constants DEF TypeOK, OtherPays, clientVars
  <1>5. CASE Claim
    BY <1>5, NumberTypes DEF TypeOK, Budget, Claim, clientVars, countVars
  <1>6. CASE UNCHANGED vars
    BY <1>6 DEF TypeOK, vars, clientVars, daemonVars, countVars
  <1>7. QED
    BY <1>1, <1>2, <1>3, <1>4, <1>5, <1>6, FindType, EnsureType, BuildType, RenewType,
       GetTokenType, HandleType DEF Next

-----------------------------------------------------------------------------
(* Budget is preserved.                                                    *)

\* A step that leaves what is signed alone and takes no tokens.
LEMMA BudgetSame ==
    ASSUME TypeOK, Budget, value' \in Nat, value' >= value,
           UNCHANGED <<strategy, net, dNonce, dSigned, claimed, allowed>>
    PROVE  Budget'
  <1>1. value \in Nat /\ dSigned \in Nat
    BY NumberTypes
  <1>2. dSigned' <= value'
    BY <1>1 DEF Budget
  <1>3. QED
    BY <1>2 DEF Budget, StrategyFits, AmountFits

LEMMA BuildBudget ==
    ASSUME TypeOK, Budget, CountsKnown, NEW t \in Threads, Build(t)
    PROVE  Budget'
  <1> DEFINE c == work[t].count
  <1>1. Signed(dSigned, c) \in Int /\ Abs(Signed(dSigned, c)) <= dSigned + Price * c
    BY SignedBounded, NumberTypes DEF CountsKnown
  <1>2. Price * c \in Nat /\ allowed' = allowed + Price * c
    BY WorkFields, Constants DEF Build
  <1>3. Abs(Signed(dSigned, c)) \in Nat
    BY <1>1, AbsType
  <1> HIDE DEF c
  <1>4. UNCHANGED <<net, dNonce, dSigned, claimed, value>>
    BY DEF Build, daemonVars
  <1>5. claimed + dSigned <= allowed' /\ dSigned <= value
    BY <1>2, NumberTypes DEF Budget
  <1>6. ASSUME NEW u \in Threads PROVE StrategyFits(u)'
    <2>1. CASE u = t
      <3>1. /\ strategy'[t].nonce = dNonce /\ strategy'[t].token = -1
            /\ strategy'[t].signedAmount = Signed(dSigned, c)
        BY DEF Build, TypeOK, c
      <3>2. claimed + Abs(Signed(dSigned, c)) <= allowed'
        BY <1>1, <1>2, <1>3, NumberTypes DEF Budget
      <3>3. QED
        BY <2>1, <3>1, <3>2, <1>4, NumberTypes DEF StrategyFits, AmountFits
    <2>2. CASE u # t
      <3>1. strategy'[u] = strategy[u]
        BY <2>2 DEF Build, TypeOK
      <3>2. StrategyFits(u) /\ Abs(strategy[u].signedAmount) \in Nat
        BY StrategyFields DEF Budget
      <3>3. QED
        BY <3>1, <3>2, <1>2, <1>4, NumberTypes DEF StrategyFits, AmountFits
    <2>3. QED
      BY <2>1, <2>2
  <1>7. ASSUME NEW r \in net' PROVE AmountFits(r.nonce, r.amount)'
    <2>1. AmountFits(r.nonce, r.amount) /\ r.amount \in Nat
      BY <1>4, RequestFields DEF Budget
    <2>2. QED
      BY <2>1, <1>2, <1>4, NumberTypes DEF AmountFits
  <1>8. QED
    BY <1>4, <1>5, <1>6, <1>7 DEF Budget

LEMMA GetTokenBudget ==
    ASSUME TypeOK, Budget, NEW t \in Threads, GetToken(t)
    PROVE  Budget'
  <1>1. UNCHANGED <<strategy, dNonce, dSigned, claimed, value, allowed>>
    BY DEF GetToken, daemonVars, countVars
  <1>2. ASSUME NEW r \in net' PROVE AmountFits(r.nonce, r.amount)'
    <2>1. AmountFits(r.nonce, r.amount)
      BY DEF Budget, StrategyFits, GetToken, TokenRequest
    <2>2. QED
      BY <2>1, <1>1 DEF AmountFits
  <1>3. QED
    BY <1>1, <1>2 DEF Budget, StrategyFits, AmountFits

LEMMA HandleBudget ==
    ASSUME TypeOK, Budget, NEW r \in net, Handle(r)
    PROVE  Budget'
  <1>1. /\ UNCHANGED <<dNonce, claimed, value, allowed>> /\ net' \subseteq net
        /\ dSigned' = IF Grants(r) THEN r.amount ELSE dSigned
    BY DEF Handle, countVars
  <1>2. claimed + dSigned' <= allowed /\ dSigned' <= value
    BY <1>1 DEF Budget, AmountFits, Grants
  <1>3. ASSUME NEW u \in Threads PROVE StrategyFits(u)'
    <2>1. /\ strategy'[u].nonce = strategy[u].nonce
          /\ strategy'[u].signedAmount = strategy[u].signedAmount
          /\ strategy'[u].token \in {strategy[u].token, r.nonce}
      BY RequestFields, StrategyFields DEF Handle, TakesToken, TypeOK, Strategy
    <2>2. StrategyFits(u) /\ r.nonce <= dNonce
      BY DEF Budget, AmountFits
    <2>3. QED
      BY <1>1, <2>1, <2>2 DEF StrategyFits, AmountFits
  <1>4. ASSUME NEW q \in net' PROVE AmountFits(q.nonce, q.amount)'
    BY <1>1 DEF Budget, AmountFits
  <1>5. QED
    BY <1>1, <1>2, <1>3, <1>4 DEF Budget

LEMMA OtherPaysBudget ==
    ASSUME TypeOK, Budget, OtherPays
    PROVE  Budget'
  <1>1. UNCHANGED <<strategy, net, dNonce, claimed, value>>
    BY DEF OtherPays, clientVars
  <1>2. allowed' = allowed + Price /\ dSigned' = dSigned + Price /\ dSigned' <= value
    BY DEF OtherPays
  <1>3. claimed + dSigned' <= allowed'
    BY <1>2, NumberTypes, Constants DEF Budget
  <1>4. ASSUME NEW n, NEW a \in Nat, AmountFits(n, a) PROVE AmountFits(n, a)'
    BY <1>1, <1>2, <1>4, NumberTypes, Constants DEF AmountFits
  <1>5. \A t \in Threads : StrategyFits(t)'
    BY <1>1, <1>4, StrategyFields DEF Budget, StrategyFits
  <1>6. \A r \in net : AmountFits(r.nonce, r.amount)'
    BY <1>4, RequestFields DEF Budget
  <1>7. QED
    BY <1>1, <1>2, <1>3, <1>5, <1>6 DEF Budget

LEMMA ClaimBudget ==
    ASSUME TypeOK, Budget, Claim
    PROVE  Budget'
  <1>1. /\ UNCHANGED <<strategy, net, allowed>>
        /\ dNonce' = dNonce + 1 /\ dSigned' = 0
        /\ claimed' = claimed + dSigned /\ value' = value - dSigned
    BY DEF Claim, clientVars, countVars
  <1>2. ASSUME NEW n \in Nat \cup {-1}, NEW a, AmountFits(n, a) PROVE AmountFits(n, a)'
    BY <1>1, <1>2, NumberTypes DEF AmountFits
  <1>3. \A t \in Threads : StrategyFits(t)'
    BY <1>1, <1>2, StrategyFields, NumberTypes DEF Budget, StrategyFits
  <1>4. \A r \in net : AmountFits(r.nonce, r.amount)'
    BY <1>2, RequestFields DEF Budget
  <1>5. QED
    BY <1>1, <1>3, <1>4, NumberTypes DEF Budget

LEMMA BudgetStep == ASSUME IInv, [Next]_vars PROVE Budget'
  <1> USE DEF IInv
  <1>1. ASSUME NEW t \in Threads, Find(t) \/ Renew(t) \/ Fails(t) \/ Call(t) PROVE Budget'
    <2>1. UNCHANGED <<strategy, net, dNonce, dSigned, claimed, allowed, value>>
      BY <1>1 DEF Find, Renew, Fails, Call, clientVars, daemonVars, countVars
    <2>2. QED
      BY <2>1, BudgetSame, NumberTypes
  <1>2. ASSUME NEW t \in Threads, Ensure(t) PROVE Budget'
    <2>1. value' \in Nat /\ value' >= value
      BY <1>2, EnsureAdds
    <2>2. UNCHANGED <<strategy, net, dNonce, dSigned, claimed, allowed>>
      BY <1>2 DEF Ensure, daemonVars, countVars
    <2>3. QED
      BY <2>1, <2>2, BudgetSame
  <1>3. CASE OtherOpens \/ UNCHANGED vars
    <2>1. UNCHANGED <<strategy, net, dNonce, dSigned, claimed, allowed, value>>
      BY <1>3 DEF OtherOpens, vars, clientVars, daemonVars, countVars
    <2>2. QED
      BY <2>1, BudgetSame, NumberTypes
  <1>4. QED
    BY <1>1, <1>2, <1>3, BuildBudget, GetTokenBudget, HandleBudget, OtherPaysBudget,
       ClaimBudget DEF Next

-----------------------------------------------------------------------------
(* Matching, Installed and CountsKnown are preserved.                      *)

\* A client that is not waiting before or after a step awaits nothing.
LEMMA NotAwaited ==
    ASSUME NEW r, work[r.from].step # "waiting"
    PROVE  ~Awaited(r)
  BY DEF Awaited, At

\* A step of a client that was not waiting and does not wait after it.
LEMMA MatchingQuiet ==
    ASSUME TypeOK, Matching, NEW t \in Threads,
           work[t].step # "waiting", work'[t].step # "waiting",
           \A u \in Threads \ {t} : work'[u] = work[u] /\ strategy'[u] = strategy[u],
           UNCHANGED <<net, faults>>
    PROVE  Matching'
  <1>1. SUFFICES ASSUME NEW r \in net PROVE RequestMatches(r)'
    BY DEF Matching
  <1>2. r.from \in Threads /\ RequestMatches(r)
    BY RequestFields DEF Matching
  <1>3. QED
    BY <1>2 DEF RequestMatches, Awaited, At

LEMMA MatchingSame ==
    ASSUME Matching, UNCHANGED <<work, strategy, net, faults>>
    PROVE  Matching'
  BY DEF Matching, RequestMatches, Awaited, At

LEMMA GetTokenMatching ==
    ASSUME TypeOK, Matching, NEW t \in Threads, GetToken(t)
    PROVE  Matching'
  <1>1. UNCHANGED <<strategy, faults>> /\ net' = net \cup {TokenRequest(t)}
    BY DEF GetToken, countVars
  <1>2. /\ work'[t].step = "waiting" /\ work'[t].attempt = faults
        /\ \A u \in Threads \ {t} : work'[u] = work[u]
    BY DEF GetToken, Become, TypeOK, Idle
  <1>3. SUFFICES ASSUME NEW r \in net' PROVE RequestMatches(r)'
    BY DEF Matching
  <1>4. CASE r = TokenRequest(t)
    <2>1. /\ r.from = t /\ r.attempt = faults /\ r.nonce = strategy[t].nonce
          /\ r.amount = Abs(strategy[t].signedAmount)
          /\ r.told = Uint64(strategy[t].signedAmount)
      BY <1>4 DEF TokenRequest
    <2>2. faults \in Nat
      BY NumberTypes
    <2>3. QED
      BY <1>1, <1>2, <2>1, <2>2 DEF RequestMatches, Awaited, At
  <1>5. CASE r \in net
    <2>1. r.from \in Threads /\ r.attempt \in Nat /\ RequestMatches(r) /\ faults \in Nat
      BY <1>5, RequestFields, NumberTypes DEF Matching
    <2>2. CASE r.from = t
      <3>1. ~Awaited(r)
        BY <2>2 DEF GetToken, Awaited, At
      <3>2. r.attempt < faults
        BY <2>1, <3>1 DEF RequestMatches
      <3>3. QED
        BY <1>1, <1>2, <2>1, <2>2, <3>2 DEF RequestMatches, Awaited, At
    <2>3. CASE r.from # t
      BY <1>1, <1>2, <2>1, <2>3 DEF RequestMatches, Awaited, At
    <2>4. QED
      BY <2>2, <2>3
  <1>6. QED
    BY <1>1, <1>4, <1>5

\* What a client awaited before its attempt failed is older than the failure.
LEMMA FailsMatching ==
    ASSUME TypeOK, Matching, NEW t \in Threads, Fails(t)
    PROVE  Matching'
  <1>1. /\ UNCHANGED <<strategy, net>> /\ faults' = faults + 1 /\ faults \in Nat
        /\ \A u \in Threads \ {t} : work'[u] = work[u]
        /\ work'[t].step = "idle"
    BY NumberTypes, IdleType DEF Fails, Become, TypeOK
  <1>2. SUFFICES ASSUME NEW r \in net PROVE RequestMatches(r)'
    BY <1>1 DEF Matching
  <1>3. r.from \in Threads /\ r.attempt \in Nat /\ RequestMatches(r)
    BY RequestFields DEF Matching
  <1>4. QED
    BY <1>1, <1>3 DEF RequestMatches, Awaited, At

LEMMA HandleMatching ==
    ASSUME TypeOK, Matching, NEW r \in net, Handle(r)
    PROVE  Matching'
  <1>1. /\ UNCHANGED faults /\ net' = net \ {r} /\ r.from \in Threads
        /\ work' = IF Awaited(r) THEN [work EXCEPT ![r.from] = Idle] ELSE work
    BY RequestFields DEF Handle, countVars
  <1>2. \A u \in Threads : /\ strategy'[u].nonce = strategy[u].nonce
                           /\ strategy'[u].signedAmount = strategy[u].signedAmount
    BY RequestFields, StrategyFields DEF Handle, TakesToken, TypeOK, Strategy
  <1>3. SUFFICES ASSUME NEW q \in net, q # r PROVE RequestMatches(q)'
    BY <1>1 DEF Matching
  <1>4. q.from \in Threads /\ RequestMatches(q) /\ RequestMatches(r)
    BY RequestFields DEF Matching
  <1>5. Awaited(r) /\ Awaited(q) => q.from # r.from
    <2>1. SUFFICES ASSUME Awaited(r), Awaited(q), q.from = r.from PROVE q = r
      BY <1>3
    <2>2. q.attempt = r.attempt /\ q.nonce = r.nonce /\ q.amount = r.amount /\ q.told = r.told
      BY <1>4, <2>1 DEF RequestMatches, Awaited
    <2>3. q \in Request /\ r \in Request
      BY DEF TypeOK
    <2>4. QED
      BY <2>1, <2>2, <2>3 DEF Request
  <1>6. Awaited(q)' <=> Awaited(q)
    BY <1>1, <1>4, <1>5, IdleType DEF Awaited, At, TypeOK
  <1>7. QED
    BY <1>1, <1>2, <1>4, <1>6 DEF RequestMatches

LEMMA MatchingStep == ASSUME IInv, [Next]_vars PROVE Matching'
  <1> USE DEF IInv
  <1>1. ASSUME NEW t \in Threads, Find(t) PROVE Matching'
    <2>1. PICK count \in Counts :
            work' = [work EXCEPT ![t] = [Idle EXCEPT !.step = "found", !.count = count,
                                                     !.nonce = dNonce, !.first = dSigned]]
      BY <1>1 DEF Find, Become
    <2>2. /\ work[t].step # "waiting" /\ work'[t].step # "waiting"
          /\ \A u \in Threads \ {t} : work'[u] = work[u]
      BY <1>1, <2>1 DEF Find, At, TypeOK, Idle
    <2>3. UNCHANGED <<strategy, net, faults>>
      BY <1>1 DEF Find
    <2>4. QED
      BY <2>2, <2>3, MatchingQuiet
  <1>2. ASSUME NEW t \in Threads, Ensure(t) PROVE Matching'
    <2>1. /\ work[t].step # "waiting" /\ work'[t].step # "waiting"
          /\ \A u \in Threads \ {t} : work'[u] = work[u]
      BY <1>2, WorkFields DEF Ensure, At, Become, TypeOK, Work
    <2>2. UNCHANGED <<strategy, net, faults>>
      BY <1>2 DEF Ensure, countVars
    <2>3. QED
      BY <2>1, <2>2, MatchingQuiet
  <1>3. ASSUME NEW t \in Threads, Build(t) PROVE Matching'
    <2>1. /\ work[t].step # "waiting" /\ work'[t].step # "waiting"
          /\ \A u \in Threads \ {t} : work'[u] = work[u] /\ strategy'[u] = strategy[u]
      BY <1>3 DEF Build, At, Become, TypeOK, Idle
    <2>2. UNCHANGED <<net, faults>>
      BY <1>3 DEF Build
    <2>3. QED
      BY <2>1, <2>2, MatchingQuiet
  <1>4. ASSUME NEW t \in Threads, Renew(t) PROVE Matching'
    <2>1. /\ work[t].step # "waiting" /\ work'[t].step # "waiting"
          /\ \A u \in Threads \ {t} : work'[u] = work[u]
      BY <1>4 DEF Renew, At, Become, TypeOK, Idle
    <2>2. UNCHANGED <<strategy, net, faults>>
      BY <1>4 DEF Renew, countVars
    <2>3. QED
      BY <2>1, <2>2, MatchingQuiet
  <1>5. ASSUME NEW t \in Threads, Call(t) PROVE Matching'
    BY <1>5, MatchingSame DEF Call, clientVars, countVars
  <1>6. CASE OtherOpens \/ OtherPays \/ Claim \/ UNCHANGED vars
    BY <1>6, MatchingSame DEF OtherOpens, OtherPays, Claim, vars, clientVars, countVars
  <1>7. QED
    BY <1>1, <1>2, <1>3, <1>4, <1>5, <1>6, GetTokenMatching, FailsMatching, HandleMatching
       DEF Next

LEMMA InstalledStep == ASSUME IInv, [Next]_vars PROVE Installed' /\ CountsKnown'
  <1> USE DEF IInv
  <1>0. 0 \in 0..(2 * Half - 1)
    BY Constants
  <1>1. ASSUME NEW t \in Threads, Find(t) PROVE Installed' /\ CountsKnown'
    <2>1. PICK count \in Counts :
            work' = [work EXCEPT ![t] = [Idle EXCEPT !.step = "found", !.count = count,
                                                     !.nonce = dNonce, !.first = dSigned]]
      BY <1>1 DEF Find, Become
    <2>2. /\ work'[t].step = "found" /\ work'[t].count \in 0..(2 * Half - 1)
          /\ \A u \in Threads \ {t} : work'[u] = work[u]
      BY <2>1, Constants DEF TypeOK, Idle
    <2>3. QED
      BY <1>1, <2>2 DEF Find, Installed, CountsKnown
  <1>2. ASSUME NEW t \in Threads, Ensure(t) PROVE Installed' /\ CountsKnown'
    <2>1. /\ work'[t].step = "ensured" /\ work'[t].count = work[t].count
          /\ \A u \in Threads \ {t} : work'[u] = work[u]
      BY <1>2, WorkFields DEF Ensure, Become, TypeOK, Work
    <2>2. QED
      BY <1>2, <2>1 DEF Ensure, Installed, CountsKnown
  <1>3. ASSUME NEW t \in Threads, Build(t) PROVE Installed' /\ CountsKnown'
    <2>1. /\ work'[t].count = 0 /\ strategy'[t].nonce = dNonce /\ dNonce \in Nat
          /\ \A u \in Threads \ {t} : work'[u] = work[u] /\ strategy'[u] = strategy[u]
      BY <1>3, NumberTypes DEF Build, Become, TypeOK, Idle
    <2>2. QED
      BY <1>0, <2>1 DEF Installed, CountsKnown
  <1>4. ASSUME NEW t \in Threads, Renew(t) PROVE Installed' /\ CountsKnown'
    <2>1. /\ work'[t].count = 0 /\ strategy' = strategy
          /\ \A u \in Threads \ {t} : work'[u] = work[u]
      BY <1>4, StrategyFields DEF Renew, Become, TypeOK, Idle
    <2>2. strategy[t].nonce \in Nat
      BY <1>4, StrategyFields DEF Renew
    <2>3. QED
      BY <1>0, <2>1, <2>2 DEF Installed, CountsKnown
  <1>5. ASSUME NEW t \in Threads, GetToken(t) PROVE Installed' /\ CountsKnown'
    <2>1. /\ work'[t].count = 0 /\ strategy' = strategy /\ work[t].step = "refresh"
          /\ \A u \in Threads \ {t} : work'[u] = work[u]
      BY <1>5 DEF GetToken, At, Become, TypeOK, Idle
    <2>2. QED
      BY <1>0, <2>1 DEF Installed, CountsKnown
  <1>6. ASSUME NEW t \in Threads, Fails(t) PROVE Installed' /\ CountsKnown'
    <2>1. /\ work'[t].count = 0 /\ work'[t].step = "idle" /\ strategy' = strategy
          /\ \A u \in Threads \ {t} : work'[u] = work[u]
      BY <1>6, IdleType DEF Fails, Become, TypeOK
    <2>2. QED
      BY <1>0, <2>1 DEF Installed, CountsKnown
  <1>7. ASSUME NEW r \in net, Handle(r) PROVE Installed' /\ CountsKnown'
    <2>1. \A u \in Threads : strategy'[u].nonce = strategy[u].nonce
      BY <1>7, RequestFields, StrategyFields DEF Handle, TakesToken, TypeOK, Strategy
    <2>2. \A u \in Threads : work'[u] = work[u] \/ work'[u] = Idle
      BY <1>7, RequestFields DEF Handle, TypeOK
    <2>3. QED
      BY <1>0, <2>1, <2>2, IdleType DEF Installed, CountsKnown
  <1>8. ASSUME UNCHANGED <<strategy, work>> PROVE Installed' /\ CountsKnown'
    BY <1>8 DEF Installed, CountsKnown
  <1>9. QED
    BY <1>1, <1>2, <1>3, <1>4, <1>5, <1>6, <1>7, <1>8
       DEF Next, Call, OtherOpens, OtherPays, Claim, vars, clientVars

-----------------------------------------------------------------------------
(* TokenBacked is preserved.                                               *)

\* Nobody gets a token and the daemon holds no less.
LEMMA BackedSame ==
    ASSUME TypeOK, TokenBacked, dSigned' \in Nat, dSigned' >= dSigned,
           UNCHANGED <<strategy, dNonce>>
    PROVE  TokenBacked'
  BY StrategyFields, NumberTypes DEF TokenBacked

LEMMA HandleBacked ==
    ASSUME IInv, NEW r \in net, Handle(r)
    PROVE  TokenBacked'
  <1> USE DEF IInv
  <1>1. /\ r.from \in Threads /\ RequestMatches(r) /\ UNCHANGED dNonce
        /\ r.amount \in Nat /\ dSigned \in Nat
        /\ dSigned' = IF Grants(r) THEN r.amount ELSE dSigned
    BY RequestFields, NumberTypes DEF Handle, Matching
  <1>2. dSigned' \in Nat /\ dSigned' >= dSigned
    BY <1>1 DEF Grants
  <1>3. SUFFICES ASSUME NEW t \in Threads,
                        strategy'[t].token = dNonce, strategy'[t].nonce = dNonce
                 PROVE  Abs(strategy'[t].signedAmount) <= dSigned'
    BY <1>1 DEF TokenBacked
  <1>4. /\ strategy'[t].nonce = strategy[t].nonce
        /\ strategy'[t].signedAmount = strategy[t].signedAmount
    BY <1>1, StrategyFields DEF Handle, TakesToken, TypeOK, Strategy
  <1>5. CASE t = r.from /\ Awaited(r) /\ Grants(r)
    BY <1>1, <1>4, <1>5 DEF RequestMatches
  <1>6. CASE ~(t = r.from /\ Awaited(r) /\ Grants(r))
    <2>1. strategy'[t] = strategy[t]
      BY <1>1, <1>6 DEF Handle, TakesToken, TypeOK
    <2>2. Abs(strategy[t].signedAmount) <= dSigned
      BY <1>3, <2>1 DEF TokenBacked
    <2>3. QED
      BY <1>1, <1>2, <1>4, <2>2, StrategyFields
  <1>7. QED
    BY <1>5, <1>6

LEMMA BackedStep == ASSUME IInv, [Next]_vars PROVE TokenBacked'
  <1> USE DEF IInv
  <1>1. ASSUME UNCHANGED <<strategy, dNonce, dSigned>> PROVE TokenBacked'
    BY <1>1 DEF TokenBacked
  <1>2. ASSUME NEW t \in Threads, Build(t) PROVE TokenBacked'
    <2>1. /\ strategy'[t].token = -1 /\ UNCHANGED <<dNonce, dSigned>> /\ dNonce \in Nat
          /\ \A u \in Threads \ {t} : strategy'[u] = strategy[u]
      BY <1>2, NumberTypes DEF Build, TypeOK, daemonVars
    <2>2. QED
      BY <2>1 DEF TokenBacked
  <1>3. CASE OtherPays
    <2>1. dSigned' \in Nat /\ dSigned' >= dSigned /\ UNCHANGED <<strategy, dNonce>>
      BY <1>3, NumberTypes, Constants DEF OtherPays, clientVars
    <2>2. QED
      BY <2>1, BackedSame
  <1>4. CASE Claim
    <2>1. \A t \in Threads : strategy'[t] = strategy[t] /\ strategy[t].token < dNonce'
      BY <1>4, NumberTypes, StrategyFields DEF Claim, clientVars, Budget, StrategyFits
    <2>2. QED
      BY <2>1, StrategyFields, NumberTypes, <1>4 DEF TokenBacked, Claim
  <1>5. QED
    BY <1>1, <1>2, <1>3, <1>4, HandleBacked
       DEF Next, Find, Ensure, Renew, GetToken, Fails, Call, OtherOpens, vars,
           clientVars, daemonVars

-----------------------------------------------------------------------------
(* Funded is preserved.                                                    *)

LEMMA OneCallBounded ==
    ASSUME NEW s \in Nat, NEW c \in Nat, c <= 1, c < Half
    PROVE  Abs(Signed(s, c)) <= s + Price
  <1>1. Int64(c) = c /\ c \in {0, 1}
    BY Constants DEF Int64
  <1>2. Price * Int64(c) \in {0, Price}
    BY <1>1, Constants
  <1>3. QED
    BY <1>2, Constants DEF Signed, Abs

\* The channel loses nothing, and clients do nothing new about funds.
LEMMA FundedSame ==
    ASSUME TypeOK, Funded, value' \in Nat, value' >= value, UNCHANGED dNonce,
           \A t \in Threads :
             /\ strategy'[t].nonce = strategy[t].nonce
             /\ strategy'[t].steady = strategy[t].steady
             /\ strategy'[t].count = strategy[t].count
             /\ strategy'[t].signedAmount = strategy[t].signedAmount
             /\ work'[t].step # "ensured" \/ work'[t] = work[t]
    PROVE  Funded'
  <1>1. EnsuredFunded'
    BY WorkFields, NumberTypes, Constants DEF Funded, EnsuredFunded
  <1>2. OneCallFunded'
    BY StrategyFields, NumberTypes DEF Funded, OneCallFunded
  <1>3. QED
    BY <1>1, <1>2 DEF Funded

LEMMA EnsureFunded ==
    ASSUME IInv, NEW t \in Threads, Ensure(t)
    PROVE  Funded'
  <1> USE DEF IInv
  <1>1. /\ value' \in Nat /\ value' >= value
        /\ StartValue <= value => work[t].first + Price <= value'
        /\ UNCHANGED <<strategy, dNonce>>
    BY EnsureAdds DEF Ensure, daemonVars
  <1>2. /\ work'[t].first = work[t].first
        /\ \A u \in Threads \ {t} : work'[u] = work[u]
    BY WorkFields DEF Ensure, Become, TypeOK, Work
  <1>3. EnsuredFunded'
    BY <1>1, <1>2, WorkFields, NumberTypes, Constants DEF Funded, EnsuredFunded
  <1>4. OneCallFunded'
    BY <1>1, StrategyFields, NumberTypes DEF Funded, OneCallFunded
  <1>5. QED
    BY <1>3, <1>4 DEF Funded

LEMMA BuildFunded ==
    ASSUME IInv, NEW t \in Threads, Build(t)
    PROVE  Funded'
  <1> USE DEF IInv
  <1>1. /\ UNCHANGED <<value, dNonce>> /\ work[t].step = "ensured"
        /\ work'[t].step = "refresh"
        /\ \A u \in Threads \ {t} : work'[u] = work[u] /\ strategy'[u] = strategy[u]
    BY DEF Build, At, Become, TypeOK, Idle, daemonVars
  <1>2. EnsuredFunded'
    BY <1>1, NumberTypes DEF Funded, EnsuredFunded
  <1>3. /\ strategy'[t].signedAmount = Signed(dSigned, work[t].count)
        /\ strategy'[t].count = work[t].count
        /\ strategy'[t].steady = (work[t].nonce = dNonce /\ work[t].first = dSigned)
    BY DEF Build, TypeOK
  <1>4. ASSUME dNonce = 0, work[t].first = dSigned, work[t].count <= 1, work[t].count < Half
        PROVE  Abs(Signed(dSigned, work[t].count)) <= value
    <2>1. dSigned + Price <= value
      BY <1>1, <1>4 DEF Funded, EnsuredFunded
    <2>2. work[t].count \in Nat /\ dSigned \in Nat
      BY WorkFields, NumberTypes
    <2>3. Abs(Signed(dSigned, work[t].count)) <= dSigned + Price
      BY <1>4, <2>2, OneCallBounded
    <2>4. Abs(Signed(dSigned, work[t].count)) \in Nat
      BY SignedBounded, AbsType, <2>2 DEF CountsKnown
    <2>5. QED
      BY <2>1, <2>2, <2>3, <2>4, NumberTypes, Constants
  <1>5. OneCallFunded'
    <2>1. SUFFICES ASSUME dNonce = 0, NEW u \in Threads, strategy'[u].nonce = 0,
                          strategy'[u].steady, strategy'[u].count <= 1,
                          strategy'[u].count < Half
                   PROVE  Abs(strategy'[u].signedAmount) <= value
      BY <1>1 DEF OneCallFunded
    <2>2. CASE u = t
      BY <1>3, <1>4, <2>1, <2>2
    <2>3. CASE u # t
      BY <1>1, <2>1, <2>3 DEF Funded, OneCallFunded
    <2>4. QED
      BY <2>2, <2>3
  <1>6. QED
    BY <1>2, <1>5 DEF Funded

LEMMA ClaimFunded == ASSUME IInv, Claim PROVE Funded'
  <1>1. dNonce' # 0
    BY NumberTypes DEF Claim, IInv
  <1>2. QED
    BY <1>1 DEF Funded, EnsuredFunded, OneCallFunded

LEMMA FundedStep == ASSUME IInv, [Next]_vars PROVE Funded'
  <1> USE DEF IInv
  <1>1. ASSUME NEW t \in Threads, Find(t) PROVE Funded'
    <2>1. PICK count \in Counts :
            work' = [work EXCEPT ![t] = [Idle EXCEPT !.step = "found", !.count = count,
                                                     !.nonce = dNonce, !.first = dSigned]]
      BY <1>1 DEF Find, Become
    <2>2. /\ work'[t].step = "found"
          /\ \A u \in Threads \ {t} : work'[u] = work[u]
      BY <2>1 DEF TypeOK, Idle
    <2>3. UNCHANGED <<strategy, dNonce, value>>
      BY <1>1 DEF Find, daemonVars
    <2>4. QED
      BY <2>2, <2>3, FundedSame, NumberTypes
  <1>2. ASSUME NEW t \in Threads, Renew(t) \/ GetToken(t) \/ Fails(t) PROVE Funded'
    <2>1. /\ work'[t].step # "ensured"
          /\ \A u \in Threads \ {t} : work'[u] = work[u]
      <3>1. CASE Renew(t)
        BY <3>1 DEF Renew, Become, TypeOK, Idle
      <3>2. CASE GetToken(t)
        BY <3>2 DEF GetToken, Become, TypeOK, Idle
      <3>3. CASE Fails(t)
        BY <3>3 DEF Fails, Become, TypeOK, Idle
      <3>4. QED
        BY <1>2, <3>1, <3>2, <3>3
    <2>2. UNCHANGED <<strategy, dNonce, value>>
      BY <1>2 DEF Renew, GetToken, Fails, daemonVars
    <2>3. QED
      BY <2>1, <2>2, FundedSame, NumberTypes
  <1>3. ASSUME NEW r \in net, Handle(r) PROVE Funded'
    <2>1. \A u \in Threads : /\ strategy'[u].nonce = strategy[u].nonce
                             /\ strategy'[u].steady = strategy[u].steady
                             /\ strategy'[u].count = strategy[u].count
                             /\ strategy'[u].signedAmount = strategy[u].signedAmount
      BY <1>3, RequestFields, StrategyFields DEF Handle, TakesToken, TypeOK, Strategy
    <2>2. \A u \in Threads : work'[u] = work[u] \/ work'[u] = Idle
      BY <1>3, RequestFields DEF Handle, TypeOK
    <2>3. Idle.step # "ensured" /\ UNCHANGED <<dNonce, value>>
      BY <1>3 DEF Idle, Handle
    <2>4. QED
      BY <2>1, <2>2, <2>3, FundedSame, NumberTypes
  <1>4. ASSUME UNCHANGED <<strategy, work, dNonce, value>> PROVE Funded'
    BY <1>4 DEF Funded, EnsuredFunded, OneCallFunded
  <1>5. QED
    BY <1>1, <1>2, <1>3, <1>4, EnsureFunded, BuildFunded, ClaimFunded
       DEF Next, Call, OtherOpens, OtherPays, vars, clientVars, daemonVars

-----------------------------------------------------------------------------
(* The theorems.                                                           *)

LEMMA IInvStep == ASSUME IInv, [Next]_vars PROVE IInv'
  BY TypeStep, BudgetStep, MatchingStep, InstalledStep, BackedStep, FundedStep DEF IInv

LEMMA Invariance == Spec => []IInv
  BY InitIInv, IInvStep, PTL DEF Spec

\* The state is well-typed: an amount that became negative is signed and told
\* without its sign (prepaid_strategy.go:208, BigToHash and Uint64).
THEOREM PrepaidTyped == Spec => []TypeOK
  <1>1. IInv => TypeOK
    BY DEF IInv
  <1>2. QED
    BY <1>1, Invariance, PTL

\* What the provider has taken and can still take is at most the price of the
\* calls that were asked for, whatever NewPrePaidStrategy and Refresh of any
\* number of clients sign, repeat and lose.
THEOREM PrepaidExposure == Spec => []ExposureBounded
  <1>1. IInv => ExposureBounded
    BY DEF IInv, Budget, ExposureBounded
  <1>2. QED
    BY <1>1, Invariance, PTL

\* A token for the channel's nonce stands for an amount the daemon has accepted
\* (Refresh): late answers to attempts that were given up are no tokens.
THEOREM PrepaidTokens == Spec => []TokenBacked
  <1>1. IInv => TokenBacked
    BY DEF IInv
  <1>2. QED
    BY <1>1, Invariance, PTL

\* What was signed for one call is in the channel until the provider claims for
\* the first time, when the daemon gave the same answer before and after
\* EnsurePaymentChannel, which judges the channel by its ChannelOpen event.
THEOREM PrepaidFunded == Spec => []OneCallFunded
  <1>1. IInv => OneCallFunded
    BY DEF IInv, Funded
  <1>2. QED
    BY <1>1, Invariance, PTL
================================================================================
