------------------------------ MODULE PrepaidCalls ------------------------------
(***************************************************************************)
(* The prepaid strategy (pkg/payment/prepaid_strategy.go), installed by    *)
(* SetPrePaidPaymentStrategy (pkg/sdk/service.go): what clients of one     *)
(* payer sign on one channel to get tokens for calls, with the daemon that *)
(* hands out the tokens, other payments on the channel, and claims.        *)
(*                                                                         *)
(* Numbers of calls are uint64 and become int64, amounts are big integers  *)
(* that a request carries as uint64; Half is 2^63 and 2 * Half 2^64.  How  *)
(* a channel gets its funds is in EnsureChannel, which strategy a client   *)
(* uses in StrategySelect.  The daemon and the chain are external.         *)
(***************************************************************************)
EXTENDS Integers, FiniteSets

CONSTANTS Threads,     \* clients of the payer, in one process or in several
          Half,        \* half the numbers of an unsigned integer
          Counts,      \* numbers of calls that are asked for
          Price,       \* priceInCogs
          StartSigned, \* amount the daemon holds at first
          StartValue,  \* tokens the channel was opened with: the amount of its ChannelOpen event
          MaxBuilds,   \* bound: strategies built
          MaxFaults,   \* bound: requests that fail, and replies that are lost
          MaxOthers,   \* bound: payments of paid strategies on the channel
          MaxClaims    \* bound: claims of the provider

ASSUME PrepaidAssumption ==
    /\ Half \in Nat \ {0} /\ Price \in Nat
    /\ Counts \subseteq 0..(2 * Half - 1)
    /\ StartSigned \in Nat /\ StartValue \in Nat /\ StartSigned <= StartValue
    /\ {MaxBuilds, MaxFaults, MaxOthers, MaxClaims} \subseteq Nat

VARIABLES channel,   \* has the payer a channel?
          strategy,  \* the strategy each client has installed
          work,      \* what each client is doing
          net,       \* requests for a token on their way to the daemon
          dNonce,    \* daemon: nonce of the channel
          dSigned,   \* daemon: amount authorised at this nonce
          used,      \* daemon: how much of it has been used for calls
          value,     \* tokens in the channel
          claimed,   \* tokens the provider has taken
          allowed,   \* what the payer has agreed to: the price of all calls asked for
          builds, faults, others   \* so far

clientVars == <<strategy, work>>
daemonVars == <<dNonce, dSigned, used>>
countVars  == <<allowed, builds, faults, others>>
vars == <<channel, clientVars, net, daemonVars, value, claimed, countVars>>

\* nonce and signedAmount of a PrepaidStrategy, the nonce its token was issued
\* for or -1, the count it was made with, and whether the daemon gave the same
\* answer before and after the channel was ensured.
NoStrategy == [nonce |-> -1, signedAmount |-> 0, token |-> -1, count |-> 0, steady |-> FALSE]
Strategy == [nonce : Nat \cup {-1}, signedAmount : Int, token : Nat \cup {-1},
             count : Nat, steady : BOOLEAN]

\* A TokenRequest: its nonce, the amount its claim signature is computed from
\* and the amount it carries.  A client has one attempt under way at a time, so
\* the failures so far tell its attempts apart.
Request == [from : Threads, attempt : Nat, nonce : Nat, amount : Nat, told : Nat]

Step == {"idle", "found", "ensured", "refresh", "waiting"}
\* The count asked for, the daemon's first answer, the attempt to get a token.
Idle == [step |-> "idle", count |-> 0, nonce |-> 0, first |-> 0, attempt |-> 0]
Work == [step : Step, count : Nat, nonce : Nat, first : Nat, attempt : Nat]

Init ==
    /\ channel \in BOOLEAN
    /\ strategy = [t \in Threads |-> NoStrategy]
    /\ work = [t \in Threads |-> Idle]
    /\ net = {}
    /\ dNonce = 0 /\ dSigned = StartSigned /\ used = StartSigned
    /\ value = StartValue /\ claimed = 0
    /\ allowed = StartSigned
    /\ builds = 0 /\ faults = 0 /\ others = 0

-----------------------------------------------------------------------------
(* The arithmetic of the code.                                             *)

Abs(x) == IF x < 0 THEN -x ELSE x

\* int64 of a uint64.
Int64(n) == IF n < Half THEN n ELSE n - 2 * Half

\* Wrong variant: the amount is carried as it is.
Uint64AsIs(x) == x

\* Uint64 of a big integer: the low bits of its absolute value.
Uint64(x) == Abs(x) % (2 * Half)

\* NewPrePaidStrategy: what the daemon holds and the price of the calls.
Signed(second, count) == second + Price * Int64(count)

-----------------------------------------------------------------------------
(* NewPrePaidStrategy.                                                     *)

At(t, step)  == work[t].step = step
Become(t, w) == work' = [work EXCEPT ![t] = w]

\* A channel is found and the daemon asked for its state.  (Without a channel
\* the result of FilterChannels is nil, and using it a panic.)
Find(t) ==
    /\ At(t, "idle") /\ channel
    /\ builds < MaxBuilds
    /\ builds' = builds + 1
    /\ \E count \in Counts :
         Become(t, [Idle EXCEPT !.step = "found", !.count = count, !.nonce = dNonce,
                                !.first = dSigned])
    /\ UNCHANGED <<channel, strategy, net, daemonVars, value, claimed, allowed, faults, others>>

\* EnsureChannelValidity: what is missing for an amount, judged by the amount
\* of the ChannelOpen event, which neither claims nor top-ups change.
Missing(amount) == IF StartValue < amount THEN amount - StartValue ELSE 0

\* Wrong variant: the channel is ensured for what is signed already.
EnsureNothing(t) ==
    /\ At(t, "found")
    /\ value' = value + Missing(work[t].first)
    /\ Become(t, [work[t] EXCEPT !.step = "ensured"])
    /\ UNCHANGED <<channel, strategy, net, daemonVars, claimed, countVars>>

\* EnsurePaymentChannel, for the price of one call whatever the count.
Ensure(t) ==
    /\ At(t, "found")
    /\ value' = value + Missing(work[t].first + Price)
    /\ Become(t, [work[t] EXCEPT !.step = "ensured"])
    /\ UNCHANGED <<channel, strategy, net, daemonVars, claimed, countVars>>

\* The daemon is asked again and the strategy installed; Refresh follows.
Build(t) ==
    /\ At(t, "ensured")
    /\ strategy' = [strategy EXCEPT ![t] =
         [nonce |-> dNonce, signedAmount |-> Signed(dSigned, work[t].count), token |-> -1,
          count |-> work[t].count,
          steady |-> work[t].nonce = dNonce /\ work[t].first = dSigned]]
    /\ allowed' = allowed + Price * work[t].count
    /\ Become(t, [Idle EXCEPT !.step = "refresh"])
    /\ UNCHANGED <<channel, net, daemonVars, value, claimed, builds, faults, others>>

-----------------------------------------------------------------------------
(* Refresh and the calls.                                                  *)

\* Refresh by the application.
Renew(t) ==
    /\ At(t, "idle") /\ strategy[t].nonce # -1
    /\ Become(t, [Idle EXCEPT !.step = "refresh"])
    /\ UNCHANGED <<channel, strategy, net, daemonVars, value, claimed, countVars>>

\* Wrong variant: every request is for one call more.
TokenRequestMore(t) ==
    [from |-> t, attempt |-> faults, nonce |-> strategy[t].nonce,
     amount |-> Abs(strategy[t].signedAmount) + Price,
     told |-> (Abs(strategy[t].signedAmount) + Price) % (2 * Half)]

\* The claim is signed over the absolute amount: BigToHash drops its sign.
TokenRequest(t) ==
    [from |-> t, attempt |-> faults, nonce |-> strategy[t].nonce, amount |-> Abs(strategy[t].signedAmount),
     told |-> Uint64(strategy[t].signedAmount)]

GetToken(t) ==
    /\ At(t, "refresh")
    /\ net' = net \cup {TokenRequest(t)}
    /\ Become(t, [Idle EXCEPT !.step = "waiting", !.attempt = faults])
    /\ UNCHANGED <<channel, strategy, daemonVars, value, claimed, countVars>>

\* An error of a read, of a transaction or of the request, or a timeout; the
\* request may still reach the daemon.
Fails(t) ==
    /\ work[t].step # "idle" /\ faults < MaxFaults
    /\ faults' = faults + 1
    /\ Become(t, Idle)
    /\ UNCHANGED <<channel, strategy, net, daemonVars, value, claimed, allowed, builds, others>>

\* The daemon's checks of a request: its nonce, its signature, its amount.
Grants(r) == r.nonce = dNonce /\ r.told = r.amount /\ dSigned <= r.amount /\ r.amount <= value

\* The client that sent the request still waits for its reply.
Awaited(r) == At(r.from, "waiting") /\ work[r.from].attempt = r.attempt

\* Wrong variant: a refusal is taken for a token as well.
TakesTokenAny(r) ==
    strategy' = IF Awaited(r) THEN [strategy EXCEPT ![r.from].token = r.nonce] ELSE strategy

\* p.Token is what the reply holds; a refusal is an error.
TakesToken(r) ==
    strategy' = IF Awaited(r) /\ Grants(r)
                THEN [strategy EXCEPT ![r.from].token = r.nonce] ELSE strategy

Handle(r) ==
    /\ net' = net \ {r}
    /\ dSigned' = IF Grants(r) THEN r.amount ELSE dSigned
    /\ TakesToken(r)
    /\ work' = IF Awaited(r) THEN [work EXCEPT ![r.from] = Idle] ELSE work
    /\ UNCHANGED <<channel, dNonce, used, value, claimed, countVars>>

\* A call with the headers of GRPCMetadata; the daemon serves it on a token
\* for its nonce while what was authorised has not been used.
Call(t) ==
    /\ At(t, "idle") /\ strategy[t].token # -1
    /\ strategy[t].token = dNonce /\ used + Price <= dSigned
    /\ used' = used + Price
    /\ UNCHANGED <<channel, clientVars, net, dNonce, dSigned, value, claimed, countVars>>

-----------------------------------------------------------------------------
(* Everybody else.                                                         *)

OtherOpens ==
    /\ ~channel /\ channel' = TRUE
    /\ UNCHANGED <<clientVars, net, daemonVars, value, claimed, countVars>>

\* A call of a paid strategy on the same channel.
OtherPays ==
    /\ channel /\ others < MaxOthers
    /\ dSigned + Price <= value
    /\ dSigned' = dSigned + Price /\ used' = used + Price
    /\ others' = others + 1 /\ allowed' = allowed + Price
    /\ UNCHANGED <<channel, clientVars, net, dNonce, value, claimed, builds, faults>>

Claim ==
    /\ channel /\ dNonce < MaxClaims
    /\ claimed' = claimed + dSigned
    /\ value' = value - dSigned
    /\ dNonce' = dNonce + 1 /\ dSigned' = 0 /\ used' = 0
    /\ UNCHANGED <<channel, clientVars, net, countVars>>

Next ==
    \/ \E t \in Threads :
         \/ Find(t) \/ Ensure(t) \/ Build(t) \/ Renew(t) \/ GetToken(t) \/ Fails(t) \/ Call(t)
    \/ \E r \in net : Handle(r)
    \/ OtherOpens \/ OtherPays \/ Claim

Spec == Init /\ [][Next]_vars

-----------------------------------------------------------------------------
(* Properties.                                                             *)

\* The state is well-typed.
TypeOK ==
    /\ channel \in BOOLEAN
    /\ strategy \in [Threads -> Strategy]
    /\ work \in [Threads -> Work]
    /\ net \subseteq Request
    /\ {dNonce, dSigned, used, value, claimed, allowed, builds, faults, others} \subseteq Nat

\* What the provider has taken and can still take never exceeds the price of
\* the calls the payer has asked for, whatever is retried, lost, renewed, built
\* anew or overtaken by a claim, and although a count that does not fit an
\* int64 becomes negative and its amount is signed without the sign.
ExposureBounded == claimed + dSigned <= allowed

\* As long as the nonce of a token is the channel's, the daemon holds what was
\* signed for it: a token never stands for an amount that was refused.
TokenBacked ==
    \A t \in Threads :
        strategy[t].token = dNonce /\ strategy[t].nonce = dNonce =>
            Abs(strategy[t].signedAmount) <= dSigned

\* The amount signed for one call is in the channel until the first claim,
\* whatever the other clients sign and top up, unless the daemon's answer changed
\* while the channel was ensured.  (For more calls it need not be:
\* EnsurePaymentChannel is asked for one price.  After a claim neither: the
\* ChannelOpen event tells of tokens the provider has taken.)
OneCallFunded ==
    dNonce = 0 =>
        \A t \in Threads :
            LET s == strategy[t] IN
            s.nonce = 0 /\ s.steady /\ s.count <= 1 /\ s.count < Half =>
                Abs(s.signedAmount) <= value
================================================================================
