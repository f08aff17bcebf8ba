----------------------------- MODULE ChannelPromise -----------------------------
(***************************************************************************)
(* What the SDK promises a caller who wants to pay for calls: "Guarantees  *)
(* there is a valid channel (sufficient funds and expiration) for the      *)
(* payer" (EnsurePaymentChannel in pkg/blockchain/mpe.go).  A caller asks, *)
(* and is given a channel or sent away; nothing is said of queries,        *)
(* transactions, events or timers.  EnsureChannel implements it.           *)
(***************************************************************************)
EXTENDS Naturals

CONSTANTS Clients,    \* the callers
          Channels,   \* identifiers of channels
          Prices,     \* prices that may be asked for
          Thresholds, \* distances to the expiration that may be asked for
          Grace       \* blocks within which a request is answered

VARIABLES caller, \* what each caller has asked for or was given
          purse,  \* tokens the payer can still dispose of
          funds,  \* tokens locked in each channel
          until,  \* expiration block of each channel
          claims, \* claims the provider has started on each channel
          block   \* current block

vars == <<caller, purse, funds, until, claims, block>>

Nobody == [has |-> "nothing", price |-> 0, threshold |-> 0, since |-> 0,
           channel |-> 0, from |-> 0]

Asked(p, t) == [has |-> "asked", price |-> p, threshold |-> t, since |-> block,
                channel |-> 0, from |-> 0]

\* Request r, answered with channel i to be signed on from amount n.
Given(r, i, n) == [has |-> "channel", price |-> r.price, threshold |-> r.threshold,
                   since |-> r.since, channel |-> i, from |-> n]

Init ==
    /\ caller = [c \in Clients |-> Nobody]
    /\ purse \in Nat
    /\ funds = [i \in Channels |-> 0]
    /\ until = [i \in Channels |-> 0]
    /\ claims = [i \in Channels |-> 0]
    /\ block = 0

Ask(c) ==
    /\ caller[c].has = "nothing"
    /\ \E p \in Prices, t \in Thresholds :
          caller' = [caller EXCEPT ![c] = Asked(p, t)]
    /\ UNCHANGED <<purse, funds, until, claims, block>>

\* Signing from `from` on, one more call is covered, unless the provider took
\* tokens out meanwhile; and the channel lasts at any block of the request.
Valid(r) ==
    /\ claims[r.channel] = 0 => funds[r.channel] >= r.from + r.price
    /\ until[r.channel] > r.since + Grace + r.threshold

\* The caller gets a valid channel for what it asked, and no other.
Give(c) ==
    /\ caller[c].has = "asked"
    /\ caller'[c].channel \in Channels
    /\ caller' = [caller EXCEPT ![c] =
                     Given(caller[c], caller'[c].channel, caller'[c].from)]
    /\ Valid(caller'[c])
    /\ UNCHANGED <<purse, funds, until, claims, block>>

\* An error, or the caller has no more use for the channel.
Leave(c) ==
    /\ caller[c].has # "nothing"
    /\ caller' = [caller EXCEPT ![c] = Nobody]
    /\ UNCHANGED <<purse, funds, until, claims, block>>

\* Tokens move from the payer into one channel, whose end may be put off.
Fund(i) ==
    /\ purse' \in 0..purse
    /\ funds' = [funds EXCEPT ![i] = @ + (purse - purse')]
    /\ until'[i] >= until[i]
    /\ until' = [until EXCEPT ![i] = until'[i]]
    /\ UNCHANGED <<caller, claims, block>>

StartClaim(i) ==
    /\ claims' = [claims EXCEPT ![i] = @ + 1]
    /\ UNCHANGED <<caller, purse, funds, until, block>>

\* Only a claim takes tokens out of a channel.
Claim(i) ==
    /\ claims[i] > 0
    /\ funds'[i] \in 0..funds[i]
    /\ funds' = [funds EXCEPT ![i] = funds'[i]]
    /\ UNCHANGED <<caller, purse, until, claims, block>>

Pass ==
    /\ block' = block + 1
    /\ UNCHANGED <<caller, purse, funds, until, claims>>

Next ==
    \/ \E c \in Clients : Ask(c) \/ Give(c) \/ Leave(c)
    \/ \E i \in Channels : Fund(i) \/ StartClaim(i) \/ Claim(i)
    \/ Pass

Spec == Init /\ [][Next]_vars
================================================================================
