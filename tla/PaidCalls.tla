------------------------------- MODULE PaidCalls -------------------------------
(***************************************************************************)
(* The life of one PaidStrategy after its construction                     *)
(* (pkg/payment/paid_stategy.go): GRPCMetadata, Refresh and                *)
(* NextSignedAmount, called by several goroutines that share a             *)
(* ServiceClient (pkg/sdk/service.go) or its training client               *)
(* (pkg/training/training.go), with the daemon that receives the payments. *)
(*                                                                         *)
(* No method takes a lock.  The fields signedAmount and nonce hold         *)
(* pointers to numbers that are replaced and never updated in place, so a  *)
(* field is read or written in one step and anything may happen between    *)
(* two steps.  The daemon is not in the repository; what it does with a    *)
(* payment beyond the comments of state_service.proto is a constant.       *)
(***************************************************************************)
EXTENDS Naturals, FiniteSets

CONSTANTS Threads,     \* goroutines that share the strategy
          Ops,         \* what they do: see Operation
          Price,       \* priceInCogs
          StartSigned, \* amount the daemon held when the strategy was built
          Funds,       \* tokens in the channel
          LargerToo,   \* does the daemon accept more than one more price?
          MaxSteps,    \* bound: increments of signedAmount
          MaxLost,     \* bound: requests and refreshes that fail or time out
          MaxOthers,   \* bound: payments of other clients with the same key
          MaxClaims    \* bound: claims of the provider

\* CallWithMap/JSON/Proto; Refresh by the application; UploadAndValidate, which
\* refreshes and then pays; NextSignedAmount.
Operation == {"call", "refresh", "upload", "next"}

ASSUME PaidAssumption ==
    /\ Ops \subseteq Operation
    /\ Price \in Nat \ {0}
    /\ {StartSigned, Funds, MaxSteps, MaxLost, MaxOthers, MaxClaims} \subseteq Nat
    /\ StartSigned <= Funds
    /\ LargerToo \in BOOLEAN

VARIABLES signedAmount, \* p.signedAmount
          nonce,        \* p.nonce
          thread,       \* what each goroutine is doing
          net,          \* payments on their way to the daemon
          dSigned,      \* daemon: last amount accepted at the current nonce
          dNonce,       \* daemon: current nonce of the channel
          value,        \* tokens left in the channel
          steps,        \* increments of signedAmount begun
          served,       \* payments of this strategy the daemon accepted
          others,       \* payments of other clients the daemon accepted
          lost,         \* requests and refreshes that failed or timed out
          kept          \* uploads that pay on from an amount a Refresh did not replace

strategyVars == <<signedAmount, nonce>>
daemonVars   == <<dSigned, dNonce, value>>
vars == <<strategyVars, thread, net, daemonVars, steps, served, others, lost, kept>>

PC == {"idle", "asked", "answered", "refreshed", "metadata", "add", "nonce", "amount",
       "signNonce", "signAmount", "waiting"}

\* The payment headers: nonce and amount, and the nonce and amount the
\* signature is computed from.  step tells one payment from another.
Payment == [step : Nat, nonce : Nat, amount : Nat, signedNonce : Nat, signedAmount : Nat]

NoPayment == [step |-> 0, nonce |-> 0, amount |-> 0, signedNonce |-> 0, signedAmount |-> 0]

Thread == [pc      : PC,
           op      : Operation \cup {"none"},
           base    : Nat,       \* the amount an increment starts from
           payment : Payment,   \* the headers built so far
           answer  : [nonce : Nat, amount : Nat]]  \* the daemon's ChannelStateReply

Idle == [pc |-> "idle", op |-> "none", base |-> 0, payment |-> NoPayment,
         answer |-> [nonce |-> 0, amount |-> 0]]

Init ==
    /\ signedAmount = StartSigned
    /\ nonce = 0
    /\ thread = [t \in Threads |-> Idle]
    /\ net = {}
    /\ dSigned = StartSigned
    /\ dNonce = 0
    /\ value = Funds
    /\ steps = 0
    /\ served = 0
    /\ others = 0
    /\ lost = 0
    /\ kept = 0

At(t, pc) == thread[t].pc = pc

Become(t, r) == thread' = [thread EXCEPT ![t] = r]

-----------------------------------------------------------------------------
(* Refresh. *)

BeginRefresh(t) ==
    /\ At(t, "idle")
    /\ steps < MaxSteps
    /\ \E op \in Ops \cap {"refresh", "upload"} :
          Become(t, [Idle EXCEPT !.pc = "asked", !.op = op])
    /\ UNCHANGED <<strategyVars, net, daemonVars, steps, served, others, lost, kept>>

\* GetChannelState: the reply tells what the daemon holds at this moment.
Answer(t) ==
    /\ At(t, "asked")
    /\ Become(t, [thread[t] EXCEPT !.pc = "answered",
                     !.answer = [nonce |-> dNonce, amount |-> dSigned]])
    /\ UNCHANGED <<strategyVars, net, daemonVars, steps, served, others, lost, kept>>

\* The block number or the channel state cannot be had: Refresh returns the
\* error and so does UploadAndValidate.
RefreshFails(t) ==
    /\ At(t, "asked")
    /\ lost < MaxLost
    /\ lost' = lost + 1
    /\ Become(t, Idle)
    /\ UNCHANGED <<strategyVars, net, daemonVars, steps, served, others, kept>>

\* Wrong variant: the answer is added to the field.
AppliedTwice(answer, field) == answer + field

\* Zero is encoded as no bytes, and an answer without bytes is not applied.
Applied(answer, field) == IF answer # 0 THEN answer ELSE field

\* Wrong variant: the next nonce is anticipated.
ApplyNextNonce(t) ==
    /\ At(t, "answered")
    /\ nonce' = thread[t].answer.nonce + 1
    /\ Become(t, [thread[t] EXCEPT !.pc = "refreshed"])
    /\ UNCHANGED <<signedAmount, net, daemonVars, steps, served, others, lost, kept>>

ApplyNonce(t) ==
    /\ At(t, "answered")
    /\ nonce' = Applied(thread[t].answer.nonce, nonce)
    /\ Become(t, [thread[t] EXCEPT !.pc = "refreshed"])
    /\ UNCHANGED <<signedAmount, net, daemonVars, steps, served, others, lost, kept>>

\* Wrong variant: only the nonce of the answer is used.
ApplyNoAmount(t) ==
    /\ At(t, "refreshed")
    /\ Become(t, IF thread[t].op = "upload" THEN [thread[t] EXCEPT !.pc = "metadata"]
                                            ELSE Idle)
    /\ UNCHANGED <<strategyVars, net, daemonVars, steps, served, others, lost, kept>>

\* Does the daemon's zero leave the field ahead of it?
Keeps(t) == thread[t].op = "upload" /\ thread[t].answer.amount = 0 /\ signedAmount # 0

ApplyAmount(t) ==
    /\ At(t, "refreshed")
    /\ signedAmount' = Applied(thread[t].answer.amount, signedAmount)
    /\ kept' = IF Keeps(t) THEN kept + 1 ELSE kept
    /\ Become(t, IF thread[t].op = "upload" THEN [thread[t] EXCEPT !.pc = "metadata"]
                                            ELSE Idle)
    /\ UNCHANGED <<nonce, net, daemonVars, steps, served, others, lost>>

-----------------------------------------------------------------------------
(* GRPCMetadata and NextSignedAmount. *)

\* The read of p.signedAmount in the increment.
ReadSigned(t) ==
    /\ steps < MaxSteps
    /\ steps' = steps + 1
    /\ \/ /\ At(t, "metadata")
          /\ Become(t, [thread[t] EXCEPT !.pc = "add", !.base = signedAmount,
                           !.payment.step = steps + 1])
       \/ /\ At(t, "idle")
          /\ \E op \in Ops \cap {"call", "next"} :
                Become(t, [Idle EXCEPT !.pc = "add", !.op = op, !.base = signedAmount,
                              !.payment.step = steps + 1])
    /\ UNCHANGED <<strategyVars, net, daemonVars, served, others, lost, kept>>

\* Wrong variant: Sub in the place of Add.
Decremented(base) == base - Price

Incremented(base) == base + Price

WriteSigned(t) ==
    /\ At(t, "add")
    /\ signedAmount' = Incremented(thread[t].base)
    /\ Become(t, IF thread[t].op = "next" THEN Idle ELSE [thread[t] EXCEPT !.pc = "nonce"])
    /\ UNCHANGED <<nonce, net, daemonVars, steps, served, others, lost, kept>>

\* The arguments of metadata.Pairs, from left to right; signMessage is the last.
ReadNonce(t) ==
    /\ At(t, "nonce")
    /\ Become(t, [thread[t] EXCEPT !.pc = "amount", !.payment.nonce = nonce])
    /\ UNCHANGED <<strategyVars, net, daemonVars, steps, served, others, lost, kept>>

ReadAmount(t) ==
    /\ At(t, "amount")
    /\ Become(t, [thread[t] EXCEPT !.pc = "signNonce", !.payment.amount = signedAmount])
    /\ UNCHANGED <<strategyVars, net, daemonVars, steps, served, others, lost, kept>>

SignNonce(t) ==
    /\ At(t, "signNonce")
    /\ Become(t, [thread[t] EXCEPT !.pc = "signAmount", !.payment.signedNonce = nonce])
    /\ UNCHANGED <<strategyVars, net, daemonVars, steps, served, others, lost, kept>>

\* The signature is complete, and the request is sent.
SignAmount(t) ==
    /\ At(t, "signAmount")
    /\ LET p == [thread[t].payment EXCEPT !.signedAmount = signedAmount]
       IN  /\ net' = net \cup {p}
           /\ Become(t, [thread[t] EXCEPT !.pc = "waiting", !.payment = p])
    /\ UNCHANGED <<strategyVars, daemonVars, steps, served, others, lost, kept>>

\* The request fails before the daemon sees it: unknown method, bad parameters,
\* an unreadable upload, no connection.  The increment stays.
NotDelivered(t) ==
    /\ At(t, "waiting")
    /\ thread[t].payment \in net
    /\ lost < MaxLost
    /\ lost' = lost + 1
    /\ net' = net \ {thread[t].payment}
    /\ Become(t, Idle)
    /\ UNCHANGED <<strategyVars, daemonVars, steps, served, others, kept>>

\* The call's timeout is over; the request may still arrive.
TimesOut(t) ==
    /\ At(t, "waiting")
    /\ lost < MaxLost
    /\ lost' = lost + 1
    /\ Become(t, Idle)
    /\ UNCHANGED <<strategyVars, net, daemonVars, steps, served, others, kept>>

-----------------------------------------------------------------------------
(* The daemon. *)

Matches(p) == p.nonce = p.signedNonce /\ p.amount = p.signedAmount

\* The amount is cumulative: it must pay for one more call, out of what is left.
MayAccept(p) ==
    /\ Matches(p)
    /\ p.nonce = dNonce
    /\ \/ p.amount = dSigned + Price
       \/ LargerToo /\ p.amount > dSigned + Price
    /\ p.amount <= value

\* The goroutine that waits for the outcome of payment p gets it.
Outcome(p) ==
    thread' = [t \in Threads |->
                  IF At(t, "waiting") /\ thread[t].payment = p THEN Idle ELSE thread[t]]

Accept(p) ==
    /\ p \in net
    /\ MayAccept(p)
    /\ dSigned' = p.amount
    /\ served' = served + 1
    /\ net' = net \ {p}
    /\ Outcome(p)
    /\ UNCHANGED <<strategyVars, dNonce, value, steps, others, lost, kept>>

Reject(p) ==
    /\ p \in net
    /\ ~MayAccept(p)
    /\ net' = net \ {p}
    /\ Outcome(p)
    /\ UNCHANGED <<strategyVars, daemonVars, steps, served, others, lost, kept>>

\* Another client of the same payer pays on the same channel.
OtherPays ==
    /\ others < MaxOthers
    /\ dSigned + Price <= value
    /\ dSigned' = dSigned + Price
    /\ others' = others + 1
    /\ UNCHANGED <<strategyVars, thread, net, dNonce, value, steps, served, lost, kept>>

\* The provider withdraws what it holds and moves to the next nonce, at which
\* nothing is signed yet.
Claim ==
    /\ dNonce < MaxClaims
    /\ dSigned > 0
    /\ value' = value - dSigned
    /\ dSigned' = 0
    /\ dNonce' = dNonce + 1
    /\ UNCHANGED <<strategyVars, thread, net, steps, served, others, lost, kept>>

-----------------------------------------------------------------------------
ThreadStep(t) ==
    \/ BeginRefresh(t) \/ ApplyNonce(t) \/ ApplyAmount(t)
    \/ ReadSigned(t) \/ WriteSigned(t) \/ ReadNonce(t) \/ ReadAmount(t)
    \/ SignNonce(t) \/ SignAmount(t)

DaemonStep ==
    \/ \E t \in Threads : Answer(t)
    \/ \E p \in net : Accept(p) \/ Reject(p)

Next ==
    \/ \E t \in Threads :
          ThreadStep(t) \/ RefreshFails(t) \/ NotDelivered(t) \/ TimesOut(t)
    \/ DaemonStep
    \/ OtherPays
    \/ Claim

Spec == Init /\ [][Next]_vars

\* Goroutines run, the daemon answers, and the application keeps calling.
FairSpec == Spec /\ WF_vars(DaemonStep) /\ \A t \in Threads : WF_vars(ThreadStep(t))

-----------------------------------------------------------------------------
(* Properties. *)

\* Every variable has its type.
TypeOK ==
    /\ signedAmount \in Nat
    /\ nonce \in Nat
    /\ thread \in [Threads -> Thread]
    /\ net \subseteq Payment
    /\ dSigned \in Nat
    /\ dNonce \in Nat
    /\ value \in Nat
    /\ steps \in Nat
    /\ served \in Nat
    /\ others \in Nat
    /\ lost \in Nat
    /\ kept \in Nat

\* What the payer can owe at most: one price for every increment this strategy
\* began and for every payment of another client.
Exposure == StartSigned + Price * (steps + others)

\* What the provider has taken and can still take.
Taken == (Funds - value) + dSigned

\* However calls, refreshes, claims and late requests interleave, no signature
\* promises more than one price per call begun by anybody: neither an increment
\* lost in a race nor a stale answer written back by Refresh ever adds up to more.
\* That is true of each nonce.  Of all nonces together it is not, because Refresh
\* keeps an amount when the provider has claimed and the daemon's is zero, so that
\* it is paid again at the next nonce: the total is bounded once per nonce.
ExposureBounded ==
    /\ signedAmount <= Exposure
    /\ dSigned <= Exposure
    /\ \A p \in net : p.signedAmount <= Exposure
    /\ Taken <= (dNonce + 1) * Exposure

\* No payment is good for a nonce the daemon has not reached, so none can be
\* claimed after the provider thought everything was claimed.
NonceNotAhead ==
    /\ nonce <= dNonce
    /\ \A p \in net : p.nonce <= dNonce /\ p.signedNonce <= dNonce

\* Refreshing before each payment, as UploadAndValidate does, makes up for lost
\* requests and for other clients: only as many payments fail as were lost, were
\* overtaken by another client, by a claim or by a late request of their own
\* strategy, or pay on from an amount that their own Refresh kept because the
\* daemon's was zero.  The last may be every further upload, until another client
\* pays; after the others the strategy gets through again.
UploadsGetThrough == <>(served + lost + others + dNonce + kept >= MaxSteps)

-----------------------------------------------------------------------------
(* What comments of the code say, and the code does not do. *)

\* "Strategy instances are safe for concurrent use" (payment/doc.go:166): the
\* payments of two calls never carry the same amount, and a payment's signature
\* is for the amount and nonce of its headers.
SafeForConcurrentUse ==
    /\ \A p \in net : Matches(p)
    /\ \A p, q \in net : p # q => <<p.nonce, p.amount>> # <<q.nonce, q.amount>>
================================================================================
