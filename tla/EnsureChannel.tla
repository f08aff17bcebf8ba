----------------------------- MODULE EnsureChannel -----------------------------
(***************************************************************************)
(* How a client of the SDK obtains a payment channel: NewPaidStrategy in   *)
(* pkg/payment/paid_stategy.go up to its return, with the whole of         *)
(* EnsurePaymentChannel, OpenNewChannel and EnsureChannelValidity of       *)
(* pkg/blockchain/mpe.go.                                                  *)
(*                                                                         *)
(* Several attempts run at once, all for the same payer account, recipient *)
(* and group (several processes with one key, or several service clients   *)
(* of one process).  Every read of an attempt is pinned to the block it    *)
(* started at; its transactions are mined later, in any interleaving with  *)
(* the other attempts, with the provider's claims and with time.           *)
(***************************************************************************)
EXTENDS MPELedger, FiniteSets

CONSTANTS Clients,      \* concurrent users of the payer account
          Prices,       \* prices the service metadata may announce
          Thresholds,   \* expiration thresholds the organization may announce
          Offset,       \* GetNewExpiration's safety margin (240 in the code)
          MaxDelay,     \* blocks from the start of an attempt to its mining
          Patience,     \* blocks an attempt may last before its timers fire
          MaxPending,   \* bound: no attempt starts with a longer mempool
          MaxAbandoned, \* bound: no attempt starts after more abandoned ones
          MaxClaims     \* bound: claims of the provider per channel

ASSUME EnsureAssumption ==
    /\ IsFiniteSet(Clients)
    /\ Prices \subseteq Nat \ {0}
    /\ Thresholds \subseteq Nat
    /\ {Offset, MaxDelay, Patience, MaxPending, MaxAbandoned, MaxClaims} \subseteq Nat
    /\ Patience <= MaxDelay
    /\ MaxDelay + Patience < Offset

VARIABLES attempt,    \* local state of each client's current attempt
          abandoned,  \* attempts given up while they waited for the chain
          dSigned,    \* daemon: last amount accepted at the current nonce
          dNonce,     \* daemon: current nonce of each channel
          inClaim     \* daemon: amount of the claim that is not yet on chain

daemonVars == <<dSigned, dNonce, inClaim>>
vars == <<chainVars, attempt, abandoned, daemonVars>>

PC == {"idle", "query", "ensure", "waitDeposit", "topUp", "wait", "stuck", "ready"}

Attempt ==
    [pc        : PC,
     start     : Nat,                  \* currentBlockNumber
     price     : Prices \cup {0},      \* priceInCogs
     threshold : Thresholds \cup {0},  \* PaymentExpirationThreshold
     seen      : ChanId \cup {0},      \* channel FilterChannels finds (0: none)
     escrow    : Nat,                  \* MPE balance at the pinned block
     filtered  : ChanId \cup {0},      \* filteredChannel of NewPaidStrategy
     signed    : Nat,                  \* currentSignedAmount
     nonce     : Nat,                  \* currentNonce
     await     : SUBSET Event,         \* events the waiters wait for
     got       : SUBSET Event,         \* events delivered since subscribing
     id        : ChanId \cup {0}]      \* channel id the attempt settles on

NoAttempt ==
    [pc |-> "idle", start |-> 0, price |-> 0, threshold |-> 0, seen |-> 0,
     escrow |-> 0, filtered |-> 0, signed |-> 0, nonce |-> 0,
     await |-> {}, got |-> {}, id |-> 0]

Init ==
    /\ LedgerInit
    /\ attempt = [c \in Clients |-> NoAttempt]
    /\ abandoned = 0
    /\ dSigned = [i \in ChanId |-> 0]
    /\ dNonce = [i \in ChanId |-> 0]
    /\ inClaim = [i \in ChanId |-> 0]

InFlight(c) == attempt[c].pc \notin {"idle", "stuck", "ready"}

\* Wrong variant: no safety margin.
NewExpirationExact(block, threshold) == block + threshold

GetNewExpiration(block, threshold) == block + threshold + Offset

NewExpiration(c) == GetNewExpiration(attempt[c].start, attempt[c].threshold)

Become(c, a) == attempt' = [attempt EXCEPT ![c] = a]

-----------------------------------------------------------------------------
(* The steps of one attempt. *)

\* CurrentBlock, NetworkID, BuildBindOpts and FilterChannels.  The filter and
\* every later contract read end at this block, so what they will return is
\* already determined here.
Begin(c) ==
    /\ attempt[c].pc = "idle"
    /\ Len(mempool) < MaxPending
    /\ abandoned <= MaxAbandoned
    /\ \E p \in Prices, t \in Thresholds :
          Become(c, [NoAttempt EXCEPT
                       !.pc = IF opened = 0 THEN "ensure" ELSE "query",
                       !.start = height, !.price = p, !.threshold = t,
                       !.seen = opened, !.filtered = opened,
                       !.escrow = escrow])
    /\ UNCHANGED <<chainVars, abandoned, daemonVars>>

\* Wrong variant: the strategy starts with the next call already counted.
DaemonRepliesCounted(c) ==
    /\ attempt[c].pc = "query"
    /\ Become(c, [attempt[c] EXCEPT !.pc = "ensure",
                     !.signed = dSigned[attempt[c].seen] + attempt[c].price,
                     !.nonce = dNonce[attempt[c].seen]])
    /\ UNCHANGED <<chainVars, abandoned, daemonVars>>

\* The daemon answers ChannelState.  An absent amount leaves the zero that
\* currentSignedAmount starts with.
DaemonReplies(c) ==
    /\ attempt[c].pc = "query"
    /\ Become(c, [attempt[c] EXCEPT !.pc = "ensure",
                     !.signed = dSigned[attempt[c].seen],
                     !.nonce = dNonce[attempt[c].seen]])
    /\ UNCHANGED <<chainVars, abandoned, daemonVars>>

\* "channel is not found": filteredChannel is dropped, amount and nonce stay 0.
DaemonNotFound(c) ==
    /\ attempt[c].pc = "query"
    /\ Become(c, [attempt[c] EXCEPT !.pc = "ensure", !.filtered = 0])
    /\ UNCHANGED <<chainVars, abandoned, daemonVars>>

\* Any error before a transaction is out but a failing subscription: RPC, daemon,
\* allowance, estimation.
Fail(c) ==
    /\ attempt[c].pc \in {"query", "ensure", "topUp"}
    /\ Become(c, NoAttempt)
    /\ UNCHANGED <<chainVars, abandoned, daemonVars>>

\* Wrong variant: the caller's filteredChannel is believed.
FilterOnce(c) == attempt[c].filtered

\* EnsurePaymentChannel filters again, at the same pinned block: what the
\* attempt works on is `seen`, whatever became of `filtered`.
FilterChannels(c) == attempt[c].seen

\* OpenNewChannel: subscribe, submit, wait for the open event, and for the
\* deposit event too when the pinned MPE balance does not cover the price.
OpenNewChannel(c) ==
    /\ attempt[c].pc = "ensure"
    /\ FilterChannels(c) = 0
    /\ LET direct == attempt[c].escrow >= attempt[c].price
       IN  /\ Submit([kind |-> IF direct THEN "open" ELSE "depositOpen",
                      id |-> 0, amount |-> attempt[c].price,
                      exp |-> NewExpiration(c), born |-> attempt[c].start])
           /\ Become(c, [attempt[c] EXCEPT !.pc = "wait",
                !.await = IF direct THEN {"open"} ELSE {"open", "deposit"}])
    /\ UNCHANGED <<ledgerVars, height, abandoned, daemonVars>>

\* Wrong variant: the price of the next call is forgotten.
NeedFundsUnpriced(c) == openEvent[attempt[c].seen].amount < attempt[c].signed

\* EnsureChannelValidity reads the channel's funds and expiration from its
\* ChannelOpen event.
NeedFunds(c) ==
    openEvent[attempt[c].seen].amount < attempt[c].signed + attempt[c].price

NeedExtend(c) == openEvent[attempt[c].seen].expiration <= NewExpiration(c)

\* Wrong variant: computed also when nothing is missing.
TopUpUnguarded(c) ==
    (attempt[c].signed + attempt[c].price) - openEvent[attempt[c].seen].amount

TopUpAmount(c) ==
    IF NeedFunds(c)
    THEN (attempt[c].signed + attempt[c].price) - openEvent[attempt[c].seen].amount
    ELSE 0

NeedDeposit(c) == NeedFunds(c) /\ attempt[c].escrow < TopUpAmount(c)

Reuse(c) ==
    /\ attempt[c].pc = "ensure"
    /\ FilterChannels(c) # 0
    /\ ~NeedFunds(c) /\ ~NeedExtend(c)
    /\ Become(c, [attempt[c] EXCEPT !.pc = "ready", !.id = attempt[c].seen,
                     !.escrow = 0])
    /\ UNCHANGED <<chainVars, abandoned, daemonVars>>

DepositMissing(c) ==
    /\ attempt[c].pc = "ensure"
    /\ FilterChannels(c) # 0
    /\ NeedDeposit(c)
    /\ Submit([kind |-> "deposit", id |-> 0, amount |-> TopUpAmount(c),
               exp |-> NewExpiration(c), born |-> attempt[c].start])
    /\ Become(c, [attempt[c] EXCEPT !.pc = "waitDeposit", !.await = {"deposit"}])
    /\ UNCHANGED <<ledgerVars, height, abandoned, daemonVars>>

\* Wrong variant: the price is read from the metadata again.
DepositSeenRepriced(c) ==
    /\ attempt[c].pc = "waitDeposit"
    /\ attempt[c].await \subseteq attempt[c].got
    /\ \E p \in Prices :
          Become(c, [attempt[c] EXCEPT !.pc = "topUp", !.await = {}, !.got = {}, !.price = p])
    /\ UNCHANGED <<chainVars, abandoned, daemonVars>>

DepositSeen(c) ==
    /\ attempt[c].pc = "waitDeposit"
    /\ attempt[c].await \subseteq attempt[c].got
    /\ Become(c, [attempt[c] EXCEPT !.pc = "topUp", !.await = {}, !.got = {}])
    /\ UNCHANGED <<chainVars, abandoned, daemonVars>>

\* The switch of EnsureChannelValidity: add funds, extend, or both.
AdjustChannel(c) ==
    /\ \/ /\ attempt[c].pc = "ensure"
          /\ FilterChannels(c) # 0
          /\ NeedFunds(c) \/ NeedExtend(c)
          /\ ~NeedDeposit(c)
       \/ attempt[c].pc = "topUp"
    /\ Submit([kind |-> IF NeedFunds(c) /\ NeedExtend(c) THEN "extendAdd"
                        ELSE IF NeedFunds(c) THEN "add" ELSE "extend",
               id |-> attempt[c].seen, amount |-> TopUpAmount(c),
               exp |-> NewExpiration(c), born |-> attempt[c].start])
    /\ Become(c, [attempt[c] EXCEPT !.pc = "wait",
                     !.await = (IF NeedFunds(c) THEN {"add"} ELSE {})
                               \cup (IF NeedExtend(c) THEN {"extend"} ELSE {}),
                     !.id = attempt[c].seen])
    /\ UNCHANGED <<ledgerVars, height, abandoned, daemonVars>>

\* A watch... function whose subscription is refused sends the error on chans.Err,
\* which is unbuffered and read by nobody before the waiters start: the attempt
\* never goes on, whatever its context says (EventWait has the goroutines).  Its
\* locals are not read again.
SubscribeFails(c) ==
    /\ \/ /\ attempt[c].pc = "ensure"
          /\ FilterChannels(c) # 0 => NeedFunds(c) \/ NeedExtend(c)
       \/ attempt[c].pc = "topUp"
    /\ Become(c, [NoAttempt EXCEPT !.pc = "stuck", !.start = attempt[c].start,
                     !.price = attempt[c].price, !.threshold = attempt[c].threshold])
    /\ UNCHANGED <<chainVars, abandoned, daemonVars>>

\* All the waiters have their event: the strategy is returned.
Finish(c) ==
    /\ attempt[c].pc = "wait"
    /\ attempt[c].await \subseteq attempt[c].got
    /\ Become(c, [attempt[c] EXCEPT !.pc = "ready", !.escrow = 0,
                     !.await = {}, !.got = {}])
    /\ UNCHANGED <<chainVars, abandoned, daemonVars>>

\* Wrong variant: waitDeposit has no timer.
AbandonLate(c) ==
    /\ attempt[c].pc = "wait"
    /\ Become(c, NoAttempt)
    /\ abandoned' = abandoned + 1
    /\ UNCHANGED <<chainVars, daemonVars>>

\* A waiter's minute or the caller's context is over, the submission's answer
\* is lost, or the process dies: the transaction stays in the mempool.
Abandon(c) ==
    /\ attempt[c].pc \in {"waitDeposit", "wait"}
    /\ Become(c, NoAttempt)
    /\ abandoned' = abandoned + 1
    /\ UNCHANGED <<chainVars, daemonVars>>

\* The application drops the strategy, or its process ends or leaves the stuck
\* goroutine behind; a later attempt starts from nothing.
Discard(c) ==
    /\ attempt[c].pc \in {"stuck", "ready"}
    /\ Become(c, NoAttempt)
    /\ UNCHANGED <<chainVars, abandoned, daemonVars>>

-----------------------------------------------------------------------------
(* The chain, the daemon and the provider. *)

\* Which events of a mined transaction reach a subscription: open and deposit
\* watchers filter on the sender (and recipient, group), which all attempts
\* share; add and extend watchers on the channel id.
Reaches(c, tx) ==
    {e \in EmittedBy(tx) \cap attempt[c].await :
        e \in {"add", "extend"} => tx.id = attempt[c].seen}

Delivered(c, tx) ==
    [attempt[c] EXCEPT
        !.got = @ \cup Reaches(c, tx),
        !.id  = IF "open" \in Reaches(c, tx) \ attempt[c].got
                THEN opened + 1 ELSE @]

Mine ==
    /\ mempool # <<>>
    /\ mempool' = Tail(mempool)
    /\ LET tx == Head(mempool)
       IN  \/ /\ Accepted(tx)
              /\ Apply(tx)
              /\ attempt' = [c \in Clients |-> Delivered(c, tx)]
           \/ /\ ~Accepted(tx)
              /\ UNCHANGED <<ledgerVars, attempt>>
    /\ UNCHANGED <<height, abandoned, daemonVars>>

\* Time passes, but no attempt outlives its timers and no transaction is left
\* unmined for longer than MaxDelay.
Tick ==
    /\ height < MaxHeight
    /\ \A c \in Clients : InFlight(c) => height < attempt[c].start + Patience
    /\ \A i \in 1..Len(mempool) : height < mempool[i].born + MaxDelay
    /\ height' = height + 1
    /\ UNCHANGED <<ledgerVars, mempool, attempt, abandoned, daemonVars>>

\* The daemon accepts the next payment a strategy signs on its channel.
Serve(c) ==
    /\ attempt[c].pc = "ready"
    /\ LET i == attempt[c].id
       IN  /\ dSigned[i] + attempt[c].price + inClaim[i] <= value[i]
           /\ dSigned' = [dSigned EXCEPT ![i] = @ + attempt[c].price]
    /\ UNCHANGED <<chainVars, attempt, abandoned, dNonce, inClaim>>

\* Withdrawal: the daemon moves to the next nonce before the chain does.
StartClaim(i) ==
    /\ inClaim[i] = 0
    /\ dSigned[i] > 0
    /\ dNonce[i] < MaxClaims
    /\ inClaim' = [inClaim EXCEPT ![i] = dSigned[i]]
    /\ dSigned' = [dSigned EXCEPT ![i] = 0]
    /\ dNonce' = [dNonce EXCEPT ![i] = @ + 1]
    /\ UNCHANGED <<chainVars, attempt, abandoned>>

FinishClaim(i) ==
    /\ inClaim[i] > 0
    /\ value' = [value EXCEPT ![i] = @ - inClaim[i]]
    /\ nonce' = [nonce EXCEPT ![i] = @ + 1]
    /\ inClaim' = [inClaim EXCEPT ![i] = 0]
    /\ UNCHANGED <<wallet, escrow, opened, expiration, openEvent, mempool,
                   height, attempt, abandoned, dSigned, dNonce>>

-----------------------------------------------------------------------------
ClientStep(c) ==
    \/ DaemonReplies(c) \/ DaemonNotFound(c) \/ OpenNewChannel(c) \/ Reuse(c)
    \/ DepositMissing(c) \/ DepositSeen(c) \/ AdjustChannel(c)
    \/ Finish(c) \/ Abandon(c)

Next ==
    \/ \E c \in Clients :
          Begin(c) \/ ClientStep(c) \/ Fail(c) \/ SubscribeFails(c) \/ Discard(c) \/ Serve(c)
    \/ \E i \in ChanId : StartClaim(i) \/ FinishClaim(i)
    \/ Mine
    \/ Tick

Spec == Init /\ [][Next]_vars

\* A goroutine that can run does run, and a timer that is due fires.
FairSpec == Spec /\ \A c \in Clients : WF_vars(ClientStep(c))

-----------------------------------------------------------------------------
(* Properties. *)

\* Every variable has its type.
TypeOK ==
    /\ LedgerTypeOK
    /\ attempt \in [Clients -> Attempt]
    /\ abandoned \in Nat
    /\ dSigned \in [ChanId -> Nat]
    /\ dNonce \in [ChanId -> Nat]
    /\ inClaim \in [ChanId -> Nat]

Ready(c) == attempt[c].pc = "ready"

\* The provider never started a claim on channel i.
Unclaimed(i) == dNonce[i] = 0

\* "Guarantees there is a valid channel (sufficient funds ...)" (mpe.go:428),
\* as far as it is true: on a channel from which the provider has not
\* withdrawn, a returned strategy finds at least one call's price above the
\* amount it starts signing from, although the amount added was computed from
\* the ChannelOpen event and the event waited for may be another attempt's.
\* With two prices at once it fails: the event taken may be the cheaper one's.
EnsuredFunds ==
    \A c \in Clients :
        Ready(c) /\ Unclaimed(attempt[c].id) =>
            value[attempt[c].id] >= attempt[c].signed + attempt[c].price

\* "... and expiration": the daemon wants more than `threshold` blocks left.
\* The 240 blocks of GetNewExpiration absorb both the length of an attempt and
\* an extension that was asked for by an older one, so the returned channel is
\* still far enough from its end at the latest block the attempt can end at.
EnsuredExpiration ==
    \A c \in Clients :
        Ready(c) => expiration[attempt[c].id] >
                        attempt[c].start + Patience + attempt[c].threshold

\* A payer opens at most one channel per concurrent client, and one more for
\* every attempt given up while its transaction was out: each attempt that
\* starts after the first channel is on chain finds it.
ChannelsBounded == opened <= Cardinality(Clients) + abandoned

\* A strategy never starts on an amount or nonce ahead of what the daemon holds:
\* either the provider has moved to a later nonce, or at the same nonce the
\* daemon's amount is at least the one the strategy starts from.
StartsBehindDaemon ==
    \A c \in Clients :
        Ready(c) =>
            \/ attempt[c].nonce < dNonce[attempt[c].id]
            \/ /\ attempt[c].nonce = dNonce[attempt[c].id]
               /\ attempt[c].signed <= dSigned[attempt[c].id]

\* Every attempt comes to an end of three: a strategy, an error, or a subscription
\* that was refused, at which it blocks for good.  In particular it does so when its
\* transaction is mined without effect and no event ever comes.
AttemptsEnd ==
    \A c \in Clients : InFlight(c) ~> attempt[c].pc \in {"idle", "stuck", "ready"}

\* What the callers see of their attempts: see ChannelPromise.
Askers ==
    [c \in Clients |->
        LET a == attempt[c]
        IN  [has |-> IF a.pc = "idle" THEN "nothing" ELSE IF Ready(c) THEN "channel" ELSE "asked",
             price |-> a.price, threshold |-> a.threshold, since |-> a.start,
             channel |-> IF Ready(c) THEN a.id ELSE 0,
             from |-> IF Ready(c) THEN a.signed ELSE 0]]

Promise == INSTANCE ChannelPromise
    WITH Channels <- ChanId, Grace <- Patience,
         caller <- Askers, purse <- wallet + escrow,
         funds <- value, until <- expiration, claims <- dNonce, block <- height

\* The code keeps the promise step by step: a caller is given a valid channel for
\* the request it made and keeps it, tokens never leave the payer but into one
\* channel of his, nothing shortens a channel's life, and only claims empty it.
KeepsPromise == Promise!Spec
================================================================================
