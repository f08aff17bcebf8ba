------------------------------ MODULE ApproveWait ------------------------------
(***************************************************************************)
(* ensureAllowance and WaitForTransaction of pkg/blockchain/mpe.go: each   *)
(* attempt to get a channel first makes sure that the escrow contract may  *)
(* pull the payer's tokens, and waits for the approval it sends by polling *)
(* for the receipt with exponential backoff.                               *)
(*                                                                         *)
(* Time is in seconds.  Requests to the node take no time; a goroutine     *)
(* that is due runs before the clock moves on.  EnsureChannel starts where *)
(* this ends: it has an approval for everything it pulls.                  *)
(*                                                                         *)
(* The names EventWait has too (Init, Next, ...) begin with Approve here:  *)
(* WaitProofs extends both.                                                *)
(***************************************************************************)
EXTENDS Naturals, FiniteSets

CONSTANTS Clients,     \* attempts running at once, for one payer account
          MaxBackoffs, \* values of maxBackoff (0: unbounded; 30 in the code)
          Deadlines,   \* seconds until the caller's context ends
          MaxUint,     \* the largest amount, maxUint256 in the code
          Pull,        \* tokens an attempt pulls once it has its approval
          Decrements,  \* does the token count an unlimited approval down?
          MaxTime,     \* bound: last second of the model
          MaxFailures  \* bound: requests to the node that fail

ASSUME ApproveAssumption ==
    /\ IsFiniteSet(Clients)
    /\ MaxBackoffs \subseteq Nat
    /\ Deadlines \subseteq Nat
    /\ {MaxUint, Pull, MaxTime, MaxFailures} \subseteq Nat
    /\ Decrements \in BOOLEAN
    /\ Cardinality(Clients) * Pull <= MaxUint

VARIABLES now,       \* seconds since the start
          allowance, \* what the contract may pull, on chain
          wait,      \* local state of each attempt
          failures   \* requests that failed

approveVars == <<now, allowance, wait, failures>>

PC == {"idle", "check", "approve", "poll", "sleep", "ok", "pulled", "error", "timeout"}

Wait == [pc         : PC,
         maxBackoff : MaxBackoffs \cup {0},
         deadline   : Nat,  \* the second at which ctx is done
         seen       : Nat,  \* allowance at the pinned block
         tx         : {"none", "pending", "mined", "reverted"},
         minedAt    : Nat,
         backoff    : Nat,
         wake       : Nat]  \* the second at which time.After fires

Idle == [pc |-> "idle", maxBackoff |-> 0, deadline |-> 0, seen |-> 0, tx |-> "none",
         minedAt |-> 0, backoff |-> 0, wake |-> 0]

ApproveInit ==
    /\ now = 0
    /\ allowance = 0
    /\ wait = [c \in Clients |-> Idle]
    /\ failures = 0

At(c, pc) == wait[c].pc = pc

Become(c, w) == wait' = [wait EXCEPT ![c] = w]

Done(c) == now >= wait[c].deadline

-----------------------------------------------------------------------------
(* ensureAllowance. *)

\* The attempt pins its reads to the current block.  (None begins whose
\* deadline lies beyond the model's last second.)
Begin(c) ==
    /\ At(c, "idle")
    /\ \E m \in MaxBackoffs, d \in Deadlines :
       /\ now + d <= MaxTime
       /\ Become(c, [Idle EXCEPT !.pc = "check", !.maxBackoff = m,
                        !.deadline = now + d, !.seen = allowance])
    /\ UNCHANGED <<now, allowance, failures>>

\* EnsurePaymentChannel needs the largest amount there is.
Sufficient(amount) == amount >= MaxUint

CheckAllowance(c) ==
    /\ At(c, "check")
    /\ Become(c, [wait[c] EXCEPT !.pc = IF Sufficient(wait[c].seen) THEN "ok" ELSE "approve"])
    /\ UNCHANGED <<now, allowance, failures>>

Approve(c) ==
    /\ At(c, "approve")
    /\ Become(c, [wait[c] EXCEPT !.pc = "poll", !.tx = "pending", !.backoff = 1])
    /\ UNCHANGED <<now, allowance, failures>>

\* Reading the allowance or sending the approval fails.
RequestFails(c) ==
    /\ wait[c].pc \in {"check", "approve"}
    /\ \/ Done(c) /\ failures' = failures
       \/ failures < MaxFailures /\ failures' = failures + 1
    /\ Become(c, [wait[c] EXCEPT !.pc = "error"])
    /\ UNCHANGED <<now, allowance>>

-----------------------------------------------------------------------------
(* WaitForTransaction. *)

\* Wrong variant: the status of the receipt is not looked at.
ReceiptAny(c) ==
    /\ At(c, "poll")
    /\ wait[c].tx \in {"mined", "reverted"}
    /\ Become(c, [wait[c] EXCEPT !.pc = "ok"])
    /\ UNCHANGED <<now, allowance, failures>>

Receipt(c) ==
    /\ At(c, "poll")
    /\ wait[c].tx \in {"mined", "reverted"}
    /\ Become(c, [wait[c] EXCEPT !.pc = IF wait[c].tx = "mined" THEN "ok" ELSE "error"])
    /\ UNCHANGED <<now, allowance, failures>>

\* Wrong variant: sleeps for the next backoff already.
NotFoundLonger(c) ==
    /\ At(c, "poll")
    /\ wait[c].tx = "pending"
    /\ Become(c, [wait[c] EXCEPT !.pc = "sleep", !.wake = now + 2 * wait[c].backoff])
    /\ UNCHANGED <<now, allowance, failures>>

NotFound(c) ==
    /\ At(c, "poll")
    /\ wait[c].tx = "pending"
    /\ Become(c, [wait[c] EXCEPT !.pc = "sleep", !.wake = now + wait[c].backoff])
    /\ UNCHANGED <<now, allowance, failures>>

\* Wrong variant: the maximum is not looked at.
NextBackoffUncapped(backoff, maxBackoff) == 2 * backoff

\* The backoff after this one.
NextBackoff(backoff, maxBackoff) ==
    IF maxBackoff = 0 \/ backoff < maxBackoff THEN 2 * backoff ELSE backoff

Wake(c) ==
    /\ At(c, "sleep")
    /\ now >= wait[c].wake
    /\ Become(c, [wait[c] EXCEPT !.pc = "poll",
                     !.backoff = NextBackoff(@, wait[c].maxBackoff)])
    /\ UNCHANGED <<now, allowance, failures>>

\* Wrong variant: the sleep does not select on ctx.Done.
ContextEndsPolling(c) ==
    /\ At(c, "poll")
    /\ Done(c)
    /\ Become(c, [wait[c] EXCEPT !.pc = "timeout"])
    /\ UNCHANGED <<now, allowance, failures>>

\* ctx.Done fires in the select, or the request for the receipt reports it.
ContextEnds(c) ==
    /\ wait[c].pc \in {"sleep", "poll"}
    /\ Done(c)
    /\ Become(c, [wait[c] EXCEPT !.pc = "timeout"])
    /\ UNCHANGED <<now, allowance, failures>>

\* Any other answer of the node ends the wait; the approval stays on its way.
PollFails(c) ==
    /\ At(c, "poll")
    /\ failures < MaxFailures
    /\ failures' = failures + 1
    /\ Become(c, [wait[c] EXCEPT !.pc = "error"])
    /\ UNCHANGED <<now, allowance>>

-----------------------------------------------------------------------------
(* The chain, and time. *)

Mine(c) ==
    /\ wait[c].tx = "pending"
    /\ \/ /\ Become(c, [wait[c] EXCEPT !.tx = "mined", !.minedAt = now])
          /\ allowance' = MaxUint
       \/ /\ Become(c, [wait[c] EXCEPT !.tx = "reverted", !.minedAt = now])
          /\ allowance' = allowance
    /\ UNCHANGED <<now, failures>>

\* The attempt's deposit or depositAndOpenChannel pulls its tokens.
PullTokens(c) ==
    /\ At(c, "ok")
    /\ Pull <= allowance
    /\ allowance' = IF Decrements THEN allowance - Pull ELSE allowance
    /\ Become(c, [wait[c] EXCEPT !.pc = "pulled"])
    /\ UNCHANGED <<now, failures>>

\* A later attempt of the same client starts over; an approval it did not wait
\* for is mined or dropped by then.
Again(c) ==
    /\ wait[c].pc \in {"error", "timeout"}
    /\ wait[c].tx # "pending"
    /\ Become(c, Idle)
    /\ UNCHANGED <<now, allowance, failures>>

Due(c) ==
    \/ wait[c].pc \in {"check", "approve", "poll"}
    \/ At(c, "sleep") /\ (Done(c) \/ now >= wait[c].wake)

Tick ==
    /\ now < MaxTime
    /\ \A c \in Clients : ~Due(c)
    /\ now' = now + 1
    /\ UNCHANGED <<allowance, wait, failures>>

-----------------------------------------------------------------------------
Run(c) ==
    \/ CheckAllowance(c) \/ Approve(c) \/ RequestFails(c)
    \/ Receipt(c) \/ NotFound(c) \/ Wake(c) \/ ContextEnds(c) \/ PollFails(c)

ApproveNext ==
    \/ \E c \in Clients : Begin(c) \/ Run(c) \/ Mine(c) \/ PullTokens(c) \/ Again(c)
    \/ Tick

ApproveSpec == ApproveInit /\ [][ApproveNext]_approveVars

\* Goroutines run and the clock advances, however often attempts fail and start
\* over in the same second; nothing makes the chain mine.
FairApproveSpec == ApproveSpec /\ SF_approveVars(Tick)
                               /\ \A c \in Clients : WF_approveVars(Run(c))

-----------------------------------------------------------------------------
(* Properties. *)

\* Every variable has its type, and the backoff stays in its range.  "If
\* maxBackoff is non-zero, backoff will not exceed it" (mpe.go:356) does not
\* hold; what does hold is that it stays below twice the maximum.
TypeOK ==
    /\ now \in Nat
    /\ allowance \in 0..MaxUint
    /\ wait \in [Clients -> Wait]
    /\ \A c \in Clients :
          wait[c].maxBackoff > 0 => wait[c].backoff < 2 * wait[c].maxBackoff
    /\ failures \in Nat

\* Whoever was told that the contract may pull is right about it at the moment
\* it pulls, although the allowance it read is that of an older block and other
\* attempts may have used some of it in the meantime.
AllowanceSuffices == \A c \in Clients : At(c, "ok") => allowance >= Pull

\* A wait gives up on a mined approval only if it was mined during the last
\* sleep, so a context longer than the approval's way into the chain by that
\* sleep is always long enough.
MissedOnlyAtTheEnd ==
    \A c \in Clients :
        At(c, "timeout") /\ wait[c].tx = "mined" /\ wait[c].minedAt < wait[c].deadline =>
            wait[c].deadline <= wait[c].minedAt + wait[c].backoff

\* Every wait ends by its deadline whatever the chain does.
WaitEnds ==
    \A c \in Clients :
        At(c, "check") ~> wait[c].pc \in {"ok", "pulled", "error", "timeout"}
================================================================================
