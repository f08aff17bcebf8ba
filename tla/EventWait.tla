------------------------------- MODULE EventWait -------------------------------
(***************************************************************************)
(* The goroutines behind one call of EnsurePaymentChannel                  *)
(* (pkg/blockchain/mpe.go).  FilterChannels iterates over the payer's past *)
(* ChannelOpen events, which a goroutine of the bindings puts into a       *)
(* buffered channel.  Then the watch... functions subscribe to contract    *)
(* events, each with a producer that sends events on an unbuffered channel *)
(* and a forwarder that sends the subscription's error on the one          *)
(* unbuffered channel chans.Err; the wait... functions select on their     *)
(* event, on chans.Err and on a timer.                                     *)
(*                                                                         *)
(* EnsureChannel treats all this as two steps, "the channel is found" and  *)
(* "the awaited events are there"; here the iteration and the              *)
(* subscriptions may fail and the goroutines interleave.  The allowance    *)
(* check between the two is in ApproveWait.                                *)
(***************************************************************************)
EXTENDS Naturals, Sequences

CONSTANTS MaxOpened,        \* bound: past ChannelOpen events the node's filter lets through
          Capacity,         \* of the channel they are put into (128 in the bindings)
          SubscribeMayFail, \* may a Watch... call of the bindings fail?
          MaxBreaks,        \* bound: live subscriptions that break
          MaxLogs           \* bound: events the node sends per subscription

ASSUME EventAssumption ==
    /\ {MaxOpened, MaxBreaks, MaxLogs} \subseteq Nat /\ Capacity \in Nat \ {0}
    /\ SubscribeMayFail \in BOOLEAN

Event == {"open", "deposit", "add", "extend"}

\* A plan is a sequence of stages; a stage subscribes to each of its events in
\* turn, sends one transaction and waits for all the events.  OpenNewChannel
\* deposits too if the balance in the escrow does not suffice;
\* EnsureChannelValidity may have nothing to do, and may deposit first.
OpenPlans  == {<<<<"open">>>>, <<<<"open", "deposit">>>>}
TopUpPlans == {<<>>, <<<<"extend">>>>} \cup
              UNION {{<<adding>>, <<<<"deposit">>, adding>>} :
                        adding \in {<<"add">>, <<"add", "extend">>}}

\* A past event is of a channel that the payer signs for, or another signer
\* (which is not indexed), or cannot be unpacked.
Opening == {"own", "delegated", "garbled"}

VARIABLES pc,         \* the goroutine that called EnsurePaymentChannel
          scan,       \* the locals of FilterChannels: see NoScan
          plan,       \* what the call waits for, once it is known
          stage,      \* the stage of the plan it is in
          subscribed, \* its subscriptions, in order; unsubscribed on return
          result,     \* what it will return
          producer,   \* one per subscription, of the bindings
          failure,    \* has the subscription an error nobody has read?
          forwarder,  \* one per subscription, of the watch... functions
          waiter,     \* one per event, of the wait... functions
          ctxDone,    \* is the caller's context over?
          breaks,     \* subscriptions that broke
          logs        \* events the node sent to each subscription

scanVars == <<scan, plan>>
mainVars == <<pc, stage, subscribed, result>>
subVars  == <<producer, failure, forwarder>>
vars == <<scanVars, mainVars, subVars, waiter, ctxDone, breaks, logs>>

Events(k) == {plan[k][i] : i \in 1..Len(plan[k])}

Watched == UNION {Events(k) : k \in 1..Len(plan)}

\* events: the ones the node found, oldest first.  put: how many of them the
\* goroutine has put into the channel.  taken: how many the iterator has taken
\* out.  ended: has the goroutine ended, which closes the subscription's error
\* channel?  done: has the iterator seen that?  filtered: the position of the
\* event that FilterChannels would return, 0 if nil.
NoScan == [events |-> <<>>, put |-> 0, taken |-> 0, ended |-> FALSE, done |-> FALSE,
           filtered |-> 0]

Init ==
    /\ pc = "filter"
    /\ \E n \in 0..MaxOpened : \E events \in [1..n -> Opening] :
           scan = [NoScan EXCEPT !.events = events]
    /\ plan = <<>>
    /\ stage = 1
    /\ subscribed = <<>>
    /\ result = "none"
    /\ producer = [e \in Event |-> "none"]
    /\ failure = [e \in Event |-> FALSE]
    /\ forwarder = [e \in Event |-> "none"]
    /\ waiter = [e \in Event |-> "none"]
    /\ ctxDone = FALSE
    /\ breaks = 0
    /\ logs = [e \in Event |-> 0]

-----------------------------------------------------------------------------
(* FilterChannels and what follows from it.                                *)

rest == <<stage, subscribed, subVars, waiter, ctxDone, breaks, logs>>

\* The goroutine of FilterLogs: it ends when all events are in the channel.
PutLog ==
    /\ pc = "filter"
    /\ scan.put < Len(scan.events) /\ scan.put < scan.taken + Capacity
    /\ scan' = [scan EXCEPT !.put = @ + 1]
    /\ UNCHANGED <<pc, result, plan, rest>>

EndLogs ==
    /\ pc = "filter"
    /\ scan.put = Len(scan.events) /\ ~scan.ended
    /\ scan' = [scan EXCEPT !.ended = TRUE]
    /\ UNCHANGED <<pc, result, plan, rest>>

Fails == pc' = "returned" /\ result' = "error" /\ scan' = NoScan

\* Next with an event, whether or not it has seen the end: FilterChannels
\* keeps the event if it matches.  It is an error if it cannot be unpacked.
NextLog ==
    /\ pc = "filter" /\ scan.taken < scan.put
    /\ LET k == scan.taken + 1 IN
       IF scan.events[k] = "garbled" THEN Fails
       ELSE /\ scan' = [scan EXCEPT !.taken = k,
                            !.filtered = IF scan.events[k] = "own" THEN k ELSE @]
            /\ UNCHANGED <<pc, result>>
    /\ UNCHANGED <<plan, rest>>

\* Next's select takes the closed error channel instead, with or without
\* events left in the other one.
SeeEnd ==
    /\ pc = "filter" /\ scan.ended /\ ~scan.done
    /\ scan' = [scan EXCEPT !.done = TRUE]
    /\ UNCHANGED <<pc, result, plan, rest>>

\* Wrong variant: the end of the subscription is taken for the end of the events.
ExhaustedAtEnd == scan.done

\* Next returns false and there is no error.
Exhausted == scan.done /\ scan.taken = scan.put

\* EnsurePaymentChannel opens a channel only if none was found.
Decide ==
    /\ pc = "filter" /\ Exhausted
    /\ plan' \in IF scan.filtered = 0 THEN OpenPlans ELSE TopUpPlans
    /\ IF plan' = <<>> THEN pc' = "unsubscribe" /\ result' = "ok"
                       ELSE pc' = "subscribe" /\ UNCHANGED result
    /\ scan' = NoScan
    /\ UNCHANGED rest

\* The query fails, or afterwards the allowance or the balance is not obtained.
FilterFails ==
    /\ pc = "filter"
    /\ scan.put = 0 \/ Exhausted
    /\ Fails
    /\ UNCHANGED <<plan, rest>>

-----------------------------------------------------------------------------
(* The caller.                                                             *)

Running(e) == producer[e] \in {"reading", "delivering"}

\* The first event of the stage that is not subscribed to yet.
Missing == {i \in 1..Len(plan[stage]) : producer[plan[stage][i]] = "none"}
NextIndex == CHOOSE i \in Missing : \A j \in Missing : i <= j

Subscribe ==
    /\ pc = "subscribe"
    /\ LET e == plan[stage][NextIndex]
       IN  /\ producer' = [producer EXCEPT ![e] = "reading"]
           /\ forwarder' = [forwarder EXCEPT ![e] = "listening"]
           /\ subscribed' = Append(subscribed, e)
    /\ pc' = IF NextIndex = Len(plan[stage]) THEN "submit" ELSE "subscribe"
    /\ UNCHANGED <<scanVars, stage, result, failure, waiter, ctxDone, breaks, logs>>

\* The error is sent on chans.Err before the function returns it.
SubscribeFails ==
    /\ pc = "subscribe"
    /\ SubscribeMayFail
    /\ pc' = "report"
    /\ UNCHANGED <<scanVars, stage, subscribed, result, subVars, waiter, ctxDone, breaks, logs>>

\* The transaction is out; the waiters start.
Submit ==
    /\ pc = "submit"
    /\ pc' = "wait"
    /\ waiter' = [e \in Event |-> IF e \in Events(stage) THEN "waiting" ELSE waiter[e]]
    /\ UNCHANGED <<scanVars, stage, subscribed, result, subVars, ctxDone, breaks, logs>>

\* Wrong variant: returns without the deferred Unsubscribe.
SubmitFailsAtOnce ==
    /\ pc = "submit"
    /\ pc' = "returned"
    /\ result' = "error"
    /\ UNCHANGED <<scanVars, stage, subscribed, subVars, waiter, ctxDone, breaks, logs>>

SubmitFails ==
    /\ pc = "submit"
    /\ pc' = "unsubscribe"
    /\ result' = "error"
    /\ UNCHANGED <<scanVars, stage, subscribed, subVars, waiter, ctxDone, breaks, logs>>

\* Wrong variant: an error counts only if every waiter has one.
WaitersAllErred == \A e \in Events(stage) : waiter[e] = "error"

WaitersErred == \E e \in Events(stage) : waiter[e] = "error"

\* wg.Wait returns, and the errors are looked at.
WaitersDone ==
    /\ pc = "wait"
    /\ \A e \in Events(stage) : waiter[e] # "waiting"
    /\ \/ /\ WaitersErred
          /\ pc' = "unsubscribe"
          /\ result' = "error"
          /\ stage' = stage
       \/ /\ ~WaitersErred
          /\ stage < Len(plan)
          /\ pc' = "subscribe"
          /\ stage' = stage + 1
          /\ result' = result
       \/ /\ ~WaitersErred
          /\ stage = Len(plan)
          /\ pc' = "unsubscribe"
          /\ result' = "ok"
          /\ stage' = stage
    /\ UNCHANGED <<scanVars, subscribed, subVars, waiter, ctxDone, breaks, logs>>

Latest == subscribed[Len(subscribed)]

\* Wrong variant: a producer that is sending is not told to quit.
UnsubscribeReading ==
    /\ pc = "unsubscribe"
    /\ subscribed # <<>>
    /\ producer' = [producer EXCEPT ![Latest] = IF @ = "reading" THEN "quitting" ELSE @]
    /\ pc' = "drain"
    /\ UNCHANGED <<scanVars, stage, subscribed, result, failure, forwarder, waiter, ctxDone, breaks, logs>>

\* A deferred Unsubscribe: tell the producer to quit and wait until it has.
Unsubscribe ==
    /\ pc = "unsubscribe"
    /\ subscribed # <<>>
    /\ producer' = [producer EXCEPT ![Latest] = IF Running(Latest) THEN "quitting" ELSE @]
    /\ pc' = "drain"
    /\ UNCHANGED <<scanVars, stage, subscribed, result, failure, forwarder, waiter, ctxDone, breaks, logs>>

Unsubscribed ==
    /\ pc = "drain"
    /\ producer[Latest] = "ended"
    /\ subscribed' = SubSeq(subscribed, 1, Len(subscribed) - 1)
    /\ pc' = "unsubscribe"
    /\ UNCHANGED <<scanVars, stage, result, subVars, waiter, ctxDone, breaks, logs>>

Return ==
    /\ pc = "unsubscribe"
    /\ subscribed = <<>>
    /\ pc' = "returned"
    /\ UNCHANGED <<scanVars, stage, subscribed, result, subVars, waiter, ctxDone, breaks, logs>>

-----------------------------------------------------------------------------
(* Producers and forwarders. *)

\* A log arrives, of this call's transaction or of another's.
LogArrives(e) ==
    /\ producer[e] = "reading"
    /\ logs[e] < MaxLogs
    /\ producer' = [producer EXCEPT ![e] = "delivering"]
    /\ logs' = [logs EXCEPT ![e] = @ + 1]
    /\ UNCHANGED <<scanVars, mainVars, failure, forwarder, waiter, ctxDone, breaks>>

\* The unbuffered send meets the waiter's select.
Deliver(e) ==
    /\ producer[e] = "delivering"
    /\ waiter[e] = "waiting"
    /\ producer' = [producer EXCEPT ![e] = "reading"]
    /\ waiter' = [waiter EXCEPT ![e] = "event"]
    /\ UNCHANGED <<scanVars, mainVars, failure, forwarder, ctxDone, breaks, logs>>

\* The connection to the node is lost, or a log cannot be parsed.
Break(e) ==
    /\ Running(e)
    /\ breaks < MaxBreaks
    /\ breaks' = breaks + 1
    /\ producer' = [producer EXCEPT ![e] = "ended"]
    /\ failure' = [failure EXCEPT ![e] = TRUE]
    /\ UNCHANGED <<scanVars, mainVars, forwarder, waiter, ctxDone, logs>>

Quit(e) ==
    /\ producer[e] = "quitting"
    /\ producer' = [producer EXCEPT ![e] = "ended"]
    /\ UNCHANGED <<scanVars, mainVars, failure, forwarder, waiter, ctxDone, breaks, logs>>

\* The forwarder's select: an error, the closed error channel, or the context.
Forward(e) ==
    /\ forwarder[e] = "listening"
    /\ \/ /\ failure[e]
          /\ failure' = [failure EXCEPT ![e] = FALSE]
          /\ forwarder' = [forwarder EXCEPT ![e] = "sending"]
       \/ /\ ctxDone \/ (producer[e] = "ended" /\ ~failure[e])
          /\ failure' = failure
          /\ forwarder' = [forwarder EXCEPT ![e] = "done"]
    /\ UNCHANGED <<scanVars, mainVars, producer, waiter, ctxDone, breaks, logs>>

-----------------------------------------------------------------------------
(* Waiters.  chans.Err is shared: any waiter may receive any sender's error. *)

Sending(s) == IF s = "caller" THEN pc = "report" ELSE forwarder[s] = "sending"

\* The sender goes on: a forwarder ends, the caller returns its error.
TakeError(w, s) ==
    /\ waiter[w] = "waiting"
    /\ Sending(s)
    /\ waiter' = [waiter EXCEPT ![w] = "error"]
    /\ forwarder' = [e \in Event |-> IF e = s THEN "done" ELSE forwarder[e]]
    /\ pc' = IF s = "caller" THEN "unsubscribe" ELSE pc
    /\ result' = IF s = "caller" THEN "error" ELSE result
    /\ UNCHANGED <<scanVars, stage, subscribed, producer, failure, ctxDone, breaks, logs>>

\* The minute of paymentChannelTimeout, or the caller's context, is over.
TimesOut(w) ==
    /\ waiter[w] = "waiting"
    /\ waiter' = [waiter EXCEPT ![w] = "error"]
    /\ UNCHANGED <<scanVars, mainVars, subVars, ctxDone, breaks, logs>>

\* The caller's context expires, at the latest when the strategy is returned.
ContextDone ==
    /\ ~ctxDone
    /\ ctxDone' = TRUE
    /\ UNCHANGED <<scanVars, mainVars, subVars, waiter, breaks, logs>>

-----------------------------------------------------------------------------
Main == \/ Subscribe \/ SubscribeFails \/ Submit \/ SubmitFails \/ WaitersDone
        \/ Unsubscribe \/ Unsubscribed \/ Return

Receive(w) == \/ TimesOut(w)
              \/ Deliver(w)
              \/ \E s \in Watched \cup {"caller"} : TakeError(w, s)

Scan == PutLog \/ EndLogs \/ NextLog \/ SeeEnd \/ Decide

Next ==
    \/ Scan \/ FilterFails \/ Main
    \/ \E e \in Watched : LogArrives(e) \/ Break(e) \/ Quit(e) \/ Forward(e) \/ Receive(e)
    \/ ContextDone

Spec == Init /\ [][Next]_vars

\* Goroutines run, timers fire, and the caller's context ends.  Whether a
\* transaction is mined, or an event ever arrives, is left open.
FairSpec ==
    /\ Spec
    /\ WF_vars(Scan) /\ WF_vars(Main) /\ WF_vars(ContextDone)
    /\ \A e \in Event : WF_vars(Quit(e)) /\ WF_vars(Forward(e)) /\ WF_vars(Receive(e))

-----------------------------------------------------------------------------
(* Properties. *)

\* The channel an attempt goes on with is the payer's latest, and it opens one
\* only if he has none: whichever of the two channels the iterator's select
\* happens to read, no event that was still in the buffer is passed over, and
\* none that cannot be read is taken for absent.
FindsLatest ==
    [][pc = "filter" /\ pc' \in {"subscribe", "unsubscribe"} =>
          LET own == {k \in DOMAIN scan.events : scan.events[k] = "own"}
          IN  /\ "garbled" \notin {scan.events[k] : k \in DOMAIN scan.events}
              /\ \A k \in own : k <= scan.filtered
              /\ plan' \in OpenPlans <=> own = {}]_vars

\* A channel is returned only after every event of the plan was received,
\* whoever took whose error from the shared channel.
SuccessMeansEvents == result = "ok" => \A e \in Watched : waiter[e] = "event"

\* When the call has returned, no producer runs and no event is being waited
\* for, on any path of return.
NothingLeftSubscribed ==
    pc = "returned" => \A e \in Watched : ~Running(e) /\ waiter[e] # "waiting"

\* Unless a subscription cannot be made at all, the call returns: even if no
\* event ever comes, subscriptions break, and producers or forwarders are left
\* in the middle of a send.
ReturnsOnceSubscribed == <>(pc \in {"returned", "report"})
================================================================================
