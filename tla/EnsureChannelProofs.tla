-------------------------- MODULE EnsureChannelProofs --------------------------
(***************************************************************************)
(* Proofs about EnsureChannel, for any number of clients, channels,        *)
(* blocks, tokens and claims.                                              *)
(***************************************************************************)
EXTENDS EnsureChannel, FiniteSetTheorems, TLAPS

-----------------------------------------------------------------------------
(* The inductive invariant behind everything else. *)

\* What the program counter of an attempt says about its other fields.
AttemptShape(a) ==
    /\ a.seen \in 0..opened
    /\ a.pc \in {"query", "waitDeposit", "topUp"} => a.seen # 0
    /\ a.pc = "waitDeposit" => a.await = {"deposit"}
    /\ a.pc = "wait" =>
         \/ a.seen = 0 /\ "open" \in a.await /\ a.await \subseteq {"open", "deposit"}
         \/ a.seen # 0 /\ a.id = a.seen /\ a.await \subseteq {"add", "extend"}
    /\ a.pc \notin {"wait", "waitDeposit"} => a.await = {}
    /\ a.got \subseteq a.await
    /\ "open" \in a.got => a.id \in 1..opened
    /\ a.pc = "ready" => a.id \in 1..opened

\* A transaction on a channel names a channel that exists.
MempoolShape ==
    \A k \in 1..Len(mempool) : Opens(mempool[k]) \/ mempool[k].kind = "deposit"
                               \/ mempool[k].id \in 1..opened

\* The daemon holds no more than the channel does.
DaemonCovered ==
    \A i \in ChanId : /\ dSigned[i] + inClaim[i] <= value[i]
                      /\ dNonce[i] = 0 => inClaim[i] = 0

Shape == /\ \A c \in Clients : AttemptShape(attempt[c])
         /\ MempoolShape
         /\ DaemonCovered

IInv == TypeOK /\ Shape

LEMMA ConstantTypes ==
    /\ \A p \in Prices \cup {0} : p \in Nat
    /\ \A p \in Prices : p \in Nat /\ p > 0
    /\ \A t \in Thresholds \cup {0} : t \in Nat
    /\ Offset \in Nat /\ MaxDelay \in Nat /\ Patience \in Nat
    /\ MaxChannels \in Nat /\ MaxChannels > 0
  BY EnsureAssumption, LedgerAssumption

LEMMA InitIInv == Init => IInv
  BY LedgerAssumption DEF Init, LedgerInit, IInv, TypeOK, LedgerTypeOK, Shape, AttemptShape,
     MempoolShape, DaemonCovered, NoAttempt, Attempt, PC, ChanId

\* A step of one client that submits nothing.
LEMMA LocalStep ==
    ASSUME IInv, NEW c \in Clients, NEW a \in Attempt, AttemptShape(a),
           Become(c, a), UNCHANGED <<chainVars, daemonVars>>, abandoned' \in Nat
    PROVE  IInv'
  BY DEF IInv, TypeOK, LedgerTypeOK, Shape, AttemptShape, MempoolShape, DaemonCovered, Become,
         chainVars, ledgerVars, daemonVars, ChanId

LEMMA NoAttemptType == NoAttempt \in Attempt
  BY DEF NoAttempt, Attempt, PC

LEMMA NoAttemptShape == ASSUME IInv PROVE AttemptShape(NoAttempt)
  BY DEF NoAttempt, AttemptShape, IInv, TypeOK, LedgerTypeOK

LEMMA StepBegin == ASSUME IInv, NEW c \in Clients, Begin(c) PROVE IInv'
  <1>1. PICK p \in Prices, t \in Thresholds :
          Become(c, [NoAttempt EXCEPT
                       !.pc = IF opened = 0 THEN "ensure" ELSE "query",
                       !.start = height, !.price = p, !.threshold = t,
                       !.seen = opened, !.filtered = opened, !.escrow = escrow])
    BY DEF Begin
  <1> DEFINE a == [NoAttempt EXCEPT
                       !.pc = IF opened = 0 THEN "ensure" ELSE "query",
                       !.start = height, !.price = p, !.threshold = t,
                       !.seen = opened, !.filtered = opened, !.escrow = escrow]
  <1>2. a \in Attempt
    <2>1. opened \in ChanId \cup {0} /\ height \in Nat /\ escrow \in Nat
      BY LedgerAssumption DEF IInv, TypeOK, LedgerTypeOK, ChanId
    <2>2. (IF opened = 0 THEN "ensure" ELSE "query") \in PC
      BY DEF PC
    <2>3. QED
      BY <2>1, <2>2, NoAttemptType DEF Attempt
  <1>3. AttemptShape(a)
    BY DEF NoAttempt, AttemptShape, IInv, TypeOK, LedgerTypeOK
  <1>4. Become(c, a) /\ UNCHANGED <<chainVars, daemonVars>> /\ abandoned' \in Nat
    BY <1>1 DEF Begin, IInv, TypeOK
  <1> HIDE DEF a
  <1>5. QED
    BY <1>2, <1>3, <1>4, LocalStep

\* Steps that fill in fields of the running attempt, or drop it.
LEMMA StepDaemonReplies == ASSUME IInv, NEW c \in Clients, DaemonReplies(c) PROVE IInv'
  <1> DEFINE a == [attempt[c] EXCEPT !.pc = "ensure",
                     !.signed = dSigned[attempt[c].seen],
                     !.nonce = dNonce[attempt[c].seen]]
  <1>1. attempt[c] \in Attempt /\ AttemptShape(attempt[c])
    BY DEF IInv, TypeOK, Shape
  <1>2. attempt[c].seen \in ChanId
    BY <1>1 DEF DaemonReplies, AttemptShape, Attempt
  <1>3. dSigned[attempt[c].seen] \in Nat /\ dNonce[attempt[c].seen] \in Nat
    BY <1>2 DEF IInv, TypeOK
  <1>4. a \in Attempt
    BY <1>1, <1>3 DEF Attempt, PC
  <1>5. AttemptShape(a)
    BY <1>1 DEF DaemonReplies, AttemptShape, Attempt
  <1>6. Become(c, a) /\ UNCHANGED <<chainVars, daemonVars>> /\ abandoned' \in Nat
    BY DEF DaemonReplies, IInv, TypeOK
  <1> HIDE DEF a
  <1>7. QED
    BY <1>4, <1>5, <1>6, LocalStep

LEMMA StepDaemonNotFound == ASSUME IInv, NEW c \in Clients, DaemonNotFound(c) PROVE IInv'
  <1> DEFINE a == [attempt[c] EXCEPT !.pc = "ensure", !.filtered = 0]
  <1>1. attempt[c] \in Attempt /\ AttemptShape(attempt[c])
    BY DEF IInv, TypeOK, Shape
  <1>2. a \in Attempt
    BY <1>1 DEF Attempt, PC
  <1>3. AttemptShape(a)
    BY <1>1 DEF DaemonNotFound, AttemptShape, Attempt
  <1>4. Become(c, a) /\ UNCHANGED <<chainVars, daemonVars>> /\ abandoned' \in Nat
    BY DEF DaemonNotFound, IInv, TypeOK
  <1> HIDE DEF a
  <1>5. QED
    BY <1>2, <1>3, <1>4, LocalStep

LEMMA StepDrop ==
    ASSUME IInv, NEW c \in Clients, Fail(c) \/ Abandon(c) \/ Discard(c)
    PROVE  IInv'
  <1>1. Become(c, NoAttempt) /\ UNCHANGED <<chainVars, daemonVars>>
    BY DEF Fail, Abandon, Discard
  <1>2. abandoned' \in Nat
    BY DEF Fail, Abandon, Discard, IInv, TypeOK
  <1>3. QED
    BY <1>1, <1>2, NoAttemptType, NoAttemptShape, LocalStep

\* What is left of an attempt whose subscription was refused.
Stuck(c) == [NoAttempt EXCEPT !.pc = "stuck", !.start = attempt[c].start,
                              !.price = attempt[c].price, !.threshold = attempt[c].threshold]

LEMMA StuckFields ==
    ASSUME IInv, NEW c \in Clients
    PROVE  /\ Stuck(c) \in Attempt
           /\ Stuck(c).pc = "stuck" /\ Stuck(c).start = attempt[c].start
           /\ Stuck(c).price = attempt[c].price /\ Stuck(c).threshold = attempt[c].threshold
           /\ Stuck(c).seen = 0 /\ Stuck(c).signed = 0 /\ Stuck(c).nonce = 0
           /\ Stuck(c).id = 0 /\ Stuck(c).await = {} /\ Stuck(c).got = {}
  <1>1. attempt[c] \in Attempt
    BY DEF IInv, TypeOK
  <1>2. QED
    BY <1>1, NoAttemptType DEF Stuck, NoAttempt, Attempt, PC

LEMMA StuckStep ==
    ASSUME NEW c \in Clients, SubscribeFails(c)
    PROVE  /\ Become(c, Stuck(c)) /\ attempt[c].pc \in {"ensure", "topUp"}
           /\ UNCHANGED <<chainVars, abandoned, daemonVars>>
  BY DEF SubscribeFails, Stuck

LEMMA StepSubscribeFails == ASSUME IInv, NEW c \in Clients, SubscribeFails(c) PROVE IInv'
  <1>1. AttemptShape(Stuck(c))
    BY StuckFields DEF AttemptShape, IInv, TypeOK, LedgerTypeOK
  <1>2. abandoned' \in Nat
    BY StuckStep DEF IInv, TypeOK
  <1>3. QED
    BY <1>1, <1>2, StuckFields, StuckStep, LocalStep

LEMMA StepReuse == ASSUME IInv, NEW c \in Clients, Reuse(c) PROVE IInv'
  <1> DEFINE a == [attempt[c] EXCEPT !.pc = "ready", !.id = attempt[c].seen, !.escrow = 0]
  <1>1. attempt[c] \in Attempt /\ AttemptShape(attempt[c])
    BY DEF IInv, TypeOK, Shape
  <1>2. a \in Attempt
    BY <1>1 DEF Attempt, PC
  <1>0. attempt[c].seen \in 1..opened
    BY <1>1, LedgerAssumption
       DEF Reuse, FilterChannels, AttemptShape, IInv, TypeOK, LedgerTypeOK
  <1>3. AttemptShape(a)
    BY <1>1, <1>0 DEF Reuse, FilterChannels, AttemptShape, Attempt, IInv, TypeOK, LedgerTypeOK
  <1>4. Become(c, a) /\ UNCHANGED <<chainVars, daemonVars>> /\ abandoned' \in Nat
    BY DEF Reuse, IInv, TypeOK
  <1> HIDE DEF a
  <1>5. QED
    BY <1>2, <1>3, <1>4, LocalStep

LEMMA StepDepositSeen == ASSUME IInv, NEW c \in Clients, DepositSeen(c) PROVE IInv'
  <1> DEFINE a == [attempt[c] EXCEPT !.pc = "topUp", !.await = {}, !.got = {}]
  <1>1. attempt[c] \in Attempt /\ AttemptShape(attempt[c])
    BY DEF IInv, TypeOK, Shape
  <1>2. a \in Attempt
    BY <1>1 DEF Attempt, PC
  <1>3. AttemptShape(a)
    BY <1>1 DEF DepositSeen, AttemptShape, Attempt
  <1>4. Become(c, a) /\ UNCHANGED <<chainVars, daemonVars>> /\ abandoned' \in Nat
    BY DEF DepositSeen, IInv, TypeOK
  <1> HIDE DEF a
  <1>5. QED
    BY <1>2, <1>3, <1>4, LocalStep

LEMMA StepFinish == ASSUME IInv, NEW c \in Clients, Finish(c) PROVE IInv'
  <1> DEFINE a == [attempt[c] EXCEPT !.pc = "ready", !.escrow = 0, !.await = {}, !.got = {}]
  <1>1. attempt[c] \in Attempt /\ AttemptShape(attempt[c])
    BY DEF IInv, TypeOK, Shape
  <1>2. a \in Attempt
    BY <1>1 DEF Attempt, PC
  <1>3. AttemptShape(a)
    BY <1>1 DEF Finish, AttemptShape, Attempt, IInv, TypeOK, LedgerTypeOK
  <1>4. Become(c, a) /\ UNCHANGED <<chainVars, daemonVars>> /\ abandoned' \in Nat
    BY DEF Finish, IInv, TypeOK
  <1> HIDE DEF a
  <1>5. QED
    BY <1>2, <1>3, <1>4, LocalStep

-----------------------------------------------------------------------------
(* Steps that submit a transaction. *)

LEMMA SubmitStep ==
    ASSUME IInv, NEW c \in Clients, NEW a \in Attempt, AttemptShape(a),
           NEW tx \in Tx, Opens(tx) \/ tx.kind = "deposit" \/ tx.id \in 1..opened,
           Become(c, a), Submit(tx),
           UNCHANGED <<ledgerVars, height, abandoned, daemonVars>>
    PROVE  IInv'
  <1>1. mempool \in Seq(Tx) /\ mempool' \in Seq(Tx)
    BY DEF IInv, TypeOK, LedgerTypeOK, Submit
  <1>2. TypeOK'
    BY <1>1 DEF IInv, TypeOK, LedgerTypeOK, Become, ledgerVars, daemonVars, ChanId
  <1>3. MempoolShape'
    <2> SUFFICES ASSUME NEW k \in 1..Len(mempool')
                 PROVE  Opens(mempool'[k]) \/ mempool'[k].kind = "deposit"
                        \/ mempool'[k].id \in 1..opened
      BY DEF MempoolShape, ledgerVars, Opens
    <2>1. CASE k \in 1..Len(mempool)
      BY <1>1, <2>1 DEF IInv, Shape, MempoolShape, Submit
    <2>2. CASE k = Len(mempool) + 1
      BY <1>1, <2>2 DEF Submit
    <2>3. QED
      BY <1>1, <2>1, <2>2 DEF Submit
  <1>4. (\A d \in Clients : AttemptShape(attempt[d]))'
    BY DEF IInv, Shape, TypeOK, AttemptShape, Become, ledgerVars
  <1>5. DaemonCovered'
    BY DEF IInv, Shape, DaemonCovered, ledgerVars, daemonVars
  <1>6. QED
    BY <1>2, <1>3, <1>4, <1>5 DEF IInv, Shape

LEMMA NewExpirationType ==
    ASSUME IInv, NEW c \in Clients, attempt[c].pc # "idle"
    PROVE  NewExpiration(c) \in Nat /\ attempt[c].start \in Nat
  <1>1. attempt[c].start \in Nat /\ attempt[c].threshold \in Nat
    <2>1. attempt[c] \in Attempt
      BY DEF IInv, TypeOK
    <2>2. QED
      BY <2>1, ConstantTypes DEF Attempt
  <1>2. Offset \in Nat
    BY ConstantTypes
  <1>3. QED
    BY <1>1, <1>2 DEF NewExpiration, GetNewExpiration

LEMMA TopUpAmountType ==
    ASSUME IInv, NEW c \in Clients, attempt[c].seen # 0
    PROVE  TopUpAmount(c) \in Nat
  <1>1. attempt[c].seen \in ChanId /\ attempt[c].signed \in Nat /\ attempt[c].price \in Nat
    <2>1. attempt[c] \in Attempt
      BY DEF IInv, TypeOK
    <2>2. QED
      BY <2>1, ConstantTypes DEF Attempt
  <1>2. openEvent[attempt[c].seen].amount \in Nat
    BY <1>1 DEF IInv, TypeOK, LedgerTypeOK
  <1>3. QED
    BY <1>1, <1>2 DEF TopUpAmount, NeedFunds

LEMMA StepOpenNewChannel == ASSUME IInv, NEW c \in Clients, OpenNewChannel(c) PROVE IInv'
  <1> DEFINE direct == attempt[c].escrow >= attempt[c].price
             tx == [kind |-> IF direct THEN "open" ELSE "depositOpen", id |-> 0,
                    amount |-> attempt[c].price, exp |-> NewExpiration(c),
                    born |-> attempt[c].start]
             a == [attempt[c] EXCEPT !.pc = "wait",
                     !.await = IF direct THEN {"open"} ELSE {"open", "deposit"}]
  <1>1. attempt[c] \in Attempt /\ AttemptShape(attempt[c])
    BY DEF IInv, TypeOK, Shape
  <1>2. tx \in Tx
    <2>1. attempt[c].price \in Nat
      BY <1>1, ConstantTypes DEF Attempt
    <2>2. NewExpiration(c) \in Nat /\ attempt[c].start \in Nat
      BY NewExpirationType DEF OpenNewChannel
    <2>3. QED
      BY <2>1, <2>2 DEF Tx, TxKind
  <1>3. Opens(tx)
    BY DEF Opens
  <1>4. a \in Attempt
    <2>1. (IF direct THEN {"open"} ELSE {"open", "deposit"}) \in SUBSET Event
      BY DEF Event
    <2>2. QED
      BY <1>1, <2>1 DEF Attempt, PC
  <1>5. AttemptShape(a)
    BY <1>1 DEF OpenNewChannel, FilterChannels, AttemptShape, Attempt
  <1>6. /\ Become(c, a) /\ Submit(tx)
        /\ UNCHANGED <<ledgerVars, height, abandoned, daemonVars>>
    BY DEF OpenNewChannel
  <1> HIDE DEF a, tx
  <1>7. QED
    BY <1>2, <1>3, <1>4, <1>5, <1>6, SubmitStep

LEMMA StepDepositMissing == ASSUME IInv, NEW c \in Clients, DepositMissing(c) PROVE IInv'
  <1> DEFINE tx == [kind |-> "deposit", id |-> 0, amount |-> TopUpAmount(c),
                    exp |-> NewExpiration(c), born |-> attempt[c].start]
             a == [attempt[c] EXCEPT !.pc = "waitDeposit", !.await = {"deposit"}]
  <1>1. attempt[c] \in Attempt /\ AttemptShape(attempt[c])
    BY DEF IInv, TypeOK, Shape
  <1>2. tx \in Tx
    <2>1. TopUpAmount(c) \in Nat
      BY TopUpAmountType DEF DepositMissing, FilterChannels
    <2>2. NewExpiration(c) \in Nat /\ attempt[c].start \in Nat
      BY NewExpirationType DEF DepositMissing
    <2>3. QED
      BY <2>1, <2>2 DEF Tx, TxKind
  <1>3. tx.kind = "deposit"
    OBVIOUS
  <1>4. a \in Attempt
    BY <1>1 DEF Attempt, PC, Event
  <1>5. AttemptShape(a)
    BY <1>1 DEF DepositMissing, FilterChannels, AttemptShape, Attempt
  <1>6. /\ Become(c, a) /\ Submit(tx)
        /\ UNCHANGED <<ledgerVars, height, abandoned, daemonVars>>
    BY DEF DepositMissing
  <1> HIDE DEF a, tx
  <1>7. QED
    BY <1>2, <1>3, <1>4, <1>5, <1>6, SubmitStep

LEMMA StepAdjustChannel == ASSUME IInv, NEW c \in Clients, AdjustChannel(c) PROVE IInv'
  <1> DEFINE kind == IF NeedFunds(c) /\ NeedExtend(c) THEN "extendAdd"
                     ELSE IF NeedFunds(c) THEN "add" ELSE "extend"
             tx == [kind |-> kind, id |-> attempt[c].seen, amount |-> TopUpAmount(c),
                    exp |-> NewExpiration(c), born |-> attempt[c].start]
             await == (IF NeedFunds(c) THEN {"add"} ELSE {})
                      \cup (IF NeedExtend(c) THEN {"extend"} ELSE {})
             a == [attempt[c] EXCEPT !.pc = "wait", !.await = await,
                                     !.id = attempt[c].seen]
  <1>1. attempt[c] \in Attempt /\ AttemptShape(attempt[c])
    BY DEF IInv, TypeOK, Shape
  <1>2. attempt[c].seen # 0 /\ attempt[c].seen \in 1..opened /\ attempt[c].pc # "idle"
    BY <1>1, LedgerAssumption
       DEF AdjustChannel, FilterChannels, AttemptShape, IInv, TypeOK, LedgerTypeOK
  <1>3. tx \in Tx
    <2>1. TopUpAmount(c) \in Nat
      BY <1>2, TopUpAmountType
    <2>2. NewExpiration(c) \in Nat /\ attempt[c].start \in Nat
      BY <1>2, NewExpirationType
    <2>3. kind \in TxKind
      BY DEF TxKind
    <2>4. attempt[c].seen \in ChanId \cup {0}
      BY <1>1 DEF Attempt
    <2> HIDE DEF kind
    <2>5. QED
      BY <2>1, <2>2, <2>3, <2>4 DEF Tx
  <1>4. tx.id \in 1..opened
    BY <1>2
  <1>5. await \in SUBSET {"add", "extend"} /\ await \in SUBSET Event
    BY DEF Event
  <1> HIDE DEF await
  <1>6. a \in Attempt
    BY <1>1, <1>5 DEF Attempt, PC
  <1>7. AttemptShape(a)
    <2>1. attempt[c].got = {}
      BY <1>1 DEF AdjustChannel, AttemptShape
    <2>2. QED
      BY <1>1, <1>2, <1>5, <2>1 DEF AttemptShape, Attempt
  <1>8. /\ Become(c, a) /\ Submit(tx)
        /\ UNCHANGED <<ledgerVars, height, abandoned, daemonVars>>
    BY DEF AdjustChannel, await
  <1> HIDE DEF a, tx
  <1>9. QED
    BY <1>3, <1>4, <1>6, <1>7, <1>8, SubmitStep

-----------------------------------------------------------------------------
(* Steps of the chain, the daemon and the provider. *)

\* What an accepted transaction does to the channels, whatever its kind: funds
\* and expirations never shrink, and ChannelOpen events stay what they were.
LEMMA ApplyEffect ==
    ASSUME IInv, NEW tx \in Tx, Accepted(tx), Apply(tx),
           Opens(tx) \/ tx.kind = "deposit" \/ tx.id \in 1..opened
    PROVE  /\ opened' \in 0..MaxChannels
           /\ opened' = IF Opens(tx) THEN opened + 1 ELSE opened
           /\ wallet' \in Nat /\ escrow' \in Nat
           /\ value' \in [ChanId -> Nat] /\ expiration' \in [ChanId -> Nat]
           /\ openEvent' \in [ChanId -> [amount : Nat, expiration : Nat]]
           /\ \A i \in ChanId : value[i] <= value'[i]
           /\ \A i \in 1..opened : /\ expiration[i] <= expiration'[i]
                                    /\ openEvent'[i] = openEvent[i]
  <1>0. /\ wallet \in Nat /\ escrow \in Nat /\ opened \in 0..MaxChannels
        /\ value \in [ChanId -> Nat] /\ expiration \in [ChanId -> Nat]
        /\ openEvent \in [ChanId -> [amount : Nat, expiration : Nat]]
    BY DEF IInv, TypeOK, LedgerTypeOK
  <1>1. tx.amount \in Nat /\ tx.exp \in Nat /\ tx.id \in ChanId \cup {0} /\ tx.kind \in TxKind
    BY DEF Tx
  <1>2. Pulled(tx) \in Nat /\ Locked(tx) \in Nat
    BY <1>1 DEF Pulled, Locked
  <1>3. /\ wallet' = wallet - Pulled(tx) /\ Pulled(tx) <= wallet
        /\ escrow' = (escrow + Pulled(tx)) - Locked(tx)
        /\ Locked(tx) <= escrow + Pulled(tx)
        /\ opened' = IF Opens(tx) THEN opened + 1 ELSE opened
        /\ Opens(tx) => opened < MaxChannels
    BY DEF Accepted, Apply
  <1>4. wallet' \in Nat /\ escrow' \in Nat /\ opened' \in 0..MaxChannels
    BY <1>0, <1>2, <1>3, ConstantTypes
  <1>6. /\ Opens(tx) => Target(tx) \notin 1..opened
        /\ tx.kind # "deposit" => Target(tx) \in ChanId
    BY <1>0, <1>3, ConstantTypes DEF Target, ChanId
  <1>5. /\ value' \in [ChanId -> Nat]
        /\ \A i \in ChanId : value[i] <= value'[i]
    <2>1. CASE tx.kind = "deposit"
      BY <1>0, <2>1 DEF Apply
    <2>2. CASE tx.kind # "deposit"
      <3>1. value' = [value EXCEPT ![Target(tx)] = @ + Locked(tx)]
        BY <2>2 DEF Apply
      <3>2. value[Target(tx)] + Locked(tx) \in Nat
        BY <1>0, <1>2, <1>6, <2>2
      <3>3. QED
        BY <1>0, <1>2, <1>6, <2>2, <3>1, <3>2
    <2>3. QED
      BY <2>1, <2>2
  <1>7. /\ expiration' \in [ChanId -> Nat]
        /\ \A i \in 1..opened : expiration[i] <= expiration'[i]
    <2>1. 1..opened \subseteq ChanId
      BY <1>0, ConstantTypes DEF ChanId
    <2>2. CASE Opens(tx)
      <3>1. expiration' = [expiration EXCEPT ![Target(tx)] = tx.exp]
        BY <2>2 DEF Apply
      <3>2. \A i \in 1..opened : expiration[i] = expiration'[i] /\ expiration[i] \in Nat
        BY <1>0, <1>6, <2>1, <2>2, <3>1
      <3>3. expiration' \in [ChanId -> Nat]
        BY <1>0, <1>1, <3>1
      <3>4. QED
        BY <3>2, <3>3
    <2>3. CASE ~Opens(tx) /\ Extends(tx)
      <3>1. /\ expiration' = [expiration EXCEPT ![tx.id] = tx.exp]
            /\ tx.exp >= expiration[tx.id]
        BY <2>3 DEF Apply, Accepted, Target
      <3>2. tx.id \in ChanId
        BY <1>0, <1>6, <2>3 DEF Extends, Target
      <3>3. \A i \in 1..opened : expiration[i] \in Nat /\ expiration'[i] =
                                 IF i = tx.id THEN tx.exp ELSE expiration[i]
        BY <1>0, <1>1, <2>1, <3>1
      <3>4. QED
        BY <1>0, <1>1, <3>1, <3>2, <3>3
    <2>4. CASE ~Opens(tx) /\ ~Extends(tx)
      BY <1>0, <2>1, <2>4 DEF Apply
    <2>5. QED
      BY <2>2, <2>3, <2>4
  <1>8. /\ openEvent' \in [ChanId -> [amount : Nat, expiration : Nat]]
        /\ \A i \in 1..opened : openEvent'[i] = openEvent[i]
    <2>1. 1..opened \subseteq ChanId
      BY <1>0, ConstantTypes DEF ChanId
    <2>2. CASE Opens(tx)
      <3>1. openEvent' = [openEvent EXCEPT ![Target(tx)] =
                            [amount |-> tx.amount, expiration |-> tx.exp]]
        BY <2>2 DEF Apply
      <3>2. QED
        BY <1>0, <1>1, <1>6, <2>1, <2>2, <3>1
    <2>3. CASE ~Opens(tx)
      BY <1>0, <2>3 DEF Apply
    <2>4. QED
      BY <2>2, <2>3
  <1>9. QED
    BY <1>3, <1>4, <1>5, <1>7, <1>8

LEMMA DeliveredShape ==
    ASSUME IInv, NEW c \in Clients, NEW tx \in Tx, Accepted(tx), Apply(tx),
           Opens(tx) \/ tx.kind = "deposit" \/ tx.id \in 1..opened,
           attempt' = [d \in Clients |-> Delivered(d, tx)]
    PROVE  attempt'[c] \in Attempt /\ AttemptShape(attempt[c])'
  <1>1. attempt[c] \in Attempt /\ AttemptShape(attempt[c])
    BY DEF IInv, TypeOK, Shape
  <1>2. Reaches(c, tx) \subseteq attempt[c].await
    BY DEF Reaches
  <1>3. attempt[c].await \in SUBSET Event /\ attempt[c].got \in SUBSET Event
    BY <1>1 DEF Attempt
  <1>4. "open" \in Reaches(c, tx) => Opens(tx)
    BY DEF Reaches, EmittedBy, Opens, Tx, TxKind
  <1>5. /\ opened \in Nat /\ opened' \in 0..MaxChannels
        /\ opened' = IF Opens(tx) THEN opened + 1 ELSE opened
    BY ApplyEffect, ConstantTypes DEF IInv, TypeOK, LedgerTypeOK
  <1> DEFINE got == attempt[c].got \cup Reaches(c, tx)
             id == IF "open" \in Reaches(c, tx) \ attempt[c].got
                   THEN opened + 1 ELSE attempt[c].id
  <1>6. attempt'[c] = [attempt[c] EXCEPT !.got = got, !.id = id]
    BY DEF Delivered
  <1>7. got \in SUBSET Event /\ got \subseteq attempt[c].await
    BY <1>1, <1>2, <1>3 DEF AttemptShape
  <1>8. id \in ChanId \cup {0}
    BY <1>1, <1>4, <1>5, ConstantTypes DEF Attempt, ChanId
  <1>9. "open" \in got => id \in 1..opened'
    BY <1>1, <1>4, <1>5, ConstantTypes DEF AttemptShape
  <1>10. "open" \notin attempt[c].await => id = attempt[c].id
    BY <1>2
  <1>11. attempt[c].pc = "ready" => id \in 1..opened'
    BY <1>1, <1>2, <1>5, ConstantTypes DEF AttemptShape
  <1> HIDE DEF got, id
  <1>12. attempt'[c] \in Attempt
    BY <1>1, <1>6, <1>7, <1>8 DEF Attempt
  <1>13. AttemptShape(attempt[c])'
    <2>1. /\ attempt'[c].pc = attempt[c].pc /\ attempt'[c].seen = attempt[c].seen
          /\ attempt'[c].await = attempt[c].await /\ attempt'[c].got = got
          /\ attempt'[c].id = id
      BY <1>1, <1>6 DEF Attempt
    <2>2. attempt[c].seen \in 0..opened'
      BY <1>1, <1>5, ConstantTypes DEF AttemptShape
    <2>3. attempt[c].pc = "wait" =>
            \/ /\ attempt[c].seen = 0 /\ "open" \in attempt[c].await
               /\ attempt[c].await \subseteq {"open", "deposit"}
            \/ /\ attempt[c].seen # 0 /\ id = attempt[c].seen
               /\ attempt[c].await \subseteq {"add", "extend"}
      BY <1>1, <1>10 DEF AttemptShape
    <2>4. QED
      BY <1>1, <1>7, <1>9, <1>11, <2>1, <2>2, <2>3 DEF AttemptShape
  <1>14. QED
    BY <1>12, <1>13

LEMMA StepMine == ASSUME IInv, Mine PROVE IInv'
  <1> DEFINE tx == Head(mempool)
  <1>1. /\ mempool # <<>> /\ mempool \in Seq(Tx) /\ mempool' = Tail(mempool)
        /\ UNCHANGED <<height, abandoned, daemonVars>>
    BY DEF Mine, IInv, TypeOK, LedgerTypeOK
  <1>2. tx \in Tx /\ (Opens(tx) \/ tx.kind = "deposit" \/ tx.id \in 1..opened)
    BY <1>1 DEF IInv, Shape, MempoolShape
  <1>3. mempool' \in Seq(Tx)
    BY <1>1
  <1>4. \A k \in 1..Len(mempool') : mempool'[k] = mempool[k + 1] /\ k + 1 \in 1..Len(mempool)
    BY <1>1
  <1> HIDE DEF tx
  <1>5. CASE Accepted(tx) /\ Apply(tx) /\ attempt' = [c \in Clients |-> Delivered(c, tx)]
    <2>1. \A c \in Clients : attempt'[c] \in Attempt /\ AttemptShape(attempt[c])'
      BY <1>2, <1>5, DeliveredShape
    <2>2. /\ opened' \in 0..MaxChannels /\ opened \in Nat /\ opened <= opened'
          /\ wallet' \in Nat /\ escrow' \in Nat
          /\ value' \in [ChanId -> Nat] /\ expiration' \in [ChanId -> Nat]
          /\ openEvent' \in [ChanId -> [amount : Nat, expiration : Nat]]
          /\ \A i \in ChanId : value[i] <= value'[i]
      BY <1>2, <1>5, ApplyEffect, ConstantTypes DEF IInv, TypeOK, LedgerTypeOK
    <2>3. nonce' = nonce
      BY <1>5 DEF Apply
    <2>4. TypeOK'
      BY <1>1, <1>3, <1>5, <2>1, <2>2, <2>3 DEF IInv, TypeOK, LedgerTypeOK, daemonVars
    <2>5. MempoolShape'
      BY <1>4, <2>2, ConstantTypes DEF IInv, Shape, MempoolShape, Opens
    <2>6. DaemonCovered'
      <3>1. \A i \in ChanId : /\ dSigned[i] \in Nat /\ inClaim[i] \in Nat
                              /\ value[i] \in Nat /\ value'[i] \in Nat
        BY <2>2 DEF IInv, TypeOK, LedgerTypeOK
      <3>2. \A i \in ChanId : /\ dSigned[i] + inClaim[i] <= value[i]
                              /\ dNonce[i] = 0 => inClaim[i] = 0
        BY DEF IInv, Shape, DaemonCovered
      <3>3. dSigned' = dSigned /\ inClaim' = inClaim /\ dNonce' = dNonce
        BY <1>1 DEF daemonVars
      <3>4. \A i \in ChanId : dSigned'[i] + inClaim'[i] <= value'[i]
        BY <2>2, <3>1, <3>2, <3>3
      <3>5. QED
        BY <3>2, <3>3, <3>4 DEF DaemonCovered
    <2>7. QED
      BY <2>1, <2>4, <2>5, <2>6 DEF IInv, Shape
  <1>6. CASE UNCHANGED <<ledgerVars, attempt>>
    <2>1. TypeOK'
      BY <1>1, <1>3, <1>6 DEF IInv, TypeOK, LedgerTypeOK, daemonVars, ledgerVars
    <2>2. MempoolShape'
      BY <1>4, <1>6 DEF IInv, Shape, MempoolShape, Opens, ledgerVars
    <2>3. DaemonCovered' /\ (\A c \in Clients : AttemptShape(attempt[c]))'
      BY <1>1, <1>6 DEF IInv, Shape, DaemonCovered, AttemptShape, daemonVars, ledgerVars
    <2>4. QED
      BY <2>1, <2>2, <2>3 DEF IInv, Shape
  <1>7. QED
    BY <1>5, <1>6 DEF Mine, tx

LEMMA StepTick == ASSUME IInv, Tick PROVE IInv'
  BY DEF Tick, IInv, TypeOK, LedgerTypeOK, Shape, AttemptShape, MempoolShape, Opens,
         DaemonCovered, ledgerVars, daemonVars

LEMMA StepServe == ASSUME IInv, NEW c \in Clients, Serve(c) PROVE IInv'
  <1> DEFINE i == attempt[c].id
  <1>1. i \in ChanId /\ attempt[c].price \in Nat
    <2>1. attempt[c] \in Attempt /\ AttemptShape(attempt[c])
      BY DEF IInv, TypeOK, Shape
    <2>2. i \in 1..opened /\ opened \in 0..MaxChannels
      BY <2>1 DEF Serve, AttemptShape, IInv, TypeOK, LedgerTypeOK
    <2>3. QED
      BY <2>1, <2>2, ConstantTypes DEF Attempt, ChanId
  <1>2. /\ dSigned[i] + attempt[c].price + inClaim[i] <= value[i]
        /\ dSigned' = [dSigned EXCEPT ![i] = @ + attempt[c].price]
        /\ UNCHANGED <<chainVars, attempt, abandoned, dNonce, inClaim>>
    BY DEF Serve
  <1> HIDE DEF i
  <1>3. \A j \in ChanId : dSigned[j] \in Nat /\ inClaim[j] \in Nat /\ value[j] \in Nat
    BY DEF IInv, TypeOK, LedgerTypeOK
  <1>4. dSigned' \in [ChanId -> Nat]
    <2>1. dSigned[i] + attempt[c].price \in Nat
      BY <1>1, <1>3
    <2>2. QED
      BY <1>1, <1>2, <2>1 DEF IInv, TypeOK
  <1>5. TypeOK'
    BY <1>2, <1>4 DEF IInv, TypeOK, LedgerTypeOK, chainVars, ledgerVars
  <1>6. DaemonCovered'
    <2>1. \A j \in ChanId : dSigned'[j] = IF j = i THEN dSigned[i] + attempt[c].price
                                                  ELSE dSigned[j]
      BY <1>1, <1>2 DEF IInv, TypeOK
    <2>2. QED
      BY <1>1, <1>2, <1>3, <2>1 DEF IInv, Shape, DaemonCovered, chainVars, ledgerVars
  <1>7. MempoolShape' /\ (\A d \in Clients : AttemptShape(attempt[d]))'
    BY <1>2 DEF IInv, Shape, MempoolShape, Opens, AttemptShape, chainVars, ledgerVars
  <1>8. QED
    BY <1>5, <1>6, <1>7 DEF IInv, Shape

LEMMA StepStartClaim == ASSUME IInv, NEW i \in ChanId, StartClaim(i) PROVE IInv'
  <1>1. \A j \in ChanId : /\ dSigned[j] \in Nat /\ inClaim[j] \in Nat
                          /\ value[j] \in Nat /\ dNonce[j] \in Nat
    BY DEF IInv, TypeOK, LedgerTypeOK
  <1>2. TypeOK'
    <2>1. dNonce[i] + 1 \in Nat
      BY <1>1
    <2>2. QED
      BY <1>1, <2>1 DEF StartClaim, IInv, TypeOK, LedgerTypeOK, chainVars, ledgerVars
  <1>3. DaemonCovered'
    <2>1. \A j \in ChanId :
            /\ dSigned'[j] = IF j = i THEN 0 ELSE dSigned[j]
            /\ inClaim'[j] = IF j = i THEN dSigned[j] ELSE inClaim[j]
            /\ dNonce'[j] = IF j = i THEN dNonce[j] + 1 ELSE dNonce[j]
            /\ value'[j] = value[j]
      BY DEF StartClaim, IInv, TypeOK, chainVars, ledgerVars
    <2>2. QED
      BY <1>1, <2>1 DEF StartClaim, IInv, Shape, DaemonCovered
  <1>4. MempoolShape' /\ (\A d \in Clients : AttemptShape(attempt[d]))'
    BY DEF StartClaim, IInv, Shape, MempoolShape, Opens, AttemptShape, chainVars, ledgerVars
  <1>5. QED
    BY <1>2, <1>3, <1>4 DEF IInv, Shape

LEMMA StepFinishClaim == ASSUME IInv, NEW i \in ChanId, FinishClaim(i) PROVE IInv'
  <1>1. \A j \in ChanId : /\ dSigned[j] \in Nat /\ inClaim[j] \in Nat
                          /\ value[j] \in Nat /\ nonce[j] \in Nat
                          /\ dSigned[j] + inClaim[j] <= value[j]
    BY DEF IInv, TypeOK, LedgerTypeOK, Shape, DaemonCovered
  <1>2. TypeOK'
    <2>1. nonce[i] + 1 \in Nat /\ value[i] - inClaim[i] \in Nat
      BY <1>1
    <2>2. QED
      BY <1>1, <2>1 DEF FinishClaim, IInv, TypeOK, LedgerTypeOK
  <1>3. DaemonCovered'
    <2>1. \A j \in ChanId :
            /\ inClaim'[j] = IF j = i THEN 0 ELSE inClaim[j]
            /\ value'[j] = IF j = i THEN value[j] - inClaim[j] ELSE value[j]
      BY DEF FinishClaim, IInv, TypeOK, LedgerTypeOK
    <2>2. QED
      BY <1>1, <2>1 DEF FinishClaim, IInv, Shape, DaemonCovered
  <1>4. MempoolShape' /\ (\A d \in Clients : AttemptShape(attempt[d]))'
    BY DEF FinishClaim, IInv, Shape, MempoolShape, Opens, AttemptShape
  <1>5. QED
    BY <1>2, <1>3, <1>4 DEF IInv, Shape

LEMMA StepIInv == IInv /\ [Next]_vars => IInv'
  <1> SUFFICES ASSUME IInv, [Next]_vars PROVE IInv'
    OBVIOUS
  <1>1. ASSUME NEW c \in Clients,
               Begin(c) \/ ClientStep(c) \/ Fail(c) \/ SubscribeFails(c) \/ Discard(c) \/ Serve(c)
        PROVE  IInv'
    BY <1>1, StepBegin, StepDaemonReplies, StepDaemonNotFound, StepOpenNewChannel, StepReuse,
       StepDepositMissing, StepDepositSeen, StepAdjustChannel, StepFinish, StepDrop, StepServe,
       StepSubscribeFails
       DEF ClientStep
  <1>2. CASE \E i \in ChanId : StartClaim(i) \/ FinishClaim(i)
    BY <1>2, StepStartClaim, StepFinishClaim
  <1>3. CASE Mine
    BY <1>3, StepMine
  <1>4. CASE Tick
    BY <1>4, StepTick
  <1>5. CASE UNCHANGED vars
    BY <1>5 DEF vars, chainVars, ledgerVars, daemonVars, IInv, TypeOK, LedgerTypeOK, Shape,
       AttemptShape, MempoolShape, Opens, DaemonCovered
  <1>6. QED
    BY <1>1, <1>2, <1>3, <1>4, <1>5 DEF Next

LEMMA AlwaysIInv == Spec => []IInv
  BY InitIInv, StepIInv, PTL DEF Spec

\* Type correctness of the channel set-up protocol, for any number of clients,
\* channels and claims: in particular no step drives an amount of the contract
\* or of the daemon below zero.
THEOREM TypeCorrect == Spec => []TypeOK
  BY AlwaysIInv, PTL DEF IInv

-----------------------------------------------------------------------------
(* Facts every later proof needs. *)

\* The part of the type invariant arithmetic needs.
LEMMA Types ==
    ASSUME IInv
    PROVE  /\ opened \in 0..MaxChannels /\ opened \in Nat /\ 1..opened \subseteq ChanId
           /\ \A i \in ChanId : /\ value[i] \in Nat /\ expiration[i] \in Nat
                                /\ dSigned[i] \in Nat /\ inClaim[i] \in Nat
                                /\ dNonce[i] \in Nat
                                /\ openEvent[i].amount \in Nat
                                /\ openEvent[i].expiration \in Nat
           /\ \A c \in Clients : attempt[c] \in Attempt /\ AttemptShape(attempt[c])
           /\ \A k \in 1..Len(mempool) : mempool[k] \in Tx
           /\ height \in Nat
  <1>1. opened \in 0..MaxChannels /\ height \in Nat /\ mempool \in Seq(Tx)
    BY DEF IInv, TypeOK, LedgerTypeOK
  <1>2. opened \in Nat /\ 1..opened \subseteq ChanId
    BY <1>1, ConstantTypes DEF ChanId
  <1>3. \A i \in ChanId : /\ value[i] \in Nat /\ expiration[i] \in Nat
                          /\ dSigned[i] \in Nat /\ inClaim[i] \in Nat
                          /\ dNonce[i] \in Nat
                          /\ openEvent[i].amount \in Nat
                          /\ openEvent[i].expiration \in Nat
    BY DEF IInv, TypeOK, LedgerTypeOK
  <1>4. \A c \in Clients : attempt[c] \in Attempt /\ AttemptShape(attempt[c])
    BY DEF IInv, TypeOK, Shape
  <1>5. \A k \in 1..Len(mempool) : mempool[k] \in Tx
    BY <1>1
  <1>6. QED
    BY <1>1, <1>2, <1>3, <1>4, <1>5

LEMMA AttemptFields ==
    ASSUME NEW a \in Attempt
    PROVE  /\ a.start \in Nat /\ a.price \in Nat /\ a.threshold \in Nat
           /\ a.signed \in Nat /\ a.escrow \in Nat
           /\ a.seen \in ChanId \cup {0} /\ a.id \in ChanId \cup {0}
           /\ a.await \in SUBSET Event /\ a.got \in SUBSET Event
  BY ConstantTypes DEF Attempt


\* What a mined transaction leaves alone, accepted or not: the attempts keep
\* where they are and what they know, and the daemon sees nothing.
LEMMA MineKeeps ==
    ASSUME IInv, Mine
    PROVE  /\ abandoned' = abandoned /\ dSigned' = dSigned /\ dNonce' = dNonce
           /\ \A c \in Clients :
                 /\ attempt'[c].pc = attempt[c].pc /\ attempt'[c].seen = attempt[c].seen
                 /\ attempt'[c].signed = attempt[c].signed
                 /\ attempt'[c].nonce = attempt[c].nonce
                 /\ attempt[c].pc = "ready" => attempt'[c].id = attempt[c].id
  <1> DEFINE tx == Head(mempool)
  <1>1. CASE attempt' = [c \in Clients |-> Delivered(c, tx)]
    <2> SUFFICES ASSUME NEW c \in Clients
                 PROVE  /\ attempt'[c].pc = attempt[c].pc
                        /\ attempt'[c].seen = attempt[c].seen
                        /\ attempt'[c].signed = attempt[c].signed
                        /\ attempt'[c].nonce = attempt[c].nonce
                        /\ attempt[c].pc = "ready" => attempt'[c].id = attempt[c].id
      BY DEF Mine, daemonVars
    <2>1. attempt[c] \in Attempt /\ AttemptShape(attempt[c])
      BY Types
    <2>2. attempt'[c] = Delivered(c, tx)
      BY <1>1
    <2>3. attempt[c].pc = "ready" => Reaches(c, tx) = {}
      BY <2>1 DEF Reaches, AttemptShape
    <2> HIDE DEF tx
    <2>4. QED
      BY <2>1, <2>2, <2>3 DEF Delivered, Attempt
  <1>2. CASE attempt' = attempt
    BY <1>2 DEF Mine, daemonVars
  <1>3. QED
    BY <1>1, <1>2 DEF Mine

-----------------------------------------------------------------------------
(* A strategy starts behind the daemon.  What an attempt was told is the   *)
(* daemon's state at some earlier moment, and the daemon's amount shrinks  *)
(* only with a step to a later nonce.                                      *)

Behind(a, i) ==
    a.nonce < dNonce[i] \/ (a.nonce = dNonce[i] /\ a.signed <= dSigned[i])

BehindAttempt(a) ==
    /\ a.seen = 0 \/ a.pc = "query" => a.nonce = 0 /\ a.signed = 0
    /\ a.seen # 0 => Behind(a, a.seen)
    /\ a.pc = "ready" /\ a.seen # 0 => a.id = a.seen

BehindInv == \A c \in Clients : BehindAttempt(attempt[c])

LEMMA BehindInit == Init => BehindInv
  BY DEF Init, BehindInv, BehindAttempt, NoAttempt

LEMMA BehindLocal ==
    ASSUME IInv, BehindInv, NEW c \in Clients, NEW a, Become(c, a), BehindAttempt(a),
           UNCHANGED daemonVars
    PROVE  BehindInv'
  BY DEF IInv, TypeOK, BehindInv, BehindAttempt, Behind, Become, daemonVars

\* An attempt that knows nothing yet is behind any daemon.
LEMMA BehindZero ==
    ASSUME IInv, NEW i \in ChanId, NEW a, a.nonce = 0, a.signed = 0
    PROVE  Behind(a, i)
  BY Types DEF Behind

LEMMA BehindBegin == ASSUME IInv, BehindInv, NEW c \in Clients, Begin(c) PROVE BehindInv'
  <1>1. PICK p \in Prices, t \in Thresholds :
          Become(c, [NoAttempt EXCEPT
                       !.pc = IF opened = 0 THEN "ensure" ELSE "query",
                       !.start = height, !.price = p, !.threshold = t,
                       !.seen = opened, !.filtered = opened, !.escrow = escrow])
    BY DEF Begin
  <1> DEFINE a == [NoAttempt EXCEPT
                       !.pc = IF opened = 0 THEN "ensure" ELSE "query",
                       !.start = height, !.price = p, !.threshold = t,
                       !.seen = opened, !.filtered = opened, !.escrow = escrow]
  <1>2. a.nonce = 0 /\ a.signed = 0 /\ a.seen = opened /\ a.pc # "ready"
    BY DEF NoAttempt
  <1>3. a.seen # 0 => Behind(a, a.seen)
    <2>1. opened # 0 => opened \in ChanId
      BY Types, ConstantTypes DEF ChanId
    <2> HIDE DEF a
    <2>2. QED
      BY <1>2, <2>1, BehindZero
  <1>4. Become(c, a) /\ UNCHANGED daemonVars
    BY <1>1 DEF Begin
  <1> HIDE DEF a
  <1>5. BehindAttempt(a)
    BY <1>2, <1>3 DEF BehindAttempt
  <1>6. QED
    BY <1>4, <1>5, BehindLocal

LEMMA BehindDaemonReplies ==
    ASSUME IInv, BehindInv, NEW c \in Clients, DaemonReplies(c)
    PROVE  BehindInv'
  <1> DEFINE a == [attempt[c] EXCEPT !.pc = "ensure",
                     !.signed = dSigned[attempt[c].seen],
                     !.nonce = dNonce[attempt[c].seen]]
  <1>1. attempt[c] \in Attempt /\ attempt[c].seen # 0 /\ attempt[c].seen \in ChanId
    BY Types, AttemptFields DEF DaemonReplies, AttemptShape
  <1>2. /\ a.pc = "ensure" /\ a.seen = attempt[c].seen
        /\ a.signed = dSigned[a.seen] /\ a.nonce = dNonce[a.seen]
    BY <1>1 DEF Attempt
  <1>3. Become(c, a) /\ UNCHANGED daemonVars
    BY DEF DaemonReplies
  <1> HIDE DEF a
  <1>4. BehindAttempt(a)
    BY <1>1, <1>2, Types DEF BehindAttempt, Behind
  <1>5. QED
    BY <1>3, <1>4, BehindLocal

\* The other steps of an attempt either end it or keep what it was told.
LEMMA BehindKeeps ==
    ASSUME IInv, BehindInv, NEW c \in Clients, attempt[c].pc # "idle",
           NEW a, Become(c, a), UNCHANGED daemonVars,
           a.seen = attempt[c].seen, a.signed = attempt[c].signed,
           a.nonce = attempt[c].nonce, a.pc # "query",
           a.pc = "ready" /\ a.seen # 0 => a.id = a.seen
    PROVE  BehindInv'
  <1>1. BehindAttempt(a)
    BY DEF BehindInv, BehindAttempt, Behind
  <1>2. QED
    BY <1>1, BehindLocal

LEMMA BehindAttemptSteps ==
    ASSUME IInv, BehindInv, NEW c \in Clients,
           \/ DaemonNotFound(c) \/ OpenNewChannel(c) \/ Reuse(c) \/ DepositMissing(c)
           \/ DepositSeen(c) \/ AdjustChannel(c) \/ Finish(c)
    PROVE  BehindInv'
  <1>1. attempt[c] \in Attempt /\ AttemptShape(attempt[c])
    BY Types
  <1>2. UNCHANGED daemonVars /\ attempt[c].pc # "idle"
    BY DEF DaemonNotFound, OpenNewChannel, Reuse, DepositMissing, DepositSeen, AdjustChannel,
           Finish
  <1>4. CASE DaemonNotFound(c)
    BY <1>1, <1>2, <1>4, BehindKeeps DEF DaemonNotFound, Attempt
  <1>5. CASE OpenNewChannel(c)
    BY <1>1, <1>2, <1>5, BehindKeeps DEF OpenNewChannel, Attempt
  <1>6. CASE Reuse(c)
    BY <1>1, <1>2, <1>6, BehindKeeps DEF Reuse, Attempt
  <1>7. CASE DepositMissing(c)
    BY <1>1, <1>2, <1>7, BehindKeeps DEF DepositMissing, Attempt
  <1>8. CASE DepositSeen(c)
    BY <1>1, <1>2, <1>8, BehindKeeps DEF DepositSeen, Attempt
  <1>9. CASE AdjustChannel(c)
    BY <1>1, <1>2, <1>9, BehindKeeps DEF AdjustChannel, Attempt
  <1>10. CASE Finish(c)
    BY <1>1, <1>2, <1>10, BehindKeeps DEF Finish, Attempt, AttemptShape
  <1>11. QED
    BY <1>4, <1>5, <1>6, <1>7, <1>8, <1>9, <1>10

LEMMA BehindDrop ==
    ASSUME IInv, BehindInv, NEW c \in Clients, Fail(c) \/ Abandon(c) \/ Discard(c)
    PROVE  BehindInv'
  <1>1. Become(c, NoAttempt) /\ UNCHANGED daemonVars
    BY DEF Fail, Abandon, Discard
  <1>2. BehindAttempt(NoAttempt)
    BY DEF BehindAttempt, NoAttempt
  <1>3. QED
    BY <1>1, <1>2, BehindLocal

LEMMA BehindSubscribeFails ==
    ASSUME IInv, BehindInv, NEW c \in Clients, SubscribeFails(c)
    PROVE  BehindInv'
  <1>1. BehindAttempt(Stuck(c))
    BY StuckFields DEF BehindAttempt
  <1>2. QED
    BY <1>1, StuckStep, BehindLocal

\* A daemon that moves on leaves every attempt behind it.
LEMMA BehindDaemonMoves ==
    ASSUME IInv, BehindInv,
           \A c \in Clients :
              /\ attempt'[c].pc = attempt[c].pc /\ attempt'[c].seen = attempt[c].seen
              /\ attempt'[c].signed = attempt[c].signed
              /\ attempt'[c].nonce = attempt[c].nonce
              /\ attempt[c].pc = "ready" => attempt'[c].id = attempt[c].id,
           \A i \in ChanId : /\ dSigned'[i] \in Nat /\ dNonce'[i] \in Nat
                             /\ \/ dNonce[i] < dNonce'[i]
                                \/ dNonce[i] = dNonce'[i] /\ dSigned[i] <= dSigned'[i]
    PROVE  BehindInv'
  <1> SUFFICES ASSUME NEW c \in Clients PROVE BehindAttempt(attempt[c])'
    BY DEF BehindInv
  <1>1. BehindAttempt(attempt[c]) /\ attempt[c].signed \in Nat /\ attempt[c].nonce \in Nat
    <2>1. attempt[c] \in Attempt
      BY Types
    <2>2. attempt[c].signed \in Nat /\ attempt[c].nonce \in Nat
      BY <2>1 DEF Attempt
    <2>3. QED
      BY <2>2 DEF BehindInv
  <1>2. attempt[c].seen \in ChanId \cup {0}
    BY Types, AttemptFields
  <1>3. \A i \in ChanId : Behind(attempt[c], i) => Behind(attempt[c], i)'
    BY <1>1, Types DEF Behind
  <1>4. QED
    BY <1>1, <1>2, <1>3 DEF BehindAttempt

LEMMA BehindServe == ASSUME IInv, BehindInv, NEW c \in Clients, Serve(c) PROVE BehindInv'
  <1>1. attempt[c].id \in ChanId /\ attempt[c].price \in Nat
    BY Types, AttemptFields DEF Serve, AttemptShape
  <1>2. /\ dSigned' = [dSigned EXCEPT ![attempt[c].id] = @ + attempt[c].price]
        /\ dNonce' = dNonce /\ attempt' = attempt
    BY DEF Serve
  <1>3. \A i \in ChanId : dSigned[i] \in Nat /\ dNonce[i] \in Nat
    BY Types
  <1>4. \A i \in ChanId : dSigned'[i] = IF i = attempt[c].id THEN dSigned[i] + attempt[c].price
                                        ELSE dSigned[i]
    BY <1>2 DEF IInv, TypeOK
  <1>5. QED
    BY <1>1, <1>2, <1>3, <1>4, BehindDaemonMoves

LEMMA BehindStartClaim ==
    ASSUME IInv, BehindInv, NEW i \in ChanId, StartClaim(i)
    PROVE  BehindInv'
  <1>1. \A j \in ChanId : dSigned[j] \in Nat /\ dNonce[j] \in Nat
    BY Types
  <1>2. \A j \in ChanId : /\ dSigned'[j] = IF j = i THEN 0 ELSE dSigned[j]
                          /\ dNonce'[j] = IF j = i THEN dNonce[j] + 1 ELSE dNonce[j]
    BY DEF StartClaim, IInv, TypeOK
  <1>3. attempt' = attempt
    BY DEF StartClaim
  <1>4. QED
    BY <1>1, <1>2, <1>3, BehindDaemonMoves

LEMMA StepBehind == ASSUME IInv, BehindInv, [Next]_vars PROVE BehindInv'
  <1>1. ASSUME NEW c \in Clients,
               Begin(c) \/ ClientStep(c) \/ Fail(c) \/ SubscribeFails(c) \/ Discard(c) \/ Serve(c)
        PROVE  BehindInv'
    BY <1>1, BehindBegin, BehindDaemonReplies, BehindAttemptSteps, BehindDrop, BehindServe,
       BehindSubscribeFails
       DEF ClientStep
  <1>2. ASSUME NEW i \in ChanId, StartClaim(i) \/ FinishClaim(i) PROVE BehindInv'
    <2>1. CASE FinishClaim(i)
      BY <2>1 DEF FinishClaim, BehindInv, BehindAttempt, Behind
    <2>2. QED
      BY <1>2, <2>1, BehindStartClaim
  <1>3. CASE Mine
    BY <1>3, MineKeeps, BehindDaemonMoves, Types
  <1>4. CASE Tick \/ UNCHANGED vars
    BY <1>4 DEF Tick, vars, daemonVars, BehindInv, BehindAttempt, Behind
  <1>5. QED
    BY <1>1, <1>2, <1>3, <1>4 DEF Next

LEMMA BehindMeans == IInv /\ BehindInv => StartsBehindDaemon
  <1> SUFFICES ASSUME IInv, BehindInv, NEW c \in Clients, Ready(c)
               PROVE  Behind(attempt[c], attempt[c].id)
    BY DEF StartsBehindDaemon, Behind
  <1>1. attempt[c].id \in ChanId /\ BehindAttempt(attempt[c])
    BY Types DEF Ready, AttemptShape, BehindInv
  <1>2. QED
    BY <1>1, BehindZero DEF BehindAttempt, Ready

\* A strategy never starts from an amount or a nonce the daemon does not have:
\* what NewPaidStrategy was told by ChannelState, or the zeros it falls back on,
\* stays behind the daemon through every payment and claim of other strategies.
THEOREM NeverAheadOfDaemon == Spec => []StartsBehindDaemon
  <1>1. Init => BehindInv
    BY BehindInit
  <1>2. IInv /\ BehindInv /\ [Next]_vars => BehindInv'
    BY StepBehind
  <1>3. IInv /\ BehindInv => StartsBehindDaemon
    BY BehindMeans
  <1>4. QED
    BY <1>1, <1>2, <1>3, AlwaysIInv, PTL DEF Spec

-----------------------------------------------------------------------------
(* A payer opens a bounded number of channels.  Only an attempt that began *)
(* before the first channel was on chain opens one, it submits one such    *)
(* transaction, and until the first channel is there each submitted one    *)
(* has an attempt that still waits for it, or that was abandoned.          *)

Opening == {k \in 1..Len(mempool) : Opens(mempool[k])}

WillOpen(a) == a.pc = "ensure" /\ a.seen = 0
HasOpened(a) == a.pc = "wait" /\ a.seen = 0

Willing == {c \in Clients : WillOpen(attempt[c])}
Waiting == {c \in Clients : HasOpened(attempt[c])}

OpenedInv ==
    IF opened = 0
    THEN Cardinality(Opening) <= Cardinality(Waiting) + abandoned
    ELSE opened + Cardinality(Opening) + Cardinality(Willing) <= Cardinality(Clients) + abandoned

\* All the sets counted are finite.
LEMMA Counts ==
    ASSUME IInv
    PROVE  /\ IsFiniteSet(Opening) /\ IsFiniteSet(Willing) /\ IsFiniteSet(Waiting)
           /\ IsFiniteSet(Clients)
           /\ Cardinality(Opening) \in Nat /\ Cardinality(Willing) \in Nat
           /\ Cardinality(Waiting) \in Nat /\ Cardinality(Clients) \in Nat
           /\ opened \in Nat /\ abandoned \in Nat
           /\ Cardinality(Willing) + Cardinality(Waiting) <= Cardinality(Clients)
  <1>1. IsFiniteSet(Clients) /\ Willing \in SUBSET Clients /\ Waiting \in SUBSET Clients
    BY EnsureAssumption DEF Willing, Waiting
  <1>2. mempool \in Seq(Tx) /\ opened \in Nat /\ abandoned \in Nat
    BY Types DEF IInv, TypeOK, LedgerTypeOK
  <1>3. IsFiniteSet(1..Len(mempool)) /\ Opening \in SUBSET (1..Len(mempool))
    <2>1. Len(mempool) \in Int
      BY <1>2
    <2>2. QED
      BY <2>1, FS_Interval DEF Opening
  <1>4. IsFiniteSet(Opening) /\ IsFiniteSet(Willing) /\ IsFiniteSet(Waiting)
    BY <1>1, <1>3, FS_Subset
  <1>5. /\ Cardinality(Opening) \in Nat /\ Cardinality(Willing) \in Nat
        /\ Cardinality(Waiting) \in Nat /\ Cardinality(Clients) \in Nat
    BY <1>1, <1>4, FS_CardinalityType
  <1>6. Cardinality(Willing) + Cardinality(Waiting) <= Cardinality(Clients)
    <2>1. Willing \cap Waiting = {}
      BY DEF Willing, Waiting, WillOpen, HasOpened
    <2>2. Cardinality(Willing \cup Waiting) =
            Cardinality(Willing) + Cardinality(Waiting) - Cardinality(Willing \cap Waiting)
      BY <1>4, FS_Union
    <2>3. Cardinality(Willing \cup Waiting) <= Cardinality(Clients)
      <3>1. Willing \cup Waiting \in SUBSET Clients
        BY <1>1
      <3>2. QED
        BY <1>1, <3>1, FS_Subset
    <2>4. Cardinality(Willing \cap Waiting) = 0
      BY <2>1, FS_EmptySet
    <2>5. QED
      BY <1>5, <2>2, <2>3, <2>4
  <1>7. QED
    BY <1>1, <1>2, <1>4, <1>5, <1>6

LEMMA OpenedInit == Init => OpenedInv
  <1> SUFFICES ASSUME Init PROVE OpenedInv
    OBVIOUS
  <1>1. Opening = {} /\ opened = 0 /\ abandoned = 0
    BY DEF Init, LedgerInit, Opening
  <1>2. Cardinality(Waiting) \in Nat
    BY Counts, InitIInv
  <1>3. QED
    BY <1>1, <1>2, FS_EmptySet DEF OpenedInv

\* A step of one client that submits nothing: it must not become one that will
\* open a channel once there is one, nor, before there is one, forget the
\* transaction it waits for without being counted as abandoned.
LEMMA OpenedLocal ==
    ASSUME IInv, OpenedInv, NEW c \in Clients, NEW a, Become(c, a),
           UNCHANGED chainVars,
           opened = 0 \/ ~WillOpen(a),
           \/ abandoned' = abandoned /\ (opened = 0 /\ HasOpened(attempt[c]) => HasOpened(a))
           \/ abandoned' = abandoned + 1
    PROVE  OpenedInv'
  <1>1. \A d \in Clients : attempt'[d] = IF d = c THEN a ELSE attempt[d]
    BY DEF Become, IInv, TypeOK
  <1>2. opened' = opened /\ Opening' = Opening
    BY DEF chainVars, ledgerVars, Opening, Opens
  <1>3. /\ IsFiniteSet(Willing') /\ Cardinality(Willing') \in Nat
        /\ IsFiniteSet(Waiting') /\ Cardinality(Waiting') \in Nat
    <2>1. Willing' \in SUBSET Clients /\ Waiting' \in SUBSET Clients
      BY DEF Willing, Waiting
    <2>2. QED
      BY <2>1, Counts, FS_Subset, FS_CardinalityType
  <1>4. opened # 0 => Cardinality(Willing') <= Cardinality(Willing)
    <2>1. opened # 0 => Willing' \in SUBSET Willing
      BY <1>1 DEF Willing
    <2>2. QED
      BY <2>1, Counts, FS_Subset
  <1>5. Cardinality(Waiting) - 1 <= Cardinality(Waiting')
    <2>1. Waiting \ {c} \in SUBSET Waiting'
      BY <1>1 DEF Waiting
    <2>2. Cardinality(Waiting \ {c}) <= Cardinality(Waiting')
      BY <1>3, <2>1, FS_Subset
    <2>3. Cardinality(Waiting \ {c}) = IF c \in Waiting THEN Cardinality(Waiting) - 1
                                       ELSE Cardinality(Waiting)
      BY Counts, FS_RemoveElement
    <2>4. QED
      BY <1>3, <2>2, <2>3, Counts
  <1>6. (opened = 0 /\ HasOpened(attempt[c]) => HasOpened(a)) /\ opened = 0
          => Cardinality(Waiting) <= Cardinality(Waiting')
    <2>1. (opened = 0 /\ HasOpened(attempt[c]) => HasOpened(a)) /\ opened = 0
            => Waiting \in SUBSET Waiting'
      BY <1>1 DEF Waiting
    <2>2. QED
      BY <1>3, <2>1, FS_Subset
  <1>7. /\ Cardinality(Opening) \in Nat /\ Cardinality(Willing) \in Nat
        /\ Cardinality(Waiting) \in Nat /\ Cardinality(Clients) \in Nat
        /\ opened \in Nat /\ abandoned \in Nat
    BY Counts
  <1>8. QED
    BY <1>2, <1>4, <1>5, <1>6, <1>7, <1>3 DEF OpenedInv

\* Steps of an attempt that has found its channel, or that has submitted nothing.
LEMMA OpenedAttemptSteps ==
    ASSUME IInv, OpenedInv, NEW c \in Clients,
           \/ Begin(c) \/ DaemonReplies(c) \/ DaemonNotFound(c) \/ Reuse(c) \/ DepositSeen(c)
           \/ Finish(c) \/ Fail(c) \/ SubscribeFails(c) \/ Abandon(c) \/ Discard(c)
    PROVE  OpenedInv'
  <1>1. attempt[c] \in Attempt /\ AttemptShape(attempt[c]) /\ UNCHANGED chainVars
    BY Types DEF Begin, DaemonReplies, DaemonNotFound, Reuse, DepositSeen, Finish, Fail,
                 SubscribeFails, Abandon, Discard
  <1>2. CASE Begin(c)
    BY <1>1, <1>2, OpenedLocal DEF Begin, NoAttempt, WillOpen, HasOpened
  <1>3. CASE DaemonReplies(c)
    BY <1>1, <1>3, OpenedLocal DEF DaemonReplies, Attempt, AttemptShape, WillOpen, HasOpened
  <1>4. CASE DaemonNotFound(c)
    BY <1>1, <1>4, OpenedLocal DEF DaemonNotFound, Attempt, AttemptShape, WillOpen, HasOpened
  <1>5. CASE Reuse(c)
    BY <1>1, <1>5, OpenedLocal DEF Reuse, Attempt, WillOpen, HasOpened
  <1>6. CASE DepositSeen(c)
    BY <1>1, <1>6, OpenedLocal DEF DepositSeen, Attempt, WillOpen, HasOpened
  <1>7. CASE Finish(c)
    <2>1. HasOpened(attempt[c]) => opened # 0
      BY <1>1, <1>7, Types DEF Finish, AttemptShape, HasOpened
    <2>2. QED
      BY <1>1, <1>7, <2>1, OpenedLocal DEF Finish, Attempt, WillOpen
  <1>8. CASE Fail(c) \/ Abandon(c) \/ Discard(c)
    BY <1>1, <1>8, OpenedLocal DEF Fail, Abandon, Discard, NoAttempt, WillOpen, HasOpened
  <1>9. CASE SubscribeFails(c)
    BY <1>1, <1>9, StuckStep, StuckFields, OpenedLocal DEF WillOpen, HasOpened
  <1>10. QED
    BY <1>2, <1>3, <1>4, <1>5, <1>6, <1>7, <1>8, <1>9

\* What a submission adds to the opening transactions of the mempool.
LEMMA SubmitCount ==
    ASSUME IInv, NEW tx \in Tx, Submit(tx)
    PROVE  Cardinality(Opening') = IF Opens(tx) THEN Cardinality(Opening) + 1
                                   ELSE Cardinality(Opening)
  <1> DEFINE n == Len(mempool)
  <1>1. mempool \in Seq(Tx) /\ n \in Nat
    BY DEF IInv, TypeOK, LedgerTypeOK
  <1>2. /\ Len(mempool') = n + 1 /\ mempool'[n + 1] = tx
        /\ \A k \in 1..n : mempool'[k] = mempool[k]
    BY <1>1 DEF Submit
  <1>3. Opening' = {k \in 1..(n + 1) : Opens(mempool'[k])}
    BY <1>2 DEF Opening, Opens
  <1>4. \A k \in 1..(n + 1) : k \in 1..n \/ k = n + 1
    BY <1>1
  <1>5. \A k \in 1..n : k \in 1..(n + 1) /\ k # n + 1
    BY <1>1
  <1>6. n + 1 \in 1..(n + 1)
    BY <1>1
  <1> HIDE DEF n
  <1>7. Opening = {k \in 1..n : Opens(mempool[k])}
    BY DEF Opening, n
  <1>8. Opening' = IF Opens(tx) THEN Opening \cup {n + 1} ELSE Opening
    BY <1>2, <1>3, <1>4, <1>5, <1>6, <1>7
  <1>9. n + 1 \notin Opening
    BY <1>5, <1>7
  <1>10. QED
    BY <1>8, <1>9, Counts, FS_AddElement

LEMMA OpenedOpenNewChannel ==
    ASSUME IInv, OpenedInv, NEW c \in Clients, OpenNewChannel(c)
    PROVE  OpenedInv'
  <1> DEFINE direct == attempt[c].escrow >= attempt[c].price
             tx == [kind |-> IF direct THEN "open" ELSE "depositOpen", id |-> 0,
                    amount |-> attempt[c].price, exp |-> NewExpiration(c),
                    born |-> attempt[c].start]
             a == [attempt[c] EXCEPT !.pc = "wait",
                     !.await = IF direct THEN {"open"} ELSE {"open", "deposit"}]
  <1>1. tx \in Tx
    <2>1. attempt[c].price \in Nat
      BY Types, AttemptFields
    <2>2. NewExpiration(c) \in Nat /\ attempt[c].start \in Nat
      BY NewExpirationType DEF OpenNewChannel
    <2>3. QED
      BY <2>1, <2>2 DEF Tx, TxKind
  <1>2. Cardinality(Opening') = Cardinality(Opening) + 1
    <2>1. Opens(tx) /\ Submit(tx)
      BY DEF OpenNewChannel, Opens
    <2> HIDE DEF tx
    <2>2. QED
      BY <1>1, <2>1, SubmitCount
  <1>3. WillOpen(attempt[c]) /\ HasOpened(a) /\ ~WillOpen(a) /\ ~HasOpened(attempt[c])
    BY Types DEF OpenNewChannel, FilterChannels, WillOpen, HasOpened, Attempt
  <1>4. Become(c, a) /\ opened' = opened /\ abandoned' = abandoned
    BY DEF OpenNewChannel, ledgerVars
  <1> HIDE DEF a, tx
  <1>5. \A d \in Clients : attempt'[d] = IF d = c THEN a ELSE attempt[d]
    BY <1>4 DEF Become, IInv, TypeOK
  <1>6. Willing' = Willing \ {c} /\ c \in Willing
    BY <1>3, <1>5 DEF Willing
  <1>7. Waiting' = Waiting \cup {c} /\ c \notin Waiting
    BY <1>3, <1>5 DEF Waiting
  <1>8. /\ Cardinality(Willing') = Cardinality(Willing) - 1
        /\ Cardinality(Waiting') = Cardinality(Waiting) + 1
    BY <1>6, <1>7, Counts, FS_RemoveElement, FS_AddElement
  <1>9. /\ Cardinality(Opening) \in Nat /\ Cardinality(Willing) \in Nat
        /\ Cardinality(Waiting) \in Nat /\ Cardinality(Clients) \in Nat
        /\ opened \in Nat /\ abandoned \in Nat
    BY Counts
  <1>10. QED
    BY <1>2, <1>4, <1>8, <1>9 DEF OpenedInv

\* A transaction on the channel an attempt has found opens none.
LEMMA OpenedTopUp ==
    ASSUME IInv, OpenedInv, NEW c \in Clients, DepositMissing(c) \/ AdjustChannel(c)
    PROVE  OpenedInv'
  <1>1. attempt[c] \in Attempt /\ AttemptShape(attempt[c])
    BY Types
  <1>2. attempt[c].seen # 0 /\ attempt[c].pc # "idle"
    BY <1>1 DEF DepositMissing, AdjustChannel, FilterChannels, AttemptShape
  <1>3. \A kind \in TxKind, id \in {0, attempt[c].seen} :
          [kind |-> kind, id |-> id, amount |-> TopUpAmount(c),
           exp |-> NewExpiration(c), born |-> attempt[c].start] \in Tx
    <2>1. TopUpAmount(c) \in Nat /\ NewExpiration(c) \in Nat /\ attempt[c].start \in Nat
      BY <1>2, TopUpAmountType, NewExpirationType
    <2>2. attempt[c].seen \in ChanId \cup {0}
      BY <1>1 DEF Attempt
    <2>3. QED
      BY <2>1, <2>2 DEF Tx
  <1>4. PICK tx \in Tx : Submit(tx) /\ ~Opens(tx)
    <2>1. CASE DepositMissing(c)
      BY <1>3, <2>1 DEF DepositMissing, Opens, TxKind
    <2>2. CASE AdjustChannel(c)
      <3> DEFINE kind == IF NeedFunds(c) /\ NeedExtend(c) THEN "extendAdd"
                         ELSE IF NeedFunds(c) THEN "add" ELSE "extend"
      <3>1. Submit([kind |-> kind, id |-> attempt[c].seen, amount |-> TopUpAmount(c),
                    exp |-> NewExpiration(c), born |-> attempt[c].start])
        BY <2>2 DEF AdjustChannel
      <3>2. kind \in TxKind /\ kind \notin {"open", "depositOpen"}
        BY DEF TxKind
      <3> HIDE DEF kind
      <3>3. QED
        BY <1>3, <3>1, <3>2 DEF Opens
    <2>3. QED
      BY <2>1, <2>2
  <1>5. /\ opened' = opened /\ abandoned' = abandoned
        /\ Cardinality(Opening') = Cardinality(Opening)
    BY <1>4, SubmitCount DEF DepositMissing, AdjustChannel, ledgerVars
  <1>6. PICK a : Become(c, a) /\ a.seen # 0
    <2>1. CASE DepositMissing(c)
      <3> DEFINE b == [attempt[c] EXCEPT !.pc = "waitDeposit", !.await = {"deposit"}]
      <3>1. Become(c, b) /\ b.seen # 0
        BY <1>1, <1>2, <2>1 DEF DepositMissing, Attempt
      <3> HIDE DEF b
      <3>2. QED
        BY <3>1
    <2>2. CASE AdjustChannel(c)
      <3> DEFINE b == [attempt[c] EXCEPT !.pc = "wait",
                        !.await = (IF NeedFunds(c) THEN {"add"} ELSE {})
                                  \cup (IF NeedExtend(c) THEN {"extend"} ELSE {}),
                        !.id = attempt[c].seen]
      <3>1. Become(c, b) /\ b.seen # 0
        BY <1>1, <1>2, <2>2 DEF AdjustChannel, Attempt
      <3> HIDE DEF b
      <3>2. QED
        BY <3>1
    <2>3. QED
      BY <2>1, <2>2
  <1>7. \A d \in Clients : attempt'[d] = IF d = c THEN a ELSE attempt[d]
    BY <1>6 DEF Become, IInv, TypeOK
  <1>8. Willing' = Willing /\ Waiting' = Waiting
    BY <1>2, <1>6, <1>7 DEF Willing, Waiting, WillOpen, HasOpened
  <1>9. QED
    BY <1>5, <1>8 DEF OpenedInv

\* What mining takes from the opening transactions of the mempool.
LEMMA MineCount ==
    ASSUME IInv, mempool # <<>>, mempool' = Tail(mempool)
    PROVE  Cardinality(Opening') = IF Opens(Head(mempool)) THEN Cardinality(Opening) - 1
                                   ELSE Cardinality(Opening)
  <1> DEFINE n == Len(mempool)
             f == [k \in Opening \ {1} |-> k - 1]
  <1>1. mempool \in Seq(Tx) /\ n \in Nat /\ n # 0
    BY DEF IInv, TypeOK, LedgerTypeOK
  <1>2. /\ Len(mempool') = n - 1 /\ mempool[1] = Head(mempool)
        /\ \A k \in 1..(n - 1) : mempool'[k] = mempool[k + 1]
    BY <1>1
  <1>3. Opening' = {k \in 1..(n - 1) : Opens(mempool[k + 1])}
    BY <1>2 DEF Opening, Opens
  <1>4. Opening = {k \in 1..n : Opens(mempool[k])}
    BY DEF Opening
  <1> HIDE DEF n
  <1>5. \A k \in Opening \ {1} : k \in Nat /\ k - 1 \in Opening'
    BY <1>1, <1>3, <1>4
  <1>6. \A k \in Opening' : k + 1 \in Opening \ {1} /\ (k + 1) - 1 = k
    BY <1>1, <1>3, <1>4
  <1>7. f \in Bijection(Opening \ {1}, Opening')
    <2>1. f \in [Opening \ {1} -> Opening']
      BY <1>5
    <2>2. \A k, l \in Opening \ {1} : f[k] = f[l] => k = l
      BY <1>5
    <2>3. \A k \in Opening' : \E l \in Opening \ {1} : f[l] = k
      BY <1>6
    <2> HIDE DEF f
    <2>4. QED
      BY <2>1, <2>2, <2>3 DEF Bijection, Injection, Surjection, IsInjective
  <1>8. IsFiniteSet(Opening \ {1})
    BY Counts, FS_RemoveElement
  <1>9. Cardinality(Opening') = Cardinality(Opening \ {1})
    BY <1>7, <1>8, FS_Bijection DEF ExistsBijection
  <1>10. 1 \in Opening <=> Opens(Head(mempool))
    BY <1>1, <1>2, <1>4
  <1>11. QED
    BY <1>9, <1>10, Counts, FS_RemoveElement

LEMMA OpenedMine == ASSUME IInv, OpenedInv, Mine PROVE OpenedInv'
  <1> DEFINE tx == Head(mempool)
  <1>1. mempool # <<>> /\ mempool' = Tail(mempool) /\ mempool \in Seq(Tx)
    BY DEF Mine, IInv, TypeOK, LedgerTypeOK
  <1>2. Cardinality(Opening') = IF Opens(tx) THEN Cardinality(Opening) - 1
                                ELSE Cardinality(Opening)
    BY <1>1, MineCount
  <1>3. opened' = opened \/ (Opens(tx) /\ opened' = opened + 1)
    BY DEF Mine, Apply, ledgerVars
  <1>4. Willing' = Willing /\ Waiting' = Waiting /\ abandoned' = abandoned
    BY MineKeeps DEF Willing, Waiting, WillOpen, HasOpened
  <1> HIDE DEF tx
  <1>5. /\ Cardinality(Opening) \in Nat /\ Cardinality(Willing) \in Nat
        /\ Cardinality(Waiting) \in Nat /\ Cardinality(Clients) \in Nat
        /\ opened \in Nat /\ abandoned \in Nat
        /\ Cardinality(Willing) + Cardinality(Waiting) <= Cardinality(Clients)
    BY Counts
  <1>6. QED
    BY <1>2, <1>3, <1>4, <1>5 DEF OpenedInv

LEMMA StepOpened == ASSUME IInv, OpenedInv, [Next]_vars PROVE OpenedInv'
  <1>1. ASSUME NEW c \in Clients, Begin(c) \/ ClientStep(c) \/ Fail(c) \/ SubscribeFails(c) \/ Discard(c)
        PROVE  OpenedInv'
    BY <1>1, OpenedAttemptSteps, OpenedOpenNewChannel, OpenedTopUp DEF ClientStep
  <1>2. CASE Mine
    BY <1>2, OpenedMine
  <1>3. ASSUME UNCHANGED <<opened, mempool, attempt, abandoned>> PROVE OpenedInv'
    BY <1>3 DEF OpenedInv, Opening, Opens, Willing, Waiting, WillOpen, HasOpened
  <1>4. ASSUME NEW c \in Clients, Serve(c) PROVE OpenedInv'
    BY <1>3, <1>4 DEF Serve, chainVars, ledgerVars
  <1>5. ASSUME NEW i \in ChanId, StartClaim(i) \/ FinishClaim(i) PROVE OpenedInv'
    BY <1>3, <1>5 DEF StartClaim, FinishClaim, chainVars, ledgerVars
  <1>6. CASE Tick \/ UNCHANGED vars
    BY <1>3, <1>6 DEF Tick, vars, chainVars, ledgerVars
  <1>7. QED
    BY <1>1, <1>2, <1>4, <1>5, <1>6 DEF Next

LEMMA OpenedMeans == IInv /\ OpenedInv => ChannelsBounded
  BY Counts DEF OpenedInv, ChannelsBounded

\* However many attempts run at once, and however their transactions are delayed,
\* rejected or given up: EnsurePaymentChannel opens at most one channel per
\* concurrent client, and one more for every attempt that was abandoned.
THEOREM FewChannelsOpened == Spec => []ChannelsBounded
  <1>1. Init => OpenedInv
    BY OpenedInit
  <1>2. IInv /\ OpenedInv /\ [Next]_vars => OpenedInv'
    BY StepOpened
  <1>3. IInv /\ OpenedInv => ChannelsBounded
    BY OpenedMeans
  <1>4. QED
    BY <1>1, <1>2, <1>3, AlwaysIInv, PTL DEF Spec

-----------------------------------------------------------------------------
(* What a returned channel is worth, for metadata that announces one     *)
(* price and one threshold (the runs show what happens when it does not).  *)
(*                                                                         *)
(* Funds.  Every amount in the system is zero or at least one price, so    *)
(* any AddFunds transaction, whoever sent it, adds at least one price.     *)

FundsAttempt(a, p) ==
    /\ a.pc # "idle" => a.price = p
    /\ a.signed = 0 \/ a.signed >= p
    /\ a.seen = 0 => a.signed = 0
    /\ a.seen # 0 /\ Unclaimed(a.seen) => a.signed <= value[a.seen]
    /\ "add" \in a.got /\ Unclaimed(a.seen) => value[a.seen] >= a.signed + p
    /\ a.pc = "wait" /\ a.seen # 0 /\ "add" \notin a.await => a.signed = 0
    /\ a.pc = "ready" /\ Unclaimed(a.id) => value[a.id] >= a.signed + p

FundsTx(tx, p) ==
    /\ Opens(tx) => tx.amount = p
    /\ tx.kind \in {"add", "extendAdd"} => tx.amount >= p

FundsChannel(i, p) ==
    /\ openEvent[i].amount = p
    /\ Unclaimed(i) => value[i] >= p

FundsInv(p) ==
    /\ \A c \in Clients : FundsAttempt(attempt[c], p)
    /\ \A k \in 1..Len(mempool) : FundsTx(mempool[k], p)
    /\ \A i \in 1..opened : FundsChannel(i, p)
    /\ \A i \in ChanId : dSigned[i] = 0 \/ dSigned[i] >= p

-----------------------------------------------------------------------------
(* Preservation of FundsInv. *)

LEMMA FundsInit == ASSUME NEW p, Init PROVE FundsInv(p)
  BY DEF Init, LedgerInit, FundsInv, FundsAttempt, NoAttempt

LEMMA FundsLocal ==
    ASSUME NEW p, FundsInv(p), IInv, NEW c \in Clients, NEW a \in Attempt,
           FundsAttempt(a, p), Become(c, a), UNCHANGED <<chainVars, daemonVars>>
    PROVE  FundsInv(p)'
  BY DEF FundsInv, FundsAttempt, FundsTx, FundsChannel, Unclaimed, Opens, Become, chainVars,
         ledgerVars, daemonVars, IInv, TypeOK

LEMMA FundsSubmit ==
    ASSUME NEW p, FundsInv(p), IInv, NEW c \in Clients, NEW a \in Attempt,
           FundsAttempt(a, p), Become(c, a), NEW tx \in Tx, FundsTx(tx, p), Submit(tx),
           UNCHANGED <<ledgerVars, height, abandoned, daemonVars>>
    PROVE  FundsInv(p)'
  <1>1. mempool \in Seq(Tx)
    BY DEF IInv, TypeOK, LedgerTypeOK
  <1>2. \A k \in 1..Len(mempool') : FundsTx(mempool'[k], p)
    <2> SUFFICES ASSUME NEW k \in 1..Len(mempool') PROVE FundsTx(mempool'[k], p)
      OBVIOUS
    <2>1. CASE k \in 1..Len(mempool)
      BY <1>1, <2>1 DEF FundsInv, Submit
    <2>2. CASE k = Len(mempool) + 1
      BY <1>1, <2>2 DEF Submit
    <2>3. QED
      BY <1>1, <2>1, <2>2 DEF Submit
  <1>3. (\A k \in 1..Len(mempool) : FundsTx(mempool[k], p))'
    BY <1>2 DEF FundsTx, Opens
  <1>4. /\ (\A d \in Clients : FundsAttempt(attempt[d], p))'
        /\ (\A i \in 1..opened : FundsChannel(i, p))'
        /\ (\A i \in ChanId : dSigned[i] = 0 \/ dSigned[i] >= p)'
    BY DEF FundsInv, FundsAttempt, FundsChannel, Unclaimed, Become, ledgerVars, daemonVars,
           IInv, TypeOK
  <1>5. QED
    BY <1>3, <1>4 DEF FundsInv

LEMMA FundsNoAttempt == ASSUME NEW p PROVE FundsAttempt(NoAttempt, p)
  BY DEF FundsAttempt, NoAttempt

LEMMA FundsBegin ==
    ASSUME NEW p, Prices = {p}, FundsInv(p), IInv, NEW c \in Clients, Begin(c)
    PROVE  FundsInv(p)'
  <1>1. PICK t \in Thresholds :
          Become(c, [NoAttempt EXCEPT
                       !.pc = IF opened = 0 THEN "ensure" ELSE "query",
                       !.start = height, !.price = p, !.threshold = t,
                       !.seen = opened, !.filtered = opened, !.escrow = escrow])
    BY DEF Begin
  <1> DEFINE a == [NoAttempt EXCEPT
                       !.pc = IF opened = 0 THEN "ensure" ELSE "query",
                       !.start = height, !.price = p, !.threshold = t,
                       !.seen = opened, !.filtered = opened, !.escrow = escrow]
  <1>2. a.pc \in {"ensure", "query"} /\ a.price = p /\ a.signed = 0 /\ a.got = {} /\ a.seen = opened
    BY DEF NoAttempt
  <1>3. a \in Attempt
    <2>1. opened \in ChanId \cup {0} /\ height \in Nat /\ escrow \in Nat
      BY Types, ConstantTypes DEF IInv, TypeOK, LedgerTypeOK, ChanId
    <2>2. (IF opened = 0 THEN "ensure" ELSE "query") \in PC
      BY DEF PC
    <2>3. QED
      BY <2>1, <2>2, NoAttemptType DEF Attempt
  <1>4. FundsAttempt(a, p)
    <2>1. opened # 0 => value[opened] \in Nat
      BY Types, ConstantTypes DEF ChanId
    <2> HIDE DEF a
    <2>2. QED
      BY <1>2, <2>1, Types DEF FundsAttempt
  <1>5. Become(c, a) /\ UNCHANGED <<chainVars, daemonVars>>
    BY <1>1 DEF Begin
  <1> HIDE DEF a
  <1>6. QED
    BY <1>3, <1>4, <1>5, FundsLocal

LEMMA FundsDaemonReplies ==
    ASSUME NEW p, p \in Nat, FundsInv(p), IInv, NEW c \in Clients, DaemonReplies(c)
    PROVE  FundsInv(p)'
  <1> DEFINE i == attempt[c].seen
             a == [attempt[c] EXCEPT !.pc = "ensure", !.signed = dSigned[i],
                                     !.nonce = dNonce[i]]
  <1>1. attempt[c] \in Attempt /\ AttemptShape(attempt[c]) /\ attempt[c].pc = "query"
    BY Types DEF DaemonReplies
  <1>2. i \in ChanId /\ attempt[c].got = {}
    BY <1>1 DEF AttemptShape, Attempt
  <1>3. /\ dSigned[i] \in Nat /\ dNonce[i] \in Nat /\ inClaim[i] \in Nat
        /\ value[i] \in Nat /\ dSigned[i] + inClaim[i] <= value[i]
        /\ dSigned[i] = 0 \/ dSigned[i] >= p
    BY <1>2, Types DEF IInv, Shape, DaemonCovered, FundsInv
  <1>4. a \in Attempt
    BY <1>1, <1>3 DEF Attempt, PC
  <1>5. /\ a.pc = "ensure" /\ a.price = attempt[c].price /\ a.signed = dSigned[i]
        /\ a.seen = i /\ a.got = {}
    BY <1>1, <1>2 DEF Attempt
  <1>6. attempt[c].price = p
    BY <1>1 DEF FundsInv, FundsAttempt
  <1>7. Become(c, a) /\ UNCHANGED <<chainVars, daemonVars>>
    BY DEF DaemonReplies
  <1> HIDE DEF a
  <1>8. FundsAttempt(a, p)
    <2>1. i # 0
      BY <1>2 DEF ChanId
    <2>2. dSigned[i] <= value[i]
      BY <1>3
    <2> HIDE DEF i
    <2>3. QED
      BY <1>3, <1>5, <1>6, <2>1, <2>2 DEF FundsAttempt
  <1>9. QED
    BY <1>4, <1>7, <1>8, FundsLocal

LEMMA FundsDaemonNotFound ==
    ASSUME NEW p, FundsInv(p), IInv, NEW c \in Clients, DaemonNotFound(c)
    PROVE  FundsInv(p)'
  <1> DEFINE a == [attempt[c] EXCEPT !.pc = "ensure", !.filtered = 0]
  <1>1. /\ attempt[c] \in Attempt /\ AttemptShape(attempt[c])
        /\ attempt[c].pc = "query" /\ FundsAttempt(attempt[c], p)
    BY Types DEF DaemonNotFound, FundsInv
  <1>2. a \in Attempt
    BY <1>1 DEF Attempt, PC
  <1>3. FundsAttempt(a, p)
    BY <1>1 DEF FundsAttempt, Attempt
  <1>4. Become(c, a) /\ UNCHANGED <<chainVars, daemonVars>>
    BY DEF DaemonNotFound
  <1> HIDE DEF a
  <1>5. QED
    BY <1>2, <1>3, <1>4, FundsLocal

LEMMA FundsDrop ==
    ASSUME NEW p, FundsInv(p), IInv, NEW c \in Clients, Fail(c) \/ Abandon(c) \/ Discard(c)
    PROVE  FundsInv(p)'
  BY NoAttemptType, FundsNoAttempt, FundsLocal DEF Fail, Abandon, Discard

LEMMA FundsSubscribeFails ==
    ASSUME NEW p, FundsInv(p), IInv, NEW c \in Clients, SubscribeFails(c)
    PROVE  FundsInv(p)'
  <1>1. attempt[c].price = p
    BY StuckStep DEF FundsInv, FundsAttempt
  <1>2. FundsAttempt(Stuck(c), p)
    BY <1>1, StuckFields DEF FundsAttempt
  <1>3. QED
    BY <1>2, StuckFields, StuckStep, FundsLocal

\* The amount the ChannelOpen event tells is one price, so funds are needed
\* exactly when something was signed already.
LEMMA NeedFundsMeaning ==
    ASSUME NEW p, p \in Nat, FundsInv(p), IInv, NEW c \in Clients,
           attempt[c].pc # "idle", attempt[c].seen # 0
    PROVE  /\ attempt[c].seen \in 1..opened /\ attempt[c].signed \in Nat
           /\ attempt[c].price = p
           /\ NeedFunds(c) <=> attempt[c].signed # 0
           /\ TopUpAmount(c) = attempt[c].signed
  <1>1. attempt[c].seen \in 1..opened
    BY Types DEF AttemptShape
  <1>2. openEvent[attempt[c].seen].amount = p
    BY <1>1 DEF FundsInv, FundsChannel
  <1>3. attempt[c].price = p /\ attempt[c].signed \in Nat
    BY Types, AttemptFields DEF FundsInv, FundsAttempt
  <1>4. NeedFunds(c) <=> attempt[c].signed # 0
    BY <1>2, <1>3 DEF NeedFunds
  <1>5. QED
    BY <1>1, <1>2, <1>3, <1>4 DEF TopUpAmount

LEMMA FundsReuse ==
    ASSUME NEW p, p \in Nat, FundsInv(p), IInv, NEW c \in Clients, Reuse(c)
    PROVE  FundsInv(p)'
  <1> DEFINE i == attempt[c].seen
             a == [attempt[c] EXCEPT !.pc = "ready", !.id = i, !.escrow = 0]
  <1>1. /\ attempt[c] \in Attempt /\ AttemptShape(attempt[c]) /\ FundsAttempt(attempt[c], p)
        /\ attempt[c].pc = "ensure" /\ i # 0 /\ ~NeedFunds(c)
    BY Types DEF Reuse, FilterChannels, FundsInv
  <1>2. /\ i \in 1..opened /\ attempt[c].price = p /\ attempt[c].signed = 0
    BY <1>1, NeedFundsMeaning
  <1>3. Unclaimed(i) => value[i] >= p
    BY <1>2 DEF FundsInv, FundsChannel
  <1>4. a \in Attempt
    BY <1>1 DEF Attempt, PC
  <1>5. /\ a.pc = "ready" /\ a.price = p /\ a.signed = 0 /\ a.seen = i /\ a.id = i
        /\ a.got = attempt[c].got
    BY <1>1, <1>2 DEF Attempt
  <1>6. Become(c, a) /\ UNCHANGED <<chainVars, daemonVars>>
    BY DEF Reuse
  <1> HIDE DEF a
  <1>7. FundsAttempt(a, p)
    BY <1>1, <1>2, <1>3, <1>5 DEF FundsAttempt
  <1>8. QED
    BY <1>4, <1>6, <1>7, FundsLocal

LEMMA FundsDepositSeen ==
    ASSUME NEW p, FundsInv(p), IInv, NEW c \in Clients, DepositSeen(c)
    PROVE  FundsInv(p)'
  <1> DEFINE a == [attempt[c] EXCEPT !.pc = "topUp", !.await = {}, !.got = {}]
  <1>1. /\ attempt[c] \in Attempt /\ FundsAttempt(attempt[c], p)
        /\ attempt[c].pc = "waitDeposit"
    BY Types DEF DepositSeen, FundsInv
  <1>2. a \in Attempt
    BY <1>1 DEF Attempt, PC
  <1>3. FundsAttempt(a, p)
    BY <1>1 DEF FundsAttempt, Attempt
  <1>4. Become(c, a) /\ UNCHANGED <<chainVars, daemonVars>>
    BY DEF DepositSeen
  <1> HIDE DEF a
  <1>5. QED
    BY <1>2, <1>3, <1>4, FundsLocal

\* All awaited events are there, so either the channel is new, or an AddFunds
\* transaction was mined since the attempt subscribed, or none was needed.
LEMMA FundsFinish ==
    ASSUME NEW p, p \in Nat, FundsInv(p), IInv, NEW c \in Clients, Finish(c)
    PROVE  FundsInv(p)'
  <1> DEFINE b == attempt[c]
             a == [b EXCEPT !.pc = "ready", !.escrow = 0, !.await = {}, !.got = {}]
  <1>1. /\ b \in Attempt /\ AttemptShape(b) /\ FundsAttempt(b, p)
        /\ b.pc = "wait" /\ b.await \subseteq b.got
    BY Types DEF Finish, FundsInv
  <1>2. b.price = p /\ b.signed \in Nat
    BY <1>1, AttemptFields DEF FundsAttempt
  <1>3. \A i \in 1..opened : Unclaimed(i) => value[i] >= p
    BY DEF FundsInv, FundsChannel
  <1>4. Unclaimed(b.id) => value[b.id] >= b.signed + p
    <2>1. CASE b.seen = 0
      <3>1. "open" \in b.got /\ b.signed = 0
        BY <1>1, <2>1 DEF AttemptShape, FundsAttempt
      <3>2. b.id \in 1..opened
        BY <1>1, <3>1 DEF AttemptShape
      <3>3. QED
        BY <1>3, <3>1, <3>2, Types DEF Unclaimed
    <2>2. CASE b.seen # 0 /\ "add" \in b.await
      BY <1>1, <2>2 DEF AttemptShape, FundsAttempt
    <2>3. CASE b.seen # 0 /\ "add" \notin b.await
      <3>1. b.signed = 0 /\ b.id = b.seen /\ b.seen \in 1..opened
        BY <1>1, <2>3, Types DEF AttemptShape, FundsAttempt
      <3>2. QED
        BY <1>3, <3>1, Types DEF Unclaimed
    <2>4. QED
      BY <2>1, <2>2, <2>3
  <1>5. a \in Attempt
    BY <1>1 DEF Attempt, PC
  <1>6. /\ a.pc = "ready" /\ a.price = b.price /\ a.signed = b.signed
        /\ a.seen = b.seen /\ a.id = b.id /\ a.got = {}
    BY <1>1 DEF Attempt
  <1>7. Become(c, a) /\ UNCHANGED <<chainVars, daemonVars>>
    BY DEF Finish
  <1> HIDE DEF a, b
  <1>8. FundsAttempt(a, p)
    BY <1>1, <1>2, <1>4, <1>6 DEF FundsAttempt
  <1>9. QED
    BY <1>5, <1>7, <1>8, FundsLocal

LEMMA FundsOpenNewChannel ==
    ASSUME NEW p, p \in Nat, FundsInv(p), IInv, NEW c \in Clients, OpenNewChannel(c)
    PROVE  FundsInv(p)'
  <1> DEFINE b == attempt[c]
             direct == b.escrow >= b.price
             tx == [kind |-> IF direct THEN "open" ELSE "depositOpen", id |-> 0,
                    amount |-> b.price, exp |-> NewExpiration(c), born |-> b.start]
             await == IF direct THEN {"open"} ELSE {"open", "deposit"}
             a == [b EXCEPT !.pc = "wait", !.await = await]
  <1>1. /\ b \in Attempt /\ AttemptShape(b) /\ FundsAttempt(b, p)
        /\ b.pc = "ensure" /\ b.seen = 0
    BY Types DEF OpenNewChannel, FilterChannels, FundsInv
  <1>2. b.price = p
    BY <1>1 DEF FundsAttempt
  <1>3. tx \in Tx
    <2>1. NewExpiration(c) \in Nat /\ b.start \in Nat /\ b.price \in Nat
      BY <1>1, AttemptFields, NewExpirationType
    <2>2. QED
      BY <2>1 DEF Tx, TxKind
  <1>4. FundsTx(tx, p)
    BY <1>2 DEF FundsTx
  <1>5. a \in Attempt
    <2>1. await \in SUBSET Event
      BY DEF Event
    <2> HIDE DEF await, b
    <2>2. QED
      BY <1>1, <2>1 DEF Attempt, PC
  <1>6. FundsAttempt(a, p)
    <2>1. /\ a.pc = "wait" /\ a.price = b.price /\ a.signed = b.signed
          /\ a.seen = 0 /\ a.got = b.got
      BY <1>1 DEF Attempt
    <2>2. b.got = {}
      BY <1>1 DEF AttemptShape
    <2> HIDE DEF a
    <2>3. QED
      BY <1>1, <2>1, <2>2 DEF FundsAttempt
  <1>7. /\ Become(c, a) /\ Submit(tx)
        /\ UNCHANGED <<ledgerVars, height, abandoned, daemonVars>>
    BY DEF OpenNewChannel
  <1> HIDE DEF a, tx
  <1>8. QED
    BY <1>3, <1>4, <1>5, <1>6, <1>7, FundsSubmit

LEMMA FundsDepositMissing ==
    ASSUME NEW p, FundsInv(p), IInv, NEW c \in Clients, DepositMissing(c)
    PROVE  FundsInv(p)'
  <1> DEFINE tx == [kind |-> "deposit", id |-> 0, amount |-> TopUpAmount(c),
                    exp |-> NewExpiration(c), born |-> attempt[c].start]
             a == [attempt[c] EXCEPT !.pc = "waitDeposit", !.await = {"deposit"}]
  <1>1. /\ attempt[c] \in Attempt /\ FundsAttempt(attempt[c], p)
        /\ attempt[c].pc = "ensure" /\ attempt[c].seen # 0
    BY Types DEF DepositMissing, FilterChannels, FundsInv
  <1>2. tx \in Tx
    <2>1. TopUpAmount(c) \in Nat /\ NewExpiration(c) \in Nat /\ attempt[c].start \in Nat
      BY <1>1, TopUpAmountType, NewExpirationType
    <2>2. QED
      BY <2>1 DEF Tx, TxKind
  <1>3. FundsTx(tx, p)
    BY DEF FundsTx, Opens
  <1>4. a \in Attempt
    BY <1>1 DEF Attempt, PC, Event
  <1>5. FundsAttempt(a, p)
    BY <1>1 DEF FundsAttempt, Attempt
  <1>6. /\ Become(c, a) /\ Submit(tx)
        /\ UNCHANGED <<ledgerVars, height, abandoned, daemonVars>>
    BY DEF DepositMissing
  <1> HIDE DEF a, tx
  <1>7. QED
    BY <1>2, <1>3, <1>4, <1>5, <1>6, FundsSubmit

LEMMA FundsAdjustChannel ==
    ASSUME NEW p, p \in Nat, FundsInv(p), IInv, NEW c \in Clients, AdjustChannel(c)
    PROVE  FundsInv(p)'
  <1> DEFINE b == attempt[c]
             kind == IF NeedFunds(c) /\ NeedExtend(c) THEN "extendAdd"
                     ELSE IF NeedFunds(c) THEN "add" ELSE "extend"
             tx == [kind |-> kind, id |-> b.seen, amount |-> TopUpAmount(c),
                    exp |-> NewExpiration(c), born |-> b.start]
             await == (IF NeedFunds(c) THEN {"add"} ELSE {})
                      \cup (IF NeedExtend(c) THEN {"extend"} ELSE {})
             a == [b EXCEPT !.pc = "wait", !.await = await, !.id = b.seen]
  <1>1. /\ b \in Attempt /\ AttemptShape(b) /\ FundsAttempt(b, p)
        /\ b.pc \in {"ensure", "topUp"} /\ b.seen # 0 /\ b.got = {}
    <2>1. b \in Attempt /\ AttemptShape(b) /\ FundsAttempt(b, p)
      BY Types DEF FundsInv
    <2>2. b.pc \in {"ensure", "topUp"} /\ b.seen # 0
      BY <2>1 DEF AdjustChannel, FilterChannels, AttemptShape
    <2>3. QED
      BY <2>1, <2>2 DEF AttemptShape
  <1>2. /\ b.seen \in 1..opened /\ b.signed \in Nat /\ b.price = p
        /\ NeedFunds(c) <=> b.signed # 0
        /\ TopUpAmount(c) = b.signed
    BY <1>1, NeedFundsMeaning
  <1>3. tx \in Tx
    <2>1. NewExpiration(c) \in Nat /\ b.start \in Nat
      BY <1>1, NewExpirationType
    <2>2. kind \in TxKind
      BY DEF TxKind
    <2>3. b.seen \in ChanId \cup {0}
      BY <1>1, AttemptFields
    <2> HIDE DEF kind
    <2>4. QED
      BY <1>2, <2>1, <2>2, <2>3 DEF Tx
  <1>4. FundsTx(tx, p)
    <2>1. kind \in {"add", "extendAdd"} => b.signed >= p
      BY <1>1, <1>2 DEF FundsAttempt
    <2>2. kind \notin {"open", "depositOpen"}
      OBVIOUS
    <2> HIDE DEF kind
    <2>3. QED
      BY <1>2, <2>1, <2>2 DEF FundsTx, Opens
  <1>5. await \in SUBSET Event /\ ("add" \notin await => b.signed = 0)
    BY <1>2 DEF Event
  <1>6. /\ Become(c, a) /\ Submit(tx)
        /\ UNCHANGED <<ledgerVars, height, abandoned, daemonVars>>
    BY DEF AdjustChannel
  <1> HIDE DEF await
  <1>7. a \in Attempt
    BY <1>1, <1>5 DEF Attempt, PC
  <1>8. FundsAttempt(a, p)
    <2>1. /\ a.pc = "wait" /\ a.price = b.price /\ a.signed = b.signed
          /\ a.seen = b.seen /\ a.got = b.got /\ a.await = await
      BY <1>1 DEF Attempt
    <2> HIDE DEF a
    <2>2. QED
      BY <1>1, <1>2, <1>5, <2>1 DEF FundsAttempt
  <1> HIDE DEF a, tx
  <1>9. QED
    BY <1>3, <1>4, <1>6, <1>7, <1>8, FundsSubmit

\* A mined transaction only adds to channels; one that emits an AddFunds event
\* adds at least a price to the channel it names.
LEMMA FundsMine ==
    ASSUME NEW p, p \in Nat, FundsInv(p), IInv, Mine
    PROVE  FundsInv(p)'
  <1> DEFINE tx == Head(mempool)
  <1>1. /\ mempool # <<>> /\ mempool \in Seq(Tx) /\ mempool' = Tail(mempool)
        /\ UNCHANGED <<height, abandoned, daemonVars>>
    BY DEF Mine, IInv, TypeOK, LedgerTypeOK
  <1>2. /\ tx \in Tx /\ FundsTx(tx, p)
        /\ Opens(tx) \/ tx.kind = "deposit" \/ tx.id \in 1..opened
    BY <1>1 DEF IInv, Shape, MempoolShape, FundsInv
  <1>3. \A k \in 1..Len(mempool') : mempool'[k] = mempool[k + 1] /\ k + 1 \in 1..Len(mempool)
    BY <1>1
  <1>4. \A k \in 1..Len(mempool') : FundsTx(mempool'[k], p)
    BY <1>3 DEF FundsInv
  <1>5. dNonce' = dNonce /\ dSigned' = dSigned
    BY <1>1 DEF daemonVars
  <1> HIDE DEF tx
  <1>6. CASE Accepted(tx) /\ Apply(tx) /\ attempt' = [c \in Clients |-> Delivered(c, tx)]
    <2>1. /\ opened' = IF Opens(tx) THEN opened + 1 ELSE opened
          /\ value' \in [ChanId -> Nat] /\ opened' \in 0..MaxChannels
          /\ \A i \in ChanId : value[i] <= value'[i]
          /\ \A i \in 1..opened : openEvent'[i] = openEvent[i]
      BY <1>2, <1>6, ApplyEffect
    <2>2. \A i \in 1..opened' : FundsChannel(i, p)'
      <3> SUFFICES ASSUME NEW i \in 1..opened' PROVE FundsChannel(i, p)'
        OBVIOUS
      <3>1. CASE i \in 1..opened
        <4>1. i \in ChanId /\ value[i] \in Nat /\ value'[i] \in Nat
          BY <2>1, <3>1, Types
        <4>2. QED
          BY <1>5, <2>1, <3>1, <4>1 DEF FundsInv, FundsChannel, Unclaimed
      <3>2. CASE Opens(tx) /\ i = opened + 1
        <4>1. i \in ChanId /\ tx.amount = p /\ Target(tx) = i
          BY <1>2, <2>1, <3>2, Types, ConstantTypes DEF FundsTx, Target, ChanId
        <4>2. /\ openEvent' = [openEvent EXCEPT ![i] =
                                [amount |-> tx.amount, expiration |-> tx.exp]]
              /\ value' = [value EXCEPT ![i] = @ + Locked(tx)]
          BY <1>6, <3>2, <4>1 DEF Apply, Opens
        <4>3. Locked(tx) = p /\ value[i] \in Nat
          BY <3>2, <4>1, Types DEF Locked, Opens
        <4>4. openEvent'[i].amount = p /\ value'[i] = value[i] + p
          BY <4>1, <4>2, <4>3 DEF IInv, TypeOK, LedgerTypeOK
        <4>5. QED
          BY <4>3, <4>4 DEF FundsChannel
      <3>3. QED
        BY <2>1, <3>1, <3>2, Types
    <2>3. ASSUME NEW c \in Clients PROVE FundsAttempt(attempt[c], p)'
      <3> DEFINE b == attempt[c]
                 n == attempt'[c]
      <3>1. b \in Attempt /\ AttemptShape(b) /\ FundsAttempt(b, p)
        BY Types DEF FundsInv
      <3>2. /\ n.pc = b.pc /\ n.price = b.price /\ n.signed = b.signed /\ n.seen = b.seen
            /\ n.await = b.await /\ n.got = b.got \cup Reaches(c, tx)
            /\ n.id = IF "open" \in Reaches(c, tx) \ b.got THEN opened + 1 ELSE b.id
        BY <1>6, <3>1 DEF Delivered, Attempt
      <3>3. b.signed \in Nat /\ b.seen \in ChanId \cup {0} /\ b.id \in ChanId \cup {0}
        BY <3>1, AttemptFields
      <3>4. b.pc = "ready" => n.id = b.id /\ b.id \in ChanId
        BY <3>1, <3>2, Types DEF AttemptShape, Reaches
      <3>5. b.seen # 0 => /\ value[b.seen] \in Nat /\ value'[b.seen] \in Nat
                          /\ value[b.seen] <= value'[b.seen]
        BY <2>1, <3>3, Types
      <3>6. "add" \in Reaches(c, tx) =>
              /\ tx.kind \in {"add", "extendAdd"} /\ tx.id = b.seen
              /\ tx.amount \in Nat /\ tx.amount >= p /\ b.seen \in 1..opened
        <4>1. "add" \in Reaches(c, tx) => tx.kind \in {"add", "extendAdd"} /\ tx.id = b.seen
          BY <1>2 DEF Reaches, EmittedBy, Tx, TxKind
        <4>2. QED
          BY <1>2, <4>1 DEF FundsTx, Opens, Tx
      <3>7. "add" \in Reaches(c, tx) => value'[b.seen] = value[b.seen] + tx.amount
        <4> SUFFICES ASSUME "add" \in Reaches(c, tx)
                     PROVE  value'[b.seen] = value[b.seen] + tx.amount
          OBVIOUS
        <4>1. value' = [value EXCEPT ![tx.id] = @ + tx.amount] /\ tx.id \in ChanId
          BY <1>6, <3>6, Types DEF Apply, Target, Opens, Locked
        <4>2. QED
          BY <3>6, <4>1 DEF IInv, TypeOK, LedgerTypeOK
      <3>8. "add" \in n.got /\ Unclaimed(b.seen) => value'[b.seen] >= b.signed + p
        <4> SUFFICES ASSUME "add" \in n.got, Unclaimed(b.seen)
                     PROVE  value'[b.seen] >= b.signed + p
          OBVIOUS
        <4>1. b.seen # 0
          BY <3>1, <3>2 DEF AttemptShape, Reaches
        <4>2. CASE "add" \in b.got
          BY <3>1, <3>3, <3>5, <4>1, <4>2 DEF FundsAttempt
        <4>3. CASE "add" \in Reaches(c, tx)
          BY <3>1, <3>3, <3>5, <3>6, <3>7, <4>1, <4>3 DEF FundsAttempt
        <4>4. QED
          BY <3>2, <4>2, <4>3
      <3>9. b.pc = "ready" /\ Unclaimed(b.id) => value'[b.id] >= b.signed + p
        BY <2>1, <3>1, <3>3, <3>4, Types DEF FundsAttempt
      <3>10. b.seen # 0 /\ Unclaimed(b.seen) => b.signed <= value'[b.seen]
        BY <3>1, <3>3, <3>5 DEF FundsAttempt
      <3> HIDE DEF b
      <3>11. QED
        BY <1>5, <3>1, <3>2, <3>4, <3>8, <3>9, <3>10 DEF FundsAttempt, Unclaimed
    <2>4. QED
      BY <1>4, <1>5, <2>2, <2>3 DEF FundsInv, FundsTx, Opens
  <1>7. CASE UNCHANGED <<ledgerVars, attempt>>
    BY <1>4, <1>5, <1>7
       DEF FundsInv, FundsAttempt, FundsTx, FundsChannel, Unclaimed, Opens, ledgerVars
  <1>8. QED
    BY <1>6, <1>7 DEF Mine, tx

LEMMA FundsServe ==
    ASSUME NEW p, p \in Nat, FundsInv(p), IInv, NEW c \in Clients, Serve(c)
    PROVE  FundsInv(p)'
  <1> DEFINE i == attempt[c].id
  <1>1. attempt[c].pc = "ready" /\ attempt[c].price = p
    BY DEF Serve, FundsInv, FundsAttempt
  <1>2. dSigned' = [dSigned EXCEPT ![i] = @ + p]
    BY <1>1 DEF Serve
  <1>3. \A j \in ChanId : dSigned'[j] = 0 \/ dSigned'[j] >= p
    <2> SUFFICES ASSUME NEW j \in ChanId PROVE dSigned'[j] = 0 \/ dSigned'[j] >= p
      OBVIOUS
    <2>1. dSigned[j] \in Nat /\ dSigned \in [ChanId -> Nat]
      BY DEF IInv, TypeOK
    <2>2. dSigned'[j] = IF j = i THEN dSigned[j] + p ELSE dSigned[j]
      BY <1>2, <2>1
    <2>3. QED
      BY <2>1, <2>2 DEF FundsInv
  <1>4. UNCHANGED <<chainVars, attempt, dNonce>>
    BY DEF Serve
  <1>5. QED
    BY <1>3, <1>4 DEF FundsInv, FundsAttempt, FundsTx, FundsChannel, Unclaimed, Opens,
                      chainVars, ledgerVars

LEMMA FundsStartClaim ==
    ASSUME NEW p, FundsInv(p), IInv, NEW i \in ChanId, StartClaim(i)
    PROVE  FundsInv(p)'
  <1>1. \A j : Unclaimed(j)' => Unclaimed(j)
    <2>1. dNonce \in [ChanId -> Nat] /\ dNonce' = [dNonce EXCEPT ![i] = @ + 1]
      BY DEF StartClaim, IInv, TypeOK
    <2>2. \A j : j # i => dNonce'[j] = dNonce[j]
      BY <2>1
    <2>3. dNonce'[i] # 0
      <3>1. dNonce[i] \in Nat /\ dNonce'[i] = dNonce[i] + 1
        BY <2>1
      <3>2. QED
        BY <3>1
    <2>4. QED
      BY <2>2, <2>3 DEF Unclaimed
  <1>2. \A j \in ChanId : dSigned'[j] = 0 \/ dSigned'[j] >= p
    BY DEF StartClaim, FundsInv, IInv, TypeOK
  <1>3. UNCHANGED <<chainVars, attempt>>
    BY DEF StartClaim
  <1>4. \A c \in Clients : FundsAttempt(attempt[c], p)'
    BY <1>1, <1>3 DEF FundsInv, FundsAttempt, chainVars, ledgerVars
  <1>5. QED
    BY <1>1, <1>2, <1>3, <1>4 DEF FundsInv, FundsTx, FundsChannel, Opens, chainVars, ledgerVars

\* Only a claim takes tokens out of a channel, and the daemon moved to the next
\* nonce before it.
LEMMA FundsFinishClaim ==
    ASSUME NEW p, FundsInv(p), IInv, NEW i \in ChanId, FinishClaim(i)
    PROVE  FundsInv(p)'
  <1>1. ~Unclaimed(i)
    BY DEF FinishClaim, IInv, TypeOK, Shape, DaemonCovered, Unclaimed
  <1>2. value' = [value EXCEPT ![i] = @ - inClaim[i]]
    BY DEF FinishClaim
  <1>3. \A j : Unclaimed(j) => value'[j] = value[j]
    BY <1>1, <1>2 DEF IInv, TypeOK, LedgerTypeOK
  <1>4. UNCHANGED <<opened, openEvent, mempool, attempt, dSigned, dNonce>>
    BY DEF FinishClaim
  <1>5. \A c \in Clients : FundsAttempt(attempt[c], p)'
    BY <1>3, <1>4 DEF FundsInv, FundsAttempt, Unclaimed
  <1>6. QED
    BY <1>3, <1>4, <1>5 DEF FundsInv, FundsTx, FundsChannel, Unclaimed, Opens

LEMMA StepFunds ==
    ASSUME NEW p, Prices = {p}, FundsInv(p), IInv, [Next]_vars
    PROVE  FundsInv(p)'
  <1>0. p \in Nat
    BY ConstantTypes
  <1>1. ASSUME NEW c \in Clients,
               Begin(c) \/ ClientStep(c) \/ Fail(c) \/ SubscribeFails(c) \/ Discard(c) \/ Serve(c)
        PROVE  FundsInv(p)'
    BY <1>0, <1>1, FundsBegin, FundsDaemonReplies, FundsDaemonNotFound, FundsOpenNewChannel,
       FundsReuse, FundsDepositMissing, FundsDepositSeen, FundsAdjustChannel, FundsFinish,
       FundsDrop, FundsSubscribeFails, FundsServe DEF ClientStep
  <1>2. CASE \E i \in ChanId : StartClaim(i) \/ FinishClaim(i)
    BY <1>2, FundsStartClaim, FundsFinishClaim
  <1>3. CASE Mine
    BY <1>0, <1>3, FundsMine
  <1>4. CASE Tick \/ UNCHANGED vars
    BY <1>4 DEF Tick, vars, chainVars, ledgerVars, daemonVars, FundsInv, FundsAttempt, FundsTx,
                FundsChannel, Unclaimed, Opens
  <1>5. QED
    BY <1>1, <1>2, <1>3, <1>4 DEF Next

\* With one announced price, a returned strategy whose channel was never claimed
\* from finds at least one price above the amount it signs from, whatever the
\* number of attempts at once and whoever's AddFunds event ended its waiting.
THEOREM FundsEnsured ==
    ASSUME NEW p, Prices = {p}
    PROVE  Spec => []EnsuredFunds
  <1>1. Init => FundsInv(p)
    BY FundsInit
  <1>2. IInv /\ FundsInv(p) /\ [Next]_vars => FundsInv(p)'
    BY StepFunds
  <1>3. FundsInv(p) => EnsuredFunds
    BY DEF FundsInv, FundsAttempt, EnsuredFunds, Ready
  <1>4. QED
    BY <1>1, <1>2, <1>3, AlwaysIInv, PTL DEF Spec

-----------------------------------------------------------------------------
(* Expiration.  A transaction asks for an expiration counted from the      *)
(* block its attempt started at, and is mined at most MaxDelay blocks      *)
(* after it; expirations only grow.                                        *)

FarEnough(i, a, t) == expiration[i] + MaxDelay >= a.start + t + Offset

ExpirationAttempt(a, t) ==
    /\ a.pc # "idle" => a.threshold = t /\ a.start <= height
    /\ a.pc \notin {"idle", "stuck", "ready"} => height <= a.start + Patience
    /\ "extend" \in a.got => FarEnough(a.seen, a, t)
    /\ "open" \in a.got => FarEnough(a.id, a, t)
    /\ a.pc = "wait" /\ a.seen # 0 /\ "extend" \notin a.await => FarEnough(a.seen, a, t)
    /\ a.pc = "ready" => FarEnough(a.id, a, t)

ExpirationTx(tx, t) ==
    /\ tx.exp = tx.born + t + Offset
    /\ height <= tx.born + MaxDelay

ExpirationInv(t) ==
    /\ \A c \in Clients : ExpirationAttempt(attempt[c], t)
    /\ \A k \in 1..Len(mempool) : ExpirationTx(mempool[k], t)
    /\ \A i \in 1..opened : openEvent[i].expiration <= expiration[i]

LEMMA ExpirationInit == ASSUME NEW t, Init PROVE ExpirationInv(t)
  BY DEF Init, LedgerInit, ExpirationInv, ExpirationAttempt, NoAttempt

LEMMA ExpirationNoAttempt == ASSUME NEW t PROVE ExpirationAttempt(NoAttempt, t)
  BY DEF ExpirationAttempt, NoAttempt

LEMMA ExpirationLocal ==
    ASSUME NEW t, ExpirationInv(t), IInv, NEW c \in Clients, NEW a \in Attempt,
           ExpirationAttempt(a, t), Become(c, a), UNCHANGED chainVars
    PROVE  ExpirationInv(t)'
  BY DEF ExpirationInv, ExpirationAttempt, ExpirationTx, FarEnough, Become, chainVars,
         ledgerVars, IInv, TypeOK

LEMMA ExpirationSubmit ==
    ASSUME NEW t, ExpirationInv(t), IInv, NEW c \in Clients, NEW a \in Attempt,
           ExpirationAttempt(a, t), Become(c, a), NEW tx \in Tx, ExpirationTx(tx, t),
           Submit(tx), UNCHANGED <<ledgerVars, height>>
    PROVE  ExpirationInv(t)'
  <1>1. mempool \in Seq(Tx)
    BY DEF IInv, TypeOK, LedgerTypeOK
  <1>2. \A k \in 1..Len(mempool') : ExpirationTx(mempool'[k], t)
    <2> SUFFICES ASSUME NEW k \in 1..Len(mempool') PROVE ExpirationTx(mempool'[k], t)
      OBVIOUS
    <2>1. CASE k \in 1..Len(mempool)
      BY <1>1, <2>1 DEF ExpirationInv, Submit
    <2>2. CASE k = Len(mempool) + 1
      BY <1>1, <2>2 DEF Submit
    <2>3. QED
      BY <1>1, <2>1, <2>2 DEF Submit
  <1>3. (\A k \in 1..Len(mempool) : ExpirationTx(mempool[k], t))'
    BY <1>2 DEF ExpirationTx
  <1>4. /\ (\A d \in Clients : ExpirationAttempt(attempt[d], t))'
        /\ (\A i \in 1..opened : openEvent[i].expiration <= expiration[i])'
    BY DEF ExpirationInv, ExpirationAttempt, FarEnough, Become, ledgerVars, IInv, TypeOK
  <1>5. QED
    BY <1>3, <1>4 DEF ExpirationInv

LEMMA ExpirationBegin ==
    ASSUME NEW t, Thresholds = {t}, ExpirationInv(t), IInv, NEW c \in Clients, Begin(c)
    PROVE  ExpirationInv(t)'
  <1>1. PICK p \in Prices :
          Become(c, [NoAttempt EXCEPT
                       !.pc = IF opened = 0 THEN "ensure" ELSE "query",
                       !.start = height, !.price = p, !.threshold = t,
                       !.seen = opened, !.filtered = opened, !.escrow = escrow])
    BY DEF Begin
  <1> DEFINE a == [NoAttempt EXCEPT
                       !.pc = IF opened = 0 THEN "ensure" ELSE "query",
                       !.start = height, !.price = p, !.threshold = t,
                       !.seen = opened, !.filtered = opened, !.escrow = escrow]
  <1>2. /\ a.pc \in {"ensure", "query"} /\ a.threshold = t /\ a.start = height
        /\ a.got = {}
    BY DEF NoAttempt
  <1>3. a \in Attempt
    <2>1. opened \in ChanId \cup {0} /\ height \in Nat /\ escrow \in Nat
      BY Types, ConstantTypes DEF IInv, TypeOK, LedgerTypeOK, ChanId
    <2>2. (IF opened = 0 THEN "ensure" ELSE "query") \in PC
      BY DEF PC
    <2>3. QED
      BY <2>1, <2>2, NoAttemptType DEF Attempt
  <1>4. Become(c, a) /\ UNCHANGED chainVars
    BY <1>1 DEF Begin
  <1> HIDE DEF a
  <1>5. ExpirationAttempt(a, t)
    BY <1>2, Types, ConstantTypes DEF ExpirationAttempt
  <1>6. QED
    BY <1>3, <1>4, <1>5, ExpirationLocal

LEMMA ExpirationDaemon ==
    ASSUME NEW t, ExpirationInv(t), IInv, NEW c \in Clients,
           DaemonReplies(c) \/ DaemonNotFound(c)
    PROVE  ExpirationInv(t)'
  <1> DEFINE b == attempt[c]
  <1>1. /\ b \in Attempt /\ AttemptShape(b) /\ b.pc = "query" /\ b.got = {}
        /\ ExpirationAttempt(b, t)
    BY Types DEF DaemonReplies, DaemonNotFound, AttemptShape, ExpirationInv
  <1>2. ASSUME NEW a \in Attempt, Become(c, a), a.pc = "ensure", a.got = {},
               a.threshold = b.threshold, a.start = b.start
        PROVE  ExpirationInv(t)'
    <2>1. ExpirationAttempt(a, t)
      BY <1>1, <1>2 DEF ExpirationAttempt
    <2>2. UNCHANGED chainVars
      BY DEF DaemonReplies, DaemonNotFound
    <2>3. QED
      BY <1>2, <2>1, <2>2, ExpirationLocal
  <1>3. CASE DaemonReplies(c)
    <2> DEFINE a == [b EXCEPT !.pc = "ensure", !.signed = dSigned[b.seen],
                              !.nonce = dNonce[b.seen]]
    <2>1. b.seen \in ChanId
      BY <1>1 DEF AttemptShape, Attempt
    <2>2. dSigned[b.seen] \in Nat /\ dNonce[b.seen] \in Nat
      BY <2>1, Types
    <2>3. a \in Attempt
      BY <1>1, <2>2 DEF Attempt, PC
    <2>4. /\ a.pc = "ensure" /\ a.got = {} /\ a.threshold = b.threshold
          /\ a.start = b.start
      BY <1>1 DEF Attempt
    <2>5. Become(c, a)
      BY <1>3 DEF DaemonReplies
    <2> HIDE DEF a, b
    <2>6. QED
      BY <1>2, <2>3, <2>4, <2>5
  <1>4. CASE DaemonNotFound(c)
    <2> DEFINE a == [b EXCEPT !.pc = "ensure", !.filtered = 0]
    <2>1. a \in Attempt
      BY <1>1 DEF Attempt, PC
    <2>2. /\ a.pc = "ensure" /\ a.got = {} /\ a.threshold = b.threshold
          /\ a.start = b.start
      BY <1>1 DEF Attempt
    <2>3. Become(c, a)
      BY <1>4 DEF DaemonNotFound
    <2> HIDE DEF a, b
    <2>4. QED
      BY <1>2, <2>1, <2>2, <2>3
  <1>5. QED
    BY <1>3, <1>4

LEMMA ExpirationDrop ==
    ASSUME NEW t, ExpirationInv(t), IInv, NEW c \in Clients,
           Fail(c) \/ Abandon(c) \/ Discard(c)
    PROVE  ExpirationInv(t)'
  BY NoAttemptType, ExpirationNoAttempt, ExpirationLocal DEF Fail, Abandon, Discard

LEMMA ExpirationSubscribeFails ==
    ASSUME NEW t, ExpirationInv(t), IInv, NEW c \in Clients, SubscribeFails(c)
    PROVE  ExpirationInv(t)'
  <1>1. attempt[c].threshold = t /\ attempt[c].start <= height
    BY StuckStep DEF ExpirationInv, ExpirationAttempt
  <1>2. ExpirationAttempt(Stuck(c), t)
    BY <1>1, StuckFields DEF ExpirationAttempt
  <1>3. QED
    BY <1>2, StuckFields, StuckStep, ExpirationLocal DEF chainVars

\* The code compares with the expiration of the ChannelOpen event, which is a
\* lower bound of the channel's: no extension asked for means none was needed.
LEMMA NoExtension ==
    ASSUME NEW t, ExpirationInv(t), IInv, NEW c \in Clients,
           attempt[c].pc \notin {"idle", "stuck", "ready"}, attempt[c].seen # 0, ~NeedExtend(c)
    PROVE  FarEnough(attempt[c].seen, attempt[c], t)
  <1> DEFINE b == attempt[c]
  <1>1. b \in Attempt /\ AttemptShape(b) /\ ExpirationAttempt(b, t)
    BY Types DEF ExpirationInv
  <1>2. b.seen \in 1..opened /\ b.threshold = t /\ b.start \in Nat /\ t \in Nat
    BY <1>1, AttemptFields DEF AttemptShape, ExpirationAttempt
  <1>3. /\ openEvent[b.seen].expiration <= expiration[b.seen]
        /\ openEvent[b.seen].expiration \in Nat /\ expiration[b.seen] \in Nat
    BY <1>2, Types DEF ExpirationInv
  <1>4. ~(openEvent[b.seen].expiration <= b.start + t + Offset)
    BY <1>2 DEF NeedExtend, NewExpiration, GetNewExpiration
  <1> HIDE DEF b
  <1>5. FarEnough(b.seen, b, t)
    BY <1>2, <1>3, <1>4, ConstantTypes DEF FarEnough
  <1>6. QED
    BY <1>5 DEF b

LEMMA ExpirationReuse ==
    ASSUME NEW t, ExpirationInv(t), IInv, NEW c \in Clients, Reuse(c)
    PROVE  ExpirationInv(t)'
  <1> DEFINE b == attempt[c]
             a == [b EXCEPT !.pc = "ready", !.id = b.seen, !.escrow = 0]
  <1>1. b \in Attempt /\ AttemptShape(b) /\ ExpirationAttempt(b, t) /\ b.pc = "ensure"
    BY Types DEF Reuse, ExpirationInv
  <1>2. FarEnough(b.seen, b, t)
    BY <1>1, NoExtension DEF Reuse, FilterChannels
  <1>3. a \in Attempt
    BY <1>1 DEF Attempt, PC
  <1>4. /\ a.pc = "ready" /\ a.threshold = b.threshold /\ a.start = b.start
        /\ a.id = b.seen /\ a.got = b.got
    BY <1>1 DEF Attempt
  <1>5. b.got = {}
    BY <1>1 DEF AttemptShape
  <1>6. Become(c, a) /\ UNCHANGED chainVars
    BY DEF Reuse
  <1> HIDE DEF a, b
  <1>7. ExpirationAttempt(a, t)
    BY <1>1, <1>2, <1>4, <1>5 DEF ExpirationAttempt, FarEnough
  <1>8. QED
    BY <1>3, <1>6, <1>7, ExpirationLocal

LEMMA ExpirationDepositSeen ==
    ASSUME NEW t, ExpirationInv(t), IInv, NEW c \in Clients, DepositSeen(c)
    PROVE  ExpirationInv(t)'
  <1> DEFINE a == [attempt[c] EXCEPT !.pc = "topUp", !.await = {}, !.got = {}]
  <1>1. /\ attempt[c] \in Attempt /\ ExpirationAttempt(attempt[c], t)
        /\ attempt[c].pc = "waitDeposit"
    BY Types DEF DepositSeen, ExpirationInv
  <1>2. a \in Attempt
    BY <1>1 DEF Attempt, PC
  <1>3. ExpirationAttempt(a, t)
    BY <1>1 DEF ExpirationAttempt, Attempt
  <1>4. Become(c, a) /\ UNCHANGED chainVars
    BY DEF DepositSeen
  <1> HIDE DEF a
  <1>5. QED
    BY <1>2, <1>3, <1>4, ExpirationLocal

LEMMA ExpirationFinish ==
    ASSUME NEW t, ExpirationInv(t), IInv, NEW c \in Clients, Finish(c)
    PROVE  ExpirationInv(t)'
  <1> DEFINE b == attempt[c]
             a == [b EXCEPT !.pc = "ready", !.escrow = 0, !.await = {}, !.got = {}]
  <1>1. /\ b \in Attempt /\ AttemptShape(b) /\ ExpirationAttempt(b, t)
        /\ b.pc = "wait" /\ b.await \subseteq b.got
    BY Types DEF Finish, ExpirationInv
  <1>2. FarEnough(b.id, b, t)
    BY <1>1 DEF AttemptShape, ExpirationAttempt
  <1>3. a \in Attempt
    BY <1>1 DEF Attempt, PC
  <1>4. /\ a.pc = "ready" /\ a.threshold = b.threshold /\ a.start = b.start
        /\ a.id = b.id /\ a.got = {}
    BY <1>1 DEF Attempt
  <1>5. Become(c, a) /\ UNCHANGED chainVars
    BY DEF Finish
  <1> HIDE DEF a, b
  <1>6. ExpirationAttempt(a, t)
    BY <1>1, <1>2, <1>4 DEF ExpirationAttempt, FarEnough
  <1>7. QED
    BY <1>3, <1>5, <1>6, ExpirationLocal

\* A transaction asks for the expiration its attempt computed, and its attempt
\* is no older than its timers.
LEMMA SubmittedTx ==
    ASSUME NEW t, ExpirationInv(t), IInv, NEW c \in Clients,
           attempt[c].pc \notin {"idle", "stuck", "ready"}, NEW tx,
           tx.exp = NewExpiration(c), tx.born = attempt[c].start
    PROVE  ExpirationTx(tx, t)
  <1>1. attempt[c].start \in Nat /\ height \in Nat
    BY Types, AttemptFields
  <1>2. attempt[c].threshold = t /\ height <= attempt[c].start + Patience
    BY DEF ExpirationInv, ExpirationAttempt
  <1>3. Patience <= MaxDelay
    BY EnsureAssumption
  <1>4. QED
    BY <1>1, <1>2, <1>3, ConstantTypes DEF ExpirationTx, NewExpiration, GetNewExpiration

LEMMA ExpirationOpenNewChannel ==
    ASSUME NEW t, ExpirationInv(t), IInv, NEW c \in Clients, OpenNewChannel(c)
    PROVE  ExpirationInv(t)'
  <1> DEFINE b == attempt[c]
             direct == b.escrow >= b.price
             tx == [kind |-> IF direct THEN "open" ELSE "depositOpen", id |-> 0,
                    amount |-> b.price, exp |-> NewExpiration(c), born |-> b.start]
             await == IF direct THEN {"open"} ELSE {"open", "deposit"}
             a == [b EXCEPT !.pc = "wait", !.await = await]
  <1>1. /\ b \in Attempt /\ AttemptShape(b) /\ ExpirationAttempt(b, t)
        /\ b.pc = "ensure" /\ b.seen = 0 /\ b.got = {}
    BY Types DEF OpenNewChannel, FilterChannels, ExpirationInv, AttemptShape
  <1>2. tx \in Tx
    <2>1. NewExpiration(c) \in Nat /\ b.start \in Nat /\ b.price \in Nat
      BY <1>1, AttemptFields, NewExpirationType
    <2>2. QED
      BY <2>1 DEF Tx, TxKind
  <1>3. ExpirationTx(tx, t)
    BY <1>1, SubmittedTx
  <1>4. a \in Attempt
    <2>1. await \in SUBSET Event
      BY DEF Event
    <2> HIDE DEF await, b
    <2>2. QED
      BY <1>1, <2>1 DEF Attempt, PC
  <1>5. /\ Become(c, a) /\ Submit(tx) /\ UNCHANGED <<ledgerVars, height>>
    BY DEF OpenNewChannel
  <1>6. /\ a.pc = "wait" /\ a.threshold = b.threshold /\ a.start = b.start
        /\ a.seen = 0 /\ a.got = {}
    BY <1>1 DEF Attempt
  <1> HIDE DEF a, b, tx
  <1>7. ExpirationAttempt(a, t)
    BY <1>1, <1>6 DEF ExpirationAttempt
  <1>8. QED
    BY <1>2, <1>3, <1>4, <1>5, <1>7, ExpirationSubmit

LEMMA ExpirationDepositMissing ==
    ASSUME NEW t, ExpirationInv(t), IInv, NEW c \in Clients, DepositMissing(c)
    PROVE  ExpirationInv(t)'
  <1> DEFINE tx == [kind |-> "deposit", id |-> 0, amount |-> TopUpAmount(c),
                    exp |-> NewExpiration(c), born |-> attempt[c].start]
             a == [attempt[c] EXCEPT !.pc = "waitDeposit", !.await = {"deposit"}]
  <1>1. /\ attempt[c] \in Attempt /\ ExpirationAttempt(attempt[c], t)
        /\ attempt[c].pc = "ensure" /\ attempt[c].seen # 0
    BY Types DEF DepositMissing, FilterChannels, ExpirationInv
  <1>2. tx \in Tx
    <2>1. TopUpAmount(c) \in Nat /\ NewExpiration(c) \in Nat /\ attempt[c].start \in Nat
      BY <1>1, TopUpAmountType, NewExpirationType
    <2>2. QED
      BY <2>1 DEF Tx, TxKind
  <1>3. ExpirationTx(tx, t)
    BY <1>1, SubmittedTx
  <1>4. a \in Attempt
    BY <1>1 DEF Attempt, PC, Event
  <1>5. ExpirationAttempt(a, t)
    BY <1>1 DEF ExpirationAttempt, FarEnough, Attempt
  <1>6. Become(c, a) /\ Submit(tx) /\ UNCHANGED <<ledgerVars, height>>
    BY DEF DepositMissing
  <1> HIDE DEF a, tx
  <1>7. QED
    BY <1>2, <1>3, <1>4, <1>5, <1>6, ExpirationSubmit

LEMMA ExpirationAdjustChannel ==
    ASSUME NEW t, ExpirationInv(t), IInv, NEW c \in Clients, AdjustChannel(c)
    PROVE  ExpirationInv(t)'
  <1> DEFINE b == attempt[c]
             kind == IF NeedFunds(c) /\ NeedExtend(c) THEN "extendAdd"
                     ELSE IF NeedFunds(c) THEN "add" ELSE "extend"
             tx == [kind |-> kind, id |-> b.seen, amount |-> TopUpAmount(c),
                    exp |-> NewExpiration(c), born |-> b.start]
             await == (IF NeedFunds(c) THEN {"add"} ELSE {})
                      \cup (IF NeedExtend(c) THEN {"extend"} ELSE {})
             a == [b EXCEPT !.pc = "wait", !.await = await, !.id = b.seen]
  <1>1. /\ b \in Attempt /\ AttemptShape(b) /\ ExpirationAttempt(b, t)
        /\ b.pc \in {"ensure", "topUp"} /\ b.seen # 0 /\ b.got = {}
    <2>1. b \in Attempt /\ AttemptShape(b) /\ ExpirationAttempt(b, t)
      BY Types DEF ExpirationInv
    <2>2. b.pc \in {"ensure", "topUp"} /\ b.seen # 0
      BY <2>1 DEF AdjustChannel, FilterChannels, AttemptShape
    <2>3. QED
      BY <2>1, <2>2 DEF AttemptShape
  <1>2. tx \in Tx
    <2>1. NewExpiration(c) \in Nat /\ b.start \in Nat /\ TopUpAmount(c) \in Nat
      BY <1>1, NewExpirationType, TopUpAmountType
    <2>2. kind \in TxKind
      BY DEF TxKind
    <2>3. b.seen \in ChanId \cup {0}
      BY <1>1, AttemptFields
    <2> HIDE DEF kind
    <2>4. QED
      BY <2>1, <2>2, <2>3 DEF Tx
  <1>3. ExpirationTx(tx, t)
    BY <1>1, SubmittedTx
  <1>4. await \in SUBSET Event
    BY DEF Event
  <1>5. "extend" \notin await => FarEnough(b.seen, b, t)
    BY <1>1, NoExtension
  <1>6. Become(c, a) /\ Submit(tx) /\ UNCHANGED <<ledgerVars, height>>
    BY DEF AdjustChannel
  <1> HIDE DEF await
  <1>7. a \in Attempt
    BY <1>1, <1>4 DEF Attempt, PC
  <1>8. /\ a.pc = "wait" /\ a.threshold = b.threshold /\ a.start = b.start
        /\ a.seen = b.seen /\ a.got = {} /\ a.await = await
    BY <1>1 DEF Attempt
  <1> HIDE DEF a, b, tx
  <1>9. ExpirationAttempt(a, t)
    BY <1>1, <1>5, <1>8 DEF ExpirationAttempt, FarEnough
  <1>10. QED
    BY <1>2, <1>3, <1>6, <1>7, <1>9, ExpirationSubmit

\* Expirations only grow, and a mined transaction asks for one counted from a
\* block at most MaxDelay before the present one, which no attempt is younger
\* than.
LEMMA ExpirationMine ==
    ASSUME NEW t, t \in Nat, ExpirationInv(t), IInv, Mine
    PROVE  ExpirationInv(t)'
  <1> DEFINE tx == Head(mempool)
  <1>1. /\ mempool # <<>> /\ mempool \in Seq(Tx) /\ mempool' = Tail(mempool)
        /\ height' = height
    BY DEF Mine, IInv, TypeOK, LedgerTypeOK
  <1>2. /\ tx \in Tx /\ ExpirationTx(tx, t)
        /\ Opens(tx) \/ tx.kind = "deposit" \/ tx.id \in 1..opened
    BY <1>1 DEF IInv, Shape, MempoolShape, ExpirationInv
  <1>3. \A k \in 1..Len(mempool') : mempool'[k] = mempool[k + 1] /\ k + 1 \in 1..Len(mempool)
    BY <1>1
  <1>4. \A k \in 1..Len(mempool') : ExpirationTx(mempool'[k], t)
    BY <1>3 DEF ExpirationInv
  <1>5. tx.exp \in Nat /\ tx.exp + MaxDelay >= height + t + Offset /\ height \in Nat
    <2>1. tx.born \in Nat /\ tx.exp \in Nat /\ height \in Nat
      BY <1>2, Types DEF Tx
    <2>2. QED
      BY <1>2, <2>1, ConstantTypes DEF ExpirationTx
  <1> HIDE DEF tx
  <1>6. CASE Accepted(tx) /\ Apply(tx) /\ attempt' = [c \in Clients |-> Delivered(c, tx)]
    <2>1. /\ opened' = IF Opens(tx) THEN opened + 1 ELSE opened
          /\ expiration' \in [ChanId -> Nat] /\ opened' \in 0..MaxChannels
          /\ \A i \in 1..opened : /\ expiration[i] <= expiration'[i]
                                  /\ openEvent'[i] = openEvent[i]
      BY <1>2, <1>6, ApplyEffect
    <2>2. Opens(tx) => /\ opened + 1 \in ChanId
                       /\ expiration'[opened + 1] = tx.exp
                       /\ openEvent'[opened + 1].expiration = tx.exp
      <3> SUFFICES ASSUME Opens(tx)
                   PROVE  /\ opened + 1 \in ChanId
                          /\ expiration'[opened + 1] = tx.exp
                          /\ openEvent'[opened + 1].expiration = tx.exp
        OBVIOUS
      <3>1. opened + 1 \in ChanId /\ Target(tx) = opened + 1
        BY <2>1, Types, ConstantTypes DEF Target, ChanId
      <3>2. /\ openEvent' = [openEvent EXCEPT ![opened + 1] =
                              [amount |-> tx.amount, expiration |-> tx.exp]]
            /\ expiration' = [expiration EXCEPT ![opened + 1] = tx.exp]
        BY <1>6, <3>1 DEF Apply
      <3>3. QED
        BY <3>1, <3>2 DEF IInv, TypeOK, LedgerTypeOK
    <2>3. \A i \in 1..opened' : openEvent'[i].expiration <= expiration'[i]
      <3> SUFFICES ASSUME NEW i \in 1..opened'
                   PROVE  openEvent'[i].expiration <= expiration'[i]
        OBVIOUS
      <3>1. CASE i \in 1..opened
        <4>1. /\ i \in ChanId /\ expiration[i] \in Nat /\ expiration'[i] \in Nat
              /\ openEvent[i].expiration \in Nat
          BY <2>1, <3>1, Types
        <4>2. /\ openEvent[i].expiration <= expiration[i]
              /\ expiration[i] <= expiration'[i] /\ openEvent'[i] = openEvent[i]
          BY <2>1, <3>1 DEF ExpirationInv
        <4>3. QED
          BY <4>1, <4>2
      <3>2. CASE Opens(tx) /\ i = opened + 1
        BY <1>5, <2>2, <3>2
      <3>3. QED
        BY <2>1, <3>1, <3>2, Types
    <2>4. ASSUME NEW c \in Clients PROVE ExpirationAttempt(attempt[c], t)'
      <3> DEFINE b == attempt[c]
                 n == attempt'[c]
      <3>1. b \in Attempt /\ AttemptShape(b) /\ ExpirationAttempt(b, t)
        BY Types DEF ExpirationInv
      <3>2. /\ n.pc = b.pc /\ n.threshold = b.threshold /\ n.start = b.start
            /\ n.seen = b.seen /\ n.await = b.await /\ n.got = b.got \cup Reaches(c, tx)
            /\ n.id = IF "open" \in Reaches(c, tx) \ b.got THEN opened + 1 ELSE b.id
        BY <1>6, <3>1 DEF Delivered, Attempt
      <3>3. b.start \in Nat /\ (b.pc # "idle" => b.start <= height)
        BY <3>1, AttemptFields DEF ExpirationAttempt
      <3>4. \A i \in 1..opened : FarEnough(i, b, t) => expiration'[i] + MaxDelay >= b.start + t + Offset
        <4> SUFFICES ASSUME NEW i \in 1..opened, FarEnough(i, b, t)
                     PROVE  expiration'[i] + MaxDelay >= b.start + t + Offset
          OBVIOUS
        <4>1. /\ i \in ChanId /\ expiration[i] \in Nat /\ expiration'[i] \in Nat
              /\ expiration[i] <= expiration'[i]
          BY <2>1, Types
        <4> HIDE DEF b
        <4>2. QED
          BY <3>3, <4>1, ConstantTypes DEF FarEnough
      <3>5. tx.exp + MaxDelay >= b.start + t + Offset \/ b.pc = "idle"
        BY <1>5, <3>3, ConstantTypes
      <3>6. "extend" \in Reaches(c, tx) =>
              /\ b.seen \in 1..opened /\ expiration'[b.seen] = tx.exp /\ b.pc # "idle"
        <4> SUFFICES ASSUME "extend" \in Reaches(c, tx)
                     PROVE  /\ b.seen \in 1..opened /\ expiration'[b.seen] = tx.exp
                            /\ b.pc # "idle"
          OBVIOUS
        <4>1. Extends(tx) /\ ~Opens(tx) /\ tx.id = b.seen /\ b.pc # "idle"
          BY <1>2, <3>1 DEF Reaches, EmittedBy, Tx, TxKind, Extends, Opens, AttemptShape
        <4>2. b.seen \in 1..opened
          BY <1>2, <4>1 DEF Extends
        <4>3. expiration' = [expiration EXCEPT ![b.seen] = tx.exp] /\ b.seen \in ChanId
          BY <1>6, <4>1, <4>2, Types DEF Apply, Target
        <4>4. QED
          BY <4>1, <4>2, <4>3 DEF IInv, TypeOK, LedgerTypeOK
      <3>7. "extend" \in n.got => expiration'[n.seen] + MaxDelay >= b.start + t + Offset
        <4>1. "extend" \in b.got => b.pc = "wait" /\ b.seen # 0
          BY <3>1 DEF AttemptShape
        <4>2. "extend" \in b.got => b.seen \in 1..opened /\ FarEnough(b.seen, b, t)
          BY <3>1, <4>1, Types DEF AttemptShape, ExpirationAttempt
        <4>3. QED
          BY <3>2, <3>4, <3>5, <3>6, <4>2
      <3>8. "open" \in n.got => expiration'[n.id] + MaxDelay >= b.start + t + Offset
        <4>1. "open" \in b.got => b.id \in 1..opened /\ FarEnough(b.id, b, t)
          BY <3>1 DEF AttemptShape, ExpirationAttempt
        <4>2. "open" \in Reaches(c, tx) => Opens(tx) /\ b.pc # "idle"
          BY <1>2, <3>1 DEF Reaches, EmittedBy, Tx, TxKind, Opens, AttemptShape
        <4>3. QED
          BY <2>2, <3>2, <3>4, <3>5, <4>1, <4>2
      <3>9. b.pc = "wait" /\ b.seen # 0 /\ "extend" \notin b.await =>
              expiration'[b.seen] + MaxDelay >= b.start + t + Offset
        BY <3>1, <3>4, Types DEF AttemptShape, ExpirationAttempt
      <3>10. b.pc = "ready" => /\ n.id = b.id
                               /\ expiration'[b.id] + MaxDelay >= b.start + t + Offset
        <4>1. b.pc = "ready" => n.id = b.id /\ b.id \in 1..opened /\ FarEnough(b.id, b, t)
          BY <3>1, <3>2 DEF AttemptShape, Reaches, ExpirationAttempt
        <4>2. QED
          BY <3>4, <4>1
      <3> HIDE DEF b
      <3>11. QED
        BY <1>1, <3>1, <3>2, <3>7, <3>8, <3>9, <3>10 DEF ExpirationAttempt, FarEnough
    <2>5. QED
      BY <1>1, <1>4, <2>3, <2>4 DEF ExpirationInv, ExpirationTx
  <1>7. CASE UNCHANGED <<ledgerVars, attempt>>
    BY <1>1, <1>4, <1>7
       DEF ExpirationInv, ExpirationAttempt, ExpirationTx, FarEnough, ledgerVars
  <1>8. QED
    BY <1>6, <1>7 DEF Mine, tx

LEMMA ExpirationTick ==
    ASSUME NEW t, ExpirationInv(t), IInv, Tick
    PROVE  ExpirationInv(t)'
  <1>1. height \in Nat /\ height' = height + 1 /\ UNCHANGED <<ledgerVars, mempool, attempt>>
    BY Types DEF Tick
  <1>2. \A k \in 1..Len(mempool) : ExpirationTx(mempool[k], t)'
    <2> SUFFICES ASSUME NEW k \in 1..Len(mempool) PROVE ExpirationTx(mempool[k], t)'
      OBVIOUS
    <2>1. mempool[k].born \in Nat /\ height < mempool[k].born + MaxDelay
      BY Types DEF Tick, Tx
    <2>2. QED
      BY <1>1, <2>1, ConstantTypes DEF ExpirationInv, ExpirationTx
  <1>3. \A c \in Clients : ExpirationAttempt(attempt[c], t)'
    <2> SUFFICES ASSUME NEW c \in Clients PROVE ExpirationAttempt(attempt[c], t)'
      OBVIOUS
    <2>1. ExpirationAttempt(attempt[c], t) /\ attempt[c].start \in Nat
      BY Types, AttemptFields DEF ExpirationInv
    <2>2. InFlight(c) => height < attempt[c].start + Patience
      BY DEF Tick
    <2>3. QED
      BY <1>1, <2>1, <2>2, ConstantTypes DEF ExpirationAttempt, InFlight, FarEnough, ledgerVars
  <1>4. QED
    BY <1>1, <1>2, <1>3 DEF ExpirationInv, ledgerVars

LEMMA StepExpiration ==
    ASSUME NEW t, Thresholds = {t}, ExpirationInv(t), IInv, [Next]_vars
    PROVE  ExpirationInv(t)'
  <1>0. t \in Nat
    BY ConstantTypes
  <1>1. ASSUME NEW c \in Clients, Serve(c) PROVE ExpirationInv(t)'
    BY <1>1 DEF Serve, ExpirationInv, ExpirationAttempt, ExpirationTx, FarEnough, chainVars,
                ledgerVars
  <1>2. ASSUME NEW c \in Clients, Begin(c) \/ ClientStep(c) \/ Fail(c) \/ SubscribeFails(c) \/ Discard(c)
        PROVE  ExpirationInv(t)'
    BY <1>2, ExpirationBegin, ExpirationDaemon, ExpirationOpenNewChannel, ExpirationReuse,
       ExpirationDepositMissing, ExpirationDepositSeen, ExpirationAdjustChannel,
       ExpirationFinish, ExpirationDrop, ExpirationSubscribeFails DEF ClientStep
  <1>3. CASE \E i \in ChanId : StartClaim(i) \/ FinishClaim(i)
    BY <1>3 DEF StartClaim, FinishClaim, ExpirationInv, ExpirationAttempt, ExpirationTx,
                FarEnough, chainVars, ledgerVars
  <1>4. CASE Mine
    BY <1>0, <1>4, ExpirationMine
  <1>5. CASE Tick
    BY <1>5, ExpirationTick
  <1>6. CASE UNCHANGED vars
    BY <1>6 DEF vars, chainVars, ledgerVars, ExpirationInv, ExpirationAttempt, ExpirationTx,
                FarEnough
  <1>7. QED
    BY <1>1, <1>2, <1>3, <1>4, <1>5, <1>6 DEF Next

\* With one announced threshold, a returned strategy's channel is more than the
\* threshold away from its end at the latest block its attempt can end at,
\* although the extension it waited for may be an older attempt's.
THEOREM ExpirationEnsured ==
    ASSUME NEW t, Thresholds = {t}
    PROVE  Spec => []EnsuredExpiration
  <1>1. Init => ExpirationInv(t)
    BY ExpirationInit
  <1>2. IInv /\ ExpirationInv(t) /\ [Next]_vars => ExpirationInv(t)'
    BY StepExpiration
  <1>3. IInv /\ ExpirationInv(t) => EnsuredExpiration
    <2> SUFFICES ASSUME IInv, ExpirationInv(t), NEW c \in Clients, Ready(c)
                 PROVE  expiration[attempt[c].id] >
                            attempt[c].start + Patience + attempt[c].threshold
      BY DEF EnsuredExpiration
    <2>1. /\ attempt[c].start \in Nat /\ attempt[c].threshold = t /\ t \in Nat
          /\ FarEnough(attempt[c].id, attempt[c], t)
      BY ConstantTypes, Types, AttemptFields DEF Ready, ExpirationInv, ExpirationAttempt
    <2>2. expiration[attempt[c].id] \in Nat
      BY Types DEF Ready, AttemptShape
    <2>3. MaxDelay + Patience < Offset
      BY EnsureAssumption
    <2>4. QED
      BY <2>1, <2>2, <2>3, ConstantTypes DEF FarEnough
  <1>4. QED
    BY <1>1, <1>2, <1>3, AlwaysIInv, PTL DEF Spec

-----------------------------------------------------------------------------
(* EnsureChannel implements ChannelPromise, for metadata that announces    *)
(* one price and one threshold.                                            *)

\* A channel that is not open yet has no expiration.
Fresh == \A i \in ChanId : i > opened => expiration[i] = 0

LEMMA InitFresh == Init => Fresh
  BY DEF Init, LedgerInit, Fresh

LEMMA StepFresh == ASSUME IInv, Fresh, [Next]_vars PROVE Fresh'
  <1>1. CASE UNCHANGED <<opened, expiration>>
    BY <1>1 DEF Fresh
  <1>2. CASE Mine
    <2> DEFINE tx == Head(mempool)
    <2>1. tx \in Tx /\ (Opens(tx) \/ tx.kind = "deposit" \/ tx.id \in 1..opened)
      BY <1>2 DEF Mine, IInv, TypeOK, LedgerTypeOK, Shape, MempoolShape
    <2>2. CASE Accepted(tx) /\ Apply(tx)
      <3> HIDE DEF tx
      <3>1. /\ expiration \in [ChanId -> Nat] /\ opened \in 0..MaxChannels
            /\ MaxChannels \in Nat
        BY ConstantTypes DEF IInv, TypeOK, LedgerTypeOK
      <3>2. CASE Opens(tx)
        BY <2>2, <3>1, <3>2 DEF Fresh, Apply, Target, ChanId
      <3>3. CASE ~Opens(tx)
        BY <2>1, <2>2, <3>1, <3>3 DEF Fresh, Apply, Target, ChanId, Extends
      <3>4. QED
        BY <3>2, <3>3
    <2>3. CASE UNCHANGED ledgerVars
      BY <1>1, <2>3 DEF ledgerVars
    <2>4. QED
      BY <1>2, <2>2, <2>3 DEF Mine, tx
  <1>3. ASSUME NEW c \in Clients,
               Begin(c) \/ ClientStep(c) \/ Fail(c) \/ SubscribeFails(c) \/ Discard(c) \/ Serve(c)
        PROVE  UNCHANGED <<opened, expiration>>
    BY <1>3 DEF Begin, ClientStep, Fail, SubscribeFails, Discard, Serve, DaemonReplies, DaemonNotFound,
                OpenNewChannel, Reuse, DepositMissing, DepositSeen, AdjustChannel, Finish,
                Abandon, chainVars, ledgerVars
  <1>4. ASSUME NEW i \in ChanId, StartClaim(i) \/ FinishClaim(i)
        PROVE  UNCHANGED <<opened, expiration>>
    BY <1>4 DEF StartClaim, FinishClaim, chainVars, ledgerVars
  <1>5. CASE Tick \/ UNCHANGED vars
    BY <1>1, <1>5 DEF Tick, vars, chainVars, ledgerVars
  <1>6. QED
    BY <1>1, <1>2, <1>3, <1>4, <1>5 DEF Next

-----------------------------------------------------------------------------
(* The steps of a client. *)

\* The view of one attempt, field by field.
View(a) ==
    [has |-> IF a.pc = "idle" THEN "nothing"
             ELSE IF a.pc = "ready" THEN "channel" ELSE "asked",
     price |-> a.price, threshold |-> a.threshold, since |-> a.start,
     channel |-> IF a.pc = "ready" THEN a.id ELSE 0,
     from |-> IF a.pc = "ready" THEN a.signed ELSE 0]

LEMMA AskerView ==
    ASSUME NEW c \in Clients
    PROVE  Askers[c] = View(attempt[c]) /\ Askers'[c] = View(attempt'[c])
  BY DEF Askers, View, Ready

\* A step that changes one attempt shows as a change of that caller.
LEMMA OneCaller ==
    ASSUME IInv, NEW c \in Clients, NEW a, Become(c, a)
    PROVE  /\ Askers' = [Askers EXCEPT ![c] = Askers'[c]]
           /\ attempt'[c] = a
  <1>1. attempt \in [Clients -> Attempt]
    BY DEF IInv, TypeOK
  <1>2. \A d \in Clients : d # c => attempt'[d] = attempt[d]
    BY <1>1 DEF Become
  <1>3. \A d \in Clients : d # c => Askers'[d] = Askers[d]
    BY <1>2 DEF Askers, Ready
  <1>4. attempt'[c] = a
    BY <1>1 DEF Become
  <1>5. DOMAIN Askers = Clients /\ DOMAIN Askers' = Clients
    BY DEF Askers
  <1>6. Askers' = [d \in Clients |-> Askers'[d]] /\ Askers = [d \in Clients |-> Askers[d]]
    BY DEF Askers
  <1>7. QED
    BY <1>3, <1>4, <1>5, <1>6

\* The ledger and the daemon, as the callers see them.
Seen == <<wallet, escrow, value, expiration, dNonce, height>>

LEMMA Hidden ==
    ASSUME IInv, NEW c \in Clients, NEW a, Become(c, a), UNCHANGED Seen,
           Askers'[c] = Askers[c]
    PROVE  UNCHANGED Promise!vars
  <1>1. Askers' = Askers
    <2>1. Askers = [d \in Clients |-> Askers[d]]
      BY DEF Askers
    <2>2. QED
      BY <2>1, OneCaller
  <1>2. QED
    BY <1>1 DEF Promise!vars, Seen

LEMMA PromiseAsk ==
    ASSUME IInv, NEW c \in Clients, Begin(c)
    PROVE  Promise!Ask(c)
  <1>1. PICK p \in Prices, t \in Thresholds :
          Become(c, [NoAttempt EXCEPT
                       !.pc = IF opened = 0 THEN "ensure" ELSE "query",
                       !.start = height, !.price = p, !.threshold = t,
                       !.seen = opened, !.filtered = opened, !.escrow = escrow])
    BY DEF Begin
  <1>2. attempt[c].pc = "idle" /\ UNCHANGED <<chainVars, daemonVars>>
    BY DEF Begin
  <1>3. Askers'[c] = Promise!Asked(p, t)
    <2>1. attempt'[c] = [NoAttempt EXCEPT
                            !.pc = IF opened = 0 THEN "ensure" ELSE "query",
                            !.start = height, !.price = p, !.threshold = t,
                            !.seen = opened, !.filtered = opened, !.escrow = escrow]
      BY <1>1, OneCaller
    <2>2. /\ attempt'[c].pc \notin {"idle", "ready"}
          /\ attempt'[c].price = p /\ attempt'[c].threshold = t
          /\ attempt'[c].start = height
      BY <2>1 DEF NoAttempt
    <2>3. Askers'[c] = View(attempt'[c])
      BY AskerView
    <2>4. View(attempt'[c]) = [has |-> "asked", price |-> p, threshold |-> t,
                               since |-> height, channel |-> 0, from |-> 0]
      BY <2>2 DEF View
    <2>5. QED
      BY <2>3, <2>4 DEF Promise!Asked
  <1>4. Askers[c].has = "nothing"
    <2>1. Askers[c] = View(attempt[c])
      BY AskerView
    <2>2. QED
      BY <1>2, <2>1 DEF View
  <1>5. Askers' = [Askers EXCEPT ![c] = Askers'[c]]
    BY <1>1, OneCaller
  <1>6. UNCHANGED <<wallet + escrow, value, expiration, dNonce, height>>
    BY <1>2 DEF chainVars, ledgerVars, daemonVars
  <1>7. Askers' = [Askers EXCEPT ![c] = Promise!Asked(p, t)]
    BY <1>3, <1>5
  <1>8. QED
    BY <1>4, <1>6, <1>7, Zenon DEF Promise!Ask

LEMMA PromiseLeave ==
    ASSUME IInv, NEW c \in Clients, Fail(c) \/ Abandon(c) \/ Discard(c)
    PROVE  Promise!Leave(c)
  <1>1. Become(c, NoAttempt) /\ UNCHANGED <<chainVars, daemonVars>> /\ attempt[c].pc # "idle"
    BY DEF Fail, Abandon, Discard
  <1>0. /\ Askers[c] = View(attempt[c]) /\ Askers'[c] = View(attempt'[c])
        /\ attempt'[c] = NoAttempt
    BY <1>1, OneCaller, AskerView
  <1>2. Askers'[c] = Promise!Nobody
    BY <1>0 DEF View, NoAttempt, Promise!Nobody
  <1>3. Askers[c].has # "nothing"
    BY <1>0, <1>1 DEF View
  <1>4. Askers' = [Askers EXCEPT ![c] = Promise!Nobody]
    BY <1>1, <1>2, OneCaller
  <1>5. UNCHANGED <<wallet + escrow, value, expiration, dNonce, height>>
    BY <1>1 DEF chainVars, ledgerVars, daemonVars
  <1>6. QED
    BY <1>3, <1>4, <1>5, Zenon DEF Promise!Leave

\* A channel is given exactly when the strategy is returned, and it is worth then
\* what EnsuredFunds and EnsuredExpiration say.
LEMMA PromiseGive ==
    ASSUME IInv, IInv', EnsuredFunds', EnsuredExpiration', NEW c \in Clients,
           Reuse(c) \/ Finish(c)
    PROVE  Promise!Give(c)
  <1>0. /\ Askers[c] = View(attempt[c]) /\ Askers'[c] = View(attempt'[c])
        /\ attempt \in [Clients -> Attempt]
    BY AskerView DEF IInv, TypeOK
  <1>1. /\ attempt[c].pc \notin {"idle", "ready"} /\ attempt'[c].pc = "ready"
        /\ attempt'[c].price = attempt[c].price
        /\ attempt'[c].threshold = attempt[c].threshold
        /\ attempt'[c].start = attempt[c].start
        /\ UNCHANGED <<chainVars, daemonVars>>
        /\ \E a : Become(c, a)
    <2>1. CASE Reuse(c)
      BY <1>0, <2>1 DEF Reuse, Become, Attempt
    <2>2. CASE Finish(c)
      BY <1>0, <2>2 DEF Finish, Become, Attempt
    <2>3. QED
      BY <2>1, <2>2
  <1> DEFINE new == Askers'[c]
  <1>2. /\ Askers[c].has = "asked"
        /\ new = Promise!Given(Askers[c], new.channel, new.from)
    BY <1>0, <1>1 DEF View, Promise!Given
  <1>3. Askers' = [Askers EXCEPT ![c] = new]
    BY <1>1, OneCaller
  <1>4. /\ new.channel = attempt'[c].id /\ new.from = attempt'[c].signed
        /\ new.price = attempt'[c].price /\ new.threshold = attempt'[c].threshold
        /\ new.since = attempt'[c].start
    BY <1>0, <1>1 DEF View
  <1>5. new.channel \in ChanId
    <2>1. attempt'[c].id \in 1..opened' /\ opened' \in 0..MaxChannels
      BY <1>1 DEF IInv, Shape, AttemptShape, TypeOK, LedgerTypeOK
    <2>2. QED
      BY <1>4, <2>1, ConstantTypes DEF ChanId
  <1>6. /\ dNonce'[new.channel] = 0 => value'[new.channel] >= new.from + new.price
        /\ expiration'[new.channel] > new.since + Patience + new.threshold
    BY <1>1, <1>4 DEF EnsuredFunds, EnsuredExpiration, Unclaimed, Ready
  <1>7. UNCHANGED <<wallet + escrow, value, expiration, dNonce, height>>
    BY <1>1 DEF chainVars, ledgerVars, daemonVars
  <1>8. Promise!Valid(new)
    BY <1>6, <1>7 DEF Promise!Valid
  <1>9. Askers' = [Askers EXCEPT ![c] =
                      Promise!Given(Askers[c], Askers'[c].channel, Askers'[c].from)]
    BY <1>2, <1>3
  <1>10. QED
    BY <1>2, <1>5, <1>7, <1>8, <1>9, Zenon DEF Promise!Give

\* What an attempt does before it is over, its caller does not see.
LEMMA PromiseHides ==
    ASSUME IInv, NEW c \in Clients,
           DaemonReplies(c) \/ DaemonNotFound(c) \/ OpenNewChannel(c) \/ DepositMissing(c)
           \/ DepositSeen(c) \/ AdjustChannel(c)
    PROVE  UNCHANGED Promise!vars
  <1>0. /\ attempt \in [Clients -> Attempt]
        /\ Askers[c] = View(attempt[c]) /\ Askers'[c] = View(attempt'[c])
    BY AskerView DEF IInv, TypeOK
  <1>1. /\ \E a : Become(c, a)
        /\ attempt[c].pc \notin {"idle", "ready"} /\ attempt'[c].pc \notin {"idle", "ready"}
        /\ attempt'[c].price = attempt[c].price
        /\ attempt'[c].threshold = attempt[c].threshold
        /\ attempt'[c].start = attempt[c].start
    <2>1. CASE DaemonReplies(c)
      BY <1>0, <2>1 DEF DaemonReplies, Become, Attempt
    <2>2. CASE DaemonNotFound(c)
      BY <1>0, <2>2 DEF DaemonNotFound, Become, Attempt
    <2>3. CASE OpenNewChannel(c)
      BY <1>0, <2>3 DEF OpenNewChannel, Become, Attempt
    <2>4. CASE DepositMissing(c)
      BY <1>0, <2>4 DEF DepositMissing, Become, Attempt
    <2>5. CASE DepositSeen(c)
      BY <1>0, <2>5 DEF DepositSeen, Become, Attempt
    <2>6. CASE AdjustChannel(c)
      BY <1>0, <2>6 DEF AdjustChannel, Become, Attempt
    <2>7. QED
      BY <2>1, <2>2, <2>3, <2>4, <2>5, <2>6
  <1>2. View(attempt'[c]) = View(attempt[c])
    BY <1>1 DEF View
  <1>3. UNCHANGED Seen
    BY DEF DaemonReplies, DaemonNotFound, OpenNewChannel, DepositMissing, DepositSeen,
           AdjustChannel, Seen, chainVars, ledgerVars, daemonVars
  <1>4. QED
    BY <1>0, <1>1, <1>2, <1>3, Hidden

\* To its caller, an attempt that blocks is one that goes on.
LEMMA PromiseHidesStuck ==
    ASSUME IInv, NEW c \in Clients, SubscribeFails(c)
    PROVE  UNCHANGED Promise!vars
  <1>1. Askers[c] = View(attempt[c]) /\ Askers'[c] = View(attempt'[c])
    BY AskerView
  <1>2. attempt'[c] = Stuck(c)
    BY StuckStep, OneCaller
  <1>3. View(attempt'[c]) = View(attempt[c])
    BY <1>2, StuckStep, StuckFields DEF View
  <1>4. UNCHANGED Seen
    BY StuckStep DEF Seen, chainVars, ledgerVars, daemonVars
  <1>5. QED
    BY <1>1, <1>3, <1>4, StuckStep, Hidden

-----------------------------------------------------------------------------
(* The steps of the chain, the daemon and the provider. *)

\* An event that arrives changes nothing a caller sees: one that has its channel
\* waits for none.
LEMMA DeliveredHidden ==
    ASSUME IInv, NEW tx, attempt' = [c \in Clients |-> Delivered(c, tx)]
    PROVE  Askers' = Askers
  <1>1. ASSUME NEW c \in Clients PROVE View(attempt'[c]) = View(attempt[c])
    <2>1. attempt[c] \in Attempt /\ AttemptShape(attempt[c])
      BY DEF IInv, TypeOK, Shape
    <2>2. Reaches(c, tx) \subseteq attempt[c].await
      BY DEF Reaches
    <2>3. attempt[c].pc = "ready" => "open" \notin Reaches(c, tx)
      BY <2>1, <2>2 DEF AttemptShape
    <2>4. attempt'[c] = Delivered(c, tx)
      OBVIOUS
    <2>5. /\ attempt'[c].pc = attempt[c].pc /\ attempt'[c].price = attempt[c].price
          /\ attempt'[c].threshold = attempt[c].threshold
          /\ attempt'[c].start = attempt[c].start
          /\ attempt'[c].signed = attempt[c].signed
          /\ attempt[c].pc = "ready" => attempt'[c].id = attempt[c].id
      BY <2>1, <2>3, <2>4 DEF Delivered, Attempt
    <2>6. QED
      BY <2>5 DEF View
  <1>2. \A c \in Clients : Askers'[c] = Askers[c]
    BY <1>1, AskerView
  <1>3. Askers = [c \in Clients |-> Askers[c]] /\ Askers' = [c \in Clients |-> Askers'[c]]
    BY DEF Askers
  <1>4. QED
    BY <1>2, <1>3

\* A mined transaction that locks tokens or moves an expiration is Fund.
LEMMA PromiseFund ==
    ASSUME IInv, Fresh, Mine
    PROVE  (\E i \in ChanId : Promise!Fund(i)) \/ UNCHANGED Promise!vars
  <1> DEFINE tx == Head(mempool)
  <1>1. tx \in Tx /\ (Opens(tx) \/ tx.kind = "deposit" \/ tx.id \in 1..opened)
    BY DEF Mine, IInv, TypeOK, LedgerTypeOK, Shape, MempoolShape
  <1>2. UNCHANGED <<height, dNonce>>
    BY DEF Mine, daemonVars
  <1>3. \/ UNCHANGED <<ledgerVars, attempt>>
        \/ /\ Accepted(tx) /\ Apply(tx)
           /\ attempt' = [c \in Clients |-> Delivered(c, tx)]
    BY DEF Mine
  <1> HIDE DEF tx
  <1>4. CASE UNCHANGED <<ledgerVars, attempt>>
    <2>1. Askers' = Askers
      BY <1>4 DEF Askers, Ready
    <2>2. QED
      BY <1>2, <1>4, <2>1 DEF Promise!vars, ledgerVars
  <1>5. CASE Accepted(tx) /\ Apply(tx) /\ attempt' = [c \in Clients |-> Delivered(c, tx)]
    <2>1. Askers' = Askers
      BY <1>5, DeliveredHidden
    <2>2. /\ wallet \in Nat /\ escrow \in Nat /\ opened \in 0..MaxChannels
          /\ value \in [ChanId -> Nat] /\ expiration \in [ChanId -> Nat]
          /\ Pulled(tx) \in Nat /\ Locked(tx) \in Nat /\ tx.exp \in Nat
      BY <1>1 DEF IInv, TypeOK, LedgerTypeOK, Pulled, Locked, Tx
    <2>3. /\ wallet' = wallet - Pulled(tx) /\ Pulled(tx) <= wallet
          /\ escrow' = (escrow + Pulled(tx)) - Locked(tx)
          /\ Locked(tx) <= escrow + Pulled(tx)
      BY <1>5 DEF Accepted, Apply
    <2>4. wallet' + escrow' = (wallet + escrow) - Locked(tx)
          /\ Locked(tx) <= wallet + escrow
      BY <2>2, <2>3
    <2>5. CASE tx.kind = "deposit"
      <3>1. Locked(tx) = 0 /\ UNCHANGED <<value, expiration>>
        BY <1>5, <2>5 DEF Locked, Apply, Opens, Extends
      <3>2. wallet' + escrow' = wallet + escrow
        BY <2>2, <2>4, <3>1
      <3>3. QED
        BY <1>2, <2>1, <3>1, <3>2 DEF Promise!vars
    <2>6. CASE tx.kind # "deposit"
      <3> DEFINE i == Target(tx)
      <3>1. i \in ChanId
        BY <1>1, <1>5, <2>2, <2>6, ConstantTypes DEF Target, ChanId, Accepted
      <3>2. value' = [value EXCEPT ![i] = @ + Locked(tx)]
        BY <1>5, <2>6 DEF Apply
      <3>3. \/ expiration' = expiration
            \/ expiration' = [expiration EXCEPT ![i] = tx.exp] /\ tx.exp >= expiration[i]
        <4>1. CASE Opens(tx)
          BY <1>5, <2>2, <3>1, <4>1 DEF Apply, Target, Fresh
        <4>2. CASE ~Opens(tx)
          BY <1>5, <4>2 DEF Apply, Target, Accepted
        <4>3. QED
          BY <4>1, <4>2
      <3> HIDE DEF i
      <3>4. expiration'[i] >= expiration[i] /\ expiration' = [expiration EXCEPT ![i] = expiration'[i]]
        BY <2>2, <3>1, <3>3
      <3>5. /\ (wallet + escrow)' \in 0..(wallet + escrow)
            /\ (wallet + escrow) - (wallet + escrow)' = Locked(tx)
        BY <2>2, <2>4
      <3>6. Promise!Fund(i)
        BY <1>2, <2>1, <3>2, <3>4, <3>5 DEF Promise!Fund
      <3>7. QED
        BY <3>1, <3>6
    <2>7. QED
      BY <2>5, <2>6
  <1>6. QED
    BY <1>3, <1>4, <1>5

LEMMA PromiseClaims ==
    ASSUME IInv, NEW i \in ChanId, StartClaim(i) \/ FinishClaim(i)
    PROVE  Promise!StartClaim(i) \/ Promise!Claim(i)
  <1>1. Askers' = Askers
    BY DEF StartClaim, FinishClaim, Askers, Ready
  <1>2. CASE StartClaim(i)
    BY <1>1, <1>2 DEF StartClaim, Promise!StartClaim, chainVars, ledgerVars
  <1>3. CASE FinishClaim(i)
    <2>1. /\ value \in [ChanId -> Nat] /\ inClaim[i] \in Nat /\ dNonce[i] \in Nat
          /\ dSigned[i] \in Nat /\ dSigned[i] + inClaim[i] <= value[i]
          /\ dNonce[i] = 0 => inClaim[i] = 0
      BY DEF IInv, TypeOK, LedgerTypeOK, Shape, DaemonCovered
    <2>2. /\ inClaim[i] > 0 /\ value' = [value EXCEPT ![i] = @ - inClaim[i]]
          /\ UNCHANGED <<wallet, escrow, expiration, dNonce, height>>
      BY <1>3 DEF FinishClaim
    <2>3. dNonce[i] > 0
      BY <2>1, <2>2
    <2>4. value'[i] \in 0..value[i] /\ value' = [value EXCEPT ![i] = value'[i]]
      BY <2>1, <2>2
    <2>5. QED
      BY <1>1, <2>2, <2>3, <2>4 DEF Promise!Claim
  <1>4. QED
    BY <1>2, <1>3

LEMMA PromiseStep ==
    ASSUME IInv, IInv', Fresh, EnsuredFunds', EnsuredExpiration', [Next]_vars
    PROVE  [Promise!Next]_(Promise!vars)
  <1>1. ASSUME NEW c \in Clients, Begin(c) \/ ClientStep(c) \/ Fail(c) \/ SubscribeFails(c) \/ Discard(c)
        PROVE  Promise!Next \/ UNCHANGED Promise!vars
    BY <1>1, PromiseAsk, PromiseGive, PromiseLeave, PromiseHides, PromiseHidesStuck DEF ClientStep, Promise!Next
  <1>2. ASSUME NEW c \in Clients, Serve(c)
        PROVE  UNCHANGED Promise!vars
    BY <1>2 DEF Serve, Promise!vars, Askers, Ready, chainVars, ledgerVars
  <1>3. ASSUME NEW i \in ChanId, StartClaim(i) \/ FinishClaim(i)
        PROVE  Promise!Next
    BY <1>3, PromiseClaims DEF Promise!Next
  <1>4. CASE Mine
    BY <1>4, PromiseFund DEF Promise!Next
  <1>5. CASE Tick
    BY <1>5 DEF Tick, Promise!Next, Promise!Pass, Askers, Ready, ledgerVars, daemonVars
  <1>6. CASE UNCHANGED vars
    BY <1>6 DEF vars, Promise!vars, Askers, Ready, chainVars, ledgerVars, daemonVars
  <1>7. QED
    BY <1>1, <1>2, <1>3, <1>4, <1>5, <1>6 DEF Next

\* With one announced price and threshold, NewPaidStrategy and everything below it
\* implement ChannelPromise: whatever the interleaving of queries, transactions,
\* events, timers, claims and other attempts, a caller sees requests that are
\* answered by valid channels or errors, and tokens that only move into channels.
THEOREM PromiseKept ==
    ASSUME NEW p, NEW t, Prices = {p}, Thresholds = {t}
    PROVE  Spec => KeepsPromise
  <1>1. Init => Promise!Init
    BY LedgerAssumption DEF Init, LedgerInit, Promise!Init, Promise!Nobody, Askers,
                            Ready, NoAttempt
  <1>2. IInv /\ Fresh /\ [Next]_vars => Fresh'
    BY StepFresh
  <1>3. Spec => []EnsuredFunds
    BY FundsEnsured
  <1>4. Spec => []EnsuredExpiration
    BY ExpirationEnsured
  <1>5. IInv /\ IInv' /\ Fresh /\ EnsuredFunds' /\ EnsuredExpiration' /\ [Next]_vars
           => [Promise!Next]_(Promise!vars)
    BY PromiseStep
  <1>6. QED
    BY <1>1, <1>2, <1>3, <1>4, <1>5, InitFresh, AlwaysIInv, PTL
       DEF Spec, KeepsPromise, Promise!Spec
================================================================================
