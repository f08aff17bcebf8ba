---------------------------- MODULE PaidCallsProofs ----------------------------
(***************************************************************************)
(* Proofs about PaidCalls, for any number of goroutines, calls, losses,    *)
(* other clients and claims.                                               *)
(***************************************************************************)
EXTENDS PaidCalls, TLAPS

-----------------------------------------------------------------------------
(* The inductive invariant: every amount anybody remembers, in a field, in *)
(* a goroutine or in a request, is bounded, and so is every nonce.         *)

PaymentWithin(p, e) ==
    /\ p.amount <= e /\ p.signedAmount <= e
    /\ p.nonce <= dNonce /\ p.signedNonce <= dNonce

\* An increment that was begun still fits: its price is counted already.
ThreadWithin(r, e) ==
    /\ r.pc = "add" => r.base + Price <= e
    /\ r.answer.amount <= e /\ r.answer.nonce <= dNonce
    /\ PaymentWithin(r.payment, e)

Within(e) ==
    /\ signedAmount <= e
    /\ nonce <= dNonce
    /\ dSigned <= e
    /\ dSigned <= value
    /\ \A t \in Threads : ThreadWithin(thread[t], e)
    /\ \A p \in net : PaymentWithin(p, e)

IInv == TypeOK /\ Within(Exposure)

LEMMA Constants ==
    /\ Price \in Nat /\ Price > 0 /\ StartSigned \in Nat /\ Funds \in Nat
    /\ StartSigned <= Funds
  BY PaidAssumption

LEMMA ThreadFields ==
    ASSUME TypeOK, NEW t \in Threads
    PROVE  /\ thread[t] \in Thread
           /\ thread[t].base \in Nat /\ thread[t].payment \in Payment
           /\ thread[t].answer.amount \in Nat /\ thread[t].answer.nonce \in Nat
  BY DEF TypeOK, Thread

LEMMA IdleType == Idle \in Thread
  BY DEF Idle, Thread, PC, NoPayment, Payment

LEMMA IdleWithin == ASSUME NEW e \in Nat, dNonce \in Nat PROVE ThreadWithin(Idle, e)
  BY DEF ThreadWithin, PaymentWithin, Idle, NoPayment

LEMMA ExposureType == ASSUME TypeOK PROVE Exposure \in Nat
  <1>1. Price * (steps + others) \in Nat
    BY Constants DEF TypeOK
  <1>2. QED
    BY <1>1, Constants DEF Exposure

LEMMA ExposureSame ==
    ASSUME UNCHANGED <<steps, others>>
    PROVE  Exposure' = Exposure
  BY DEF Exposure

LEMMA ExposureGrows ==
    ASSUME TypeOK, \/ steps' = steps + 1 /\ others' = others
                   \/ others' = others + 1 /\ steps' = steps
    PROVE  Exposure' = Exposure + Price
  <1>1. steps' + others' = (steps + others) + 1
    BY DEF TypeOK
  <1>2. \A n \in Nat : Price * (n + 1) = Price * n + Price
    BY Constants
  <1>3. Price * (steps' + others') = Price * (steps + others) + Price
    BY <1>1, <1>2 DEF TypeOK
  <1>4. Price * (steps + others) \in Nat
    BY Constants DEF TypeOK
  <1>5. QED
    BY <1>3, <1>4, Constants DEF Exposure

LEMMA WithinMonotone ==
    ASSUME NEW e \in Nat, NEW f \in Nat, e <= f, TypeOK, Within(e)
    PROVE  Within(f)
  <1>1. signedAmount <= f /\ dSigned <= f
    BY DEF Within, TypeOK
  <1>2. ASSUME NEW p \in Payment, PaymentWithin(p, e) PROVE PaymentWithin(p, f)
    BY <1>2 DEF PaymentWithin, Payment
  <1>3. ASSUME NEW t \in Threads PROVE ThreadWithin(thread[t], f)
    <2>1. ThreadWithin(thread[t], e)
      BY DEF Within
    <2>2. QED
      BY <1>2, <2>1, ThreadFields, Constants DEF ThreadWithin
  <1>4. \A p \in net : PaymentWithin(p, f)
    BY <1>2 DEF Within, TypeOK
  <1>5. QED
    BY <1>1, <1>3, <1>4 DEF Within

LEMMA InitIInv == Init => IInv
  <1> SUFFICES ASSUME Init PROVE IInv
    OBVIOUS
  <1>1. TypeOK
    BY Constants, IdleType DEF Init, TypeOK
  <1>2. Exposure = StartSigned
    BY Constants DEF Init, Exposure
  <1>3. Within(StartSigned)
    BY <1>1, Constants, IdleWithin DEF Init, Within
  <1>4. QED
    BY <1>1, <1>2, <1>3 DEF IInv

\* A step in which one goroutine changes its own record, and the fields at most
\* to values that are within the bound.
LEMMA OwnStep ==
    ASSUME TypeOK, NEW e \in Nat, Within(e), NEW t \in Threads, NEW r \in Thread,
           ThreadWithin(r, e), Become(t, r),
           signedAmount' \in Nat, signedAmount' <= e, nonce' \in Nat, nonce' <= dNonce,
           UNCHANGED <<daemonVars, served, others>>, lost' \in Nat, steps' \in Nat,
           kept' \in Nat,
           net' \subseteq net \cup {r.payment}
    PROVE  TypeOK' /\ Within(e)'
  <1>1. TypeOK'
    BY DEF TypeOK, Become, daemonVars, Thread
  <1>2. \A u \in Threads : ThreadWithin(thread'[u], e)
    BY DEF Become, TypeOK, Within
  <1>3. \A p \in net' : PaymentWithin(p, e)
    BY DEF Within, ThreadWithin
  <1>4. UNCHANGED <<dSigned, dNonce, value>>
    BY DEF daemonVars
  <1>5. QED
    BY <1>1, <1>2, <1>3, <1>4 DEF Within, ThreadWithin, PaymentWithin

\* The same, when nothing was added to the exposure.
LEMMA QuietStep ==
    ASSUME IInv, NEW t \in Threads, NEW r \in Thread, ThreadWithin(r, Exposure), Become(t, r),
           signedAmount' \in Nat, signedAmount' <= Exposure,
           nonce' \in Nat, nonce' <= dNonce,
           UNCHANGED <<daemonVars, steps, served, others>>, lost' \in Nat, kept' \in Nat,
           net' \subseteq net \cup {r.payment}
    PROVE  IInv'
  <1>1. Exposure \in Nat /\ Exposure' = Exposure
    BY ExposureType, ExposureSame DEF IInv
  <1>2. steps' \in Nat
    BY DEF IInv, TypeOK
  <1> DEFINE e == Exposure
  <1>3. e \in Nat /\ TypeOK /\ Within(e)
    BY <1>1 DEF IInv
  <1>4. TypeOK' /\ \A f \in Nat : f = Exposure => Within(f)'
    <2> SUFFICES ASSUME NEW f \in Nat, f = Exposure PROVE TypeOK' /\ Within(f)'
      BY <1>1
    <2>1. Within(f) /\ ThreadWithin(r, f) /\ signedAmount' <= f
      BY DEF IInv
    <2>2. QED
      BY <1>2, <1>3, <2>1, OwnStep
  <1>5. Within(Exposure)'
    BY <1>1, <1>4 DEF Within, ThreadWithin, PaymentWithin
  <1>6. QED
    BY <1>4, <1>5 DEF IInv

LEMMA Globals ==
    ASSUME IInv
    PROVE  /\ signedAmount \in Nat /\ nonce \in Nat /\ dSigned \in Nat /\ dNonce \in Nat
           /\ value \in Nat /\ steps \in Nat /\ served \in Nat /\ others \in Nat
           /\ lost \in Nat /\ kept \in Nat /\ Exposure \in Nat /\ net \subseteq Payment
           /\ signedAmount <= Exposure /\ nonce <= dNonce /\ dSigned <= Exposure
           /\ dSigned <= value /\ \A p \in net : PaymentWithin(p, Exposure)
  BY ExposureType DEF IInv, TypeOK, Within

LEMMA Known ==
    ASSUME IInv, NEW t \in Threads
    PROVE  /\ thread[t] \in Thread /\ thread[t].payment \in Payment
           /\ thread[t].base \in Nat
           /\ thread[t].answer.amount \in Nat /\ thread[t].answer.nonce \in Nat
           /\ ThreadWithin(thread[t], Exposure)
           /\ signedAmount \in Nat /\ nonce \in Nat /\ dSigned \in Nat /\ dNonce \in Nat
           /\ value \in Nat /\ steps \in Nat /\ served \in Nat /\ others \in Nat
           /\ lost \in Nat /\ kept \in Nat /\ Exposure \in Nat /\ net \subseteq Payment
           /\ signedAmount <= Exposure /\ nonce <= dNonce /\ dSigned <= Exposure
  BY Globals, ThreadFields DEF IInv, TypeOK, Within

LEMMA IdleStep ==
    ASSUME IInv, NEW t \in Threads, RefreshFails(t) \/ NotDelivered(t) \/ TimesOut(t)
    PROVE  IInv'
  <1>1. /\ Become(t, Idle) /\ lost' = lost + 1 /\ net' \subseteq net
        /\ UNCHANGED <<strategyVars, daemonVars, steps, served, others, kept>>
    BY DEF RefreshFails, NotDelivered, TimesOut
  <1>2. Idle \in Thread /\ ThreadWithin(Idle, Exposure)
    BY IdleType, IdleWithin, Known
  <1>3. QED
    BY <1>1, <1>2, Known, QuietStep DEF strategyVars

LEMMA StepBeginRefresh == ASSUME IInv, NEW t \in Threads, BeginRefresh(t) PROVE IInv'
  <1>1. PICK op \in Ops \cap {"refresh", "upload"} :
          Become(t, [Idle EXCEPT !.pc = "asked", !.op = op])
    BY DEF BeginRefresh
  <1> DEFINE r == [Idle EXCEPT !.pc = "asked", !.op = op]
  <1>2. r \in Thread
    BY <1>1, IdleType DEF Thread, PC, Operation
  <1>3. ThreadWithin(r, Exposure)
    BY Known DEF ThreadWithin, PaymentWithin, Idle, NoPayment
  <1>4. UNCHANGED <<strategyVars, net, daemonVars, steps, served, others, lost, kept>>
    BY DEF BeginRefresh
  <1> HIDE DEF r
  <1>5. QED
    BY <1>1, <1>2, <1>3, <1>4, Known, QuietStep DEF strategyVars, r

LEMMA StepAnswer == ASSUME IInv, NEW t \in Threads, Answer(t) PROVE IInv'
  <1> DEFINE r == [thread[t] EXCEPT !.pc = "answered",
                      !.answer = [nonce |-> dNonce, amount |-> dSigned]]
  <1>1. r \in Thread
    BY Known DEF Thread, PC
  <1>2. ThreadWithin(r, Exposure)
    BY Known DEF ThreadWithin, PaymentWithin, Thread
  <1>3. /\ Become(t, r)
        /\ UNCHANGED <<strategyVars, net, daemonVars, steps, served, others, lost, kept>>
    BY DEF Answer
  <1> HIDE DEF r
  <1>4. QED
    BY <1>1, <1>2, <1>3, Known, QuietStep DEF strategyVars

LEMMA StepApplyNonce == ASSUME IInv, NEW t \in Threads, ApplyNonce(t) PROVE IInv'
  <1> DEFINE r == [thread[t] EXCEPT !.pc = "refreshed"]
  <1>1. r \in Thread /\ ThreadWithin(r, Exposure)
    BY Known DEF Thread, PC, ThreadWithin
  <1>2. nonce' \in Nat /\ nonce' <= dNonce
    BY Known DEF ApplyNonce, Applied, ThreadWithin
  <1>3. /\ Become(t, r)
        /\ UNCHANGED <<signedAmount, net, daemonVars, steps, served, others, lost, kept>>
    BY DEF ApplyNonce
  <1> HIDE DEF r
  <1>4. QED
    BY <1>1, <1>2, <1>3, Known, QuietStep

LEMMA StepApplyAmount == ASSUME IInv, NEW t \in Threads, ApplyAmount(t) PROVE IInv'
  <1> DEFINE r == IF thread[t].op = "upload" THEN [thread[t] EXCEPT !.pc = "metadata"]
                                             ELSE Idle
  <1>1. r \in Thread /\ ThreadWithin(r, Exposure)
    <2>1. Idle \in Thread /\ ThreadWithin(Idle, Exposure)
      BY IdleType, IdleWithin, Known
    <2>2. /\ [thread[t] EXCEPT !.pc = "metadata"] \in Thread
          /\ ThreadWithin([thread[t] EXCEPT !.pc = "metadata"], Exposure)
      BY Known DEF Thread, PC, ThreadWithin
    <2>3. QED
      BY <2>1, <2>2
  <1>2. signedAmount' \in Nat /\ signedAmount' <= Exposure
    BY Known DEF ApplyAmount, Applied, ThreadWithin
  <1>3. /\ Become(t, r)
        /\ kept' \in Nat
        /\ UNCHANGED <<nonce, net, daemonVars, steps, served, others, lost>>
    BY Known DEF ApplyAmount
  <1> HIDE DEF r
  <1>4. QED
    BY <1>1, <1>2, <1>3, Known, QuietStep

LEMMA StepWriteSigned == ASSUME IInv, NEW t \in Threads, WriteSigned(t) PROVE IInv'
  <1> DEFINE r == IF thread[t].op = "next" THEN Idle ELSE [thread[t] EXCEPT !.pc = "nonce"]
  <1>1. r \in Thread /\ ThreadWithin(r, Exposure)
    <2>1. Idle \in Thread /\ ThreadWithin(Idle, Exposure)
      BY IdleType, IdleWithin, Known
    <2>2. /\ [thread[t] EXCEPT !.pc = "nonce"] \in Thread
          /\ ThreadWithin([thread[t] EXCEPT !.pc = "nonce"], Exposure)
      BY Known DEF Thread, PC, ThreadWithin
    <2>3. QED
      BY <2>1, <2>2
  <1>2. signedAmount' \in Nat /\ signedAmount' <= Exposure
    BY Known, Constants DEF WriteSigned, Incremented, ThreadWithin, At
  <1>3. /\ Become(t, r)
        /\ UNCHANGED <<nonce, net, daemonVars, steps, served, others, lost, kept>>
    BY DEF WriteSigned
  <1> HIDE DEF r
  <1>4. QED
    BY <1>1, <1>2, <1>3, Known, QuietStep

LEMMA StepHeaders ==
    ASSUME IInv, NEW t \in Threads, ReadNonce(t) \/ ReadAmount(t) \/ SignNonce(t)
    PROVE  IInv'
  <1>0. UNCHANGED <<strategyVars, net, daemonVars, steps, served, others, lost, kept>>
    BY DEF ReadNonce, ReadAmount, SignNonce
  <1>1. ASSUME NEW p \in Payment, PaymentWithin(p, Exposure), NEW pc \in PC \ {"add"},
               Become(t, [thread[t] EXCEPT !.pc = pc, !.payment = p])
        PROVE  IInv'
    <2> DEFINE r == [thread[t] EXCEPT !.pc = pc, !.payment = p]
    <2>1. r \in Thread
      BY Known DEF Thread
    <2>2. ThreadWithin(r, Exposure)
      BY <1>1, Known DEF ThreadWithin, Thread
    <2>3. Become(t, r)
      BY <1>1
    <2> HIDE DEF r
    <2>4. QED
      BY <1>0, <2>1, <2>2, <2>3, Known, QuietStep DEF strategyVars
  <1> DEFINE q == thread[t].payment
  <1>2. q \in Payment /\ PaymentWithin(q, Exposure)
    BY Known DEF ThreadWithin
  <1>3. CASE ReadNonce(t)
    <2> DEFINE p == [q EXCEPT !.nonce = nonce]
    <2>1. p \in Payment /\ PaymentWithin(p, Exposure)
      BY <1>2, Known DEF Payment, PaymentWithin
    <2>2. Become(t, [thread[t] EXCEPT !.pc = "amount", !.payment = p])
      BY <1>3, Known DEF ReadNonce, Thread
    <2> HIDE DEF p
    <2>3. QED
      BY <1>1, <2>1, <2>2 DEF PC
  <1>4. CASE ReadAmount(t)
    <2> DEFINE p == [q EXCEPT !.amount = signedAmount]
    <2>1. p \in Payment /\ PaymentWithin(p, Exposure)
      BY <1>2, Known DEF Payment, PaymentWithin
    <2>2. Become(t, [thread[t] EXCEPT !.pc = "signNonce", !.payment = p])
      BY <1>4, Known DEF ReadAmount, Thread
    <2> HIDE DEF p
    <2>3. QED
      BY <1>1, <2>1, <2>2 DEF PC
  <1>5. CASE SignNonce(t)
    <2> DEFINE p == [q EXCEPT !.signedNonce = nonce]
    <2>1. p \in Payment /\ PaymentWithin(p, Exposure)
      BY <1>2, Known DEF Payment, PaymentWithin
    <2>2. Become(t, [thread[t] EXCEPT !.pc = "signAmount", !.payment = p])
      BY <1>5, Known DEF SignNonce, Thread
    <2> HIDE DEF p
    <2>3. QED
      BY <1>1, <2>1, <2>2 DEF PC
  <1>6. QED
    BY <1>3, <1>4, <1>5

LEMMA StepSignAmount == ASSUME IInv, NEW t \in Threads, SignAmount(t) PROVE IInv'
  <1> DEFINE p == [thread[t].payment EXCEPT !.signedAmount = signedAmount]
             r == [thread[t] EXCEPT !.pc = "waiting", !.payment = p]
  <1>1. p \in Payment /\ PaymentWithin(p, Exposure)
    BY Known DEF Payment, PaymentWithin, ThreadWithin
  <1>2. /\ net' = net \cup {p} /\ Become(t, r)
        /\ UNCHANGED <<strategyVars, daemonVars, steps, served, others, lost, kept>>
    BY DEF SignAmount
  <1> HIDE DEF p
  <1>3. r \in Thread /\ r.payment = p
    BY <1>1, Known DEF Thread, PC
  <1>4. ThreadWithin(r, Exposure)
    BY <1>1, Known DEF ThreadWithin, Thread
  <1> HIDE DEF r
  <1>5. QED
    BY <1>2, <1>3, <1>4, Known, QuietStep DEF strategyVars

\* The price of an increment enters the exposure when the increment begins, so
\* the amount it read plus the price is within the new bound, whatever other
\* goroutines write before it does.
LEMMA IncrementBegins ==
    ASSUME IInv, NEW t \in Threads, NEW r \in Thread, Become(t, r),
           r.base = signedAmount, r.answer.amount <= Exposure, r.answer.nonce <= dNonce,
           PaymentWithin(r.payment, Exposure), steps' = steps + 1,
           UNCHANGED <<strategyVars, net, daemonVars, served, others, lost, kept>>
    PROVE  IInv'
  <1>1. Exposure' = Exposure + Price /\ Exposure \in Nat /\ Exposure + Price \in Nat
    BY ExposureGrows, ExposureType, Constants DEF IInv
  <1>2. ASSUME NEW f \in Nat, f = Exposure + Price PROVE TypeOK' /\ Within(f)'
    <2>1. Exposure <= f /\ TypeOK /\ Within(Exposure)
      BY <1>1, <1>2, Constants DEF IInv
    <2>2. Within(f)
      BY <1>1, <2>1, WithinMonotone
    <2>3. ThreadWithin(r, f)
      <3>1. r.base + Price <= f
        BY <1>1, <1>2, Known, Constants
      <3>2. r.answer.amount \in Nat /\ r.payment.amount \in Nat /\ r.payment.signedAmount \in Nat
        BY DEF Thread, Payment
      <3>3. QED
        BY <1>1, <2>1, <3>1, <3>2 DEF ThreadWithin, PaymentWithin
    <2>4. signedAmount' \in Nat /\ signedAmount' <= f
      BY <2>2, Known DEF strategyVars, Within
    <2>5. nonce' \in Nat /\ nonce' <= dNonce /\ lost' \in Nat /\ steps' \in Nat
          /\ kept' \in Nat
      BY Known DEF strategyVars
    <2>6. net' \subseteq net \cup {r.payment}
      OBVIOUS
    <2>7. QED
      BY <2>1, <2>2, <2>3, <2>4, <2>5, <2>6, OwnStep
  <1>3. TypeOK'
    BY <1>1, <1>2
  <1>4. Within(Exposure)'
    BY <1>1, <1>2 DEF Within, ThreadWithin, PaymentWithin
  <1>5. QED
    BY <1>3, <1>4 DEF IInv

LEMMA StepReadSigned == ASSUME IInv, NEW t \in Threads, ReadSigned(t) PROVE IInv'
  <1>1. /\ steps' = steps + 1
        /\ UNCHANGED <<strategyVars, net, daemonVars, served, others, lost, kept>>
    BY DEF ReadSigned
  <1>2. ASSUME NEW q \in Thread, ThreadWithin(q, Exposure),
               Become(t, [q EXCEPT !.pc = "add", !.base = signedAmount,
                                   !.payment.step = steps + 1])
        PROVE  IInv'
    <2> DEFINE p == [q.payment EXCEPT !.step = steps + 1]
               r == [q EXCEPT !.pc = "add", !.base = signedAmount, !.payment = p]
    <2>1. p \in Payment /\ PaymentWithin(p, Exposure)
      BY <1>2, Known DEF Thread, Payment, PaymentWithin, ThreadWithin
    <2>2. Become(t, r)
      BY <1>2 DEF Thread
    <2> HIDE DEF p
    <2>3. r \in Thread /\ r.base = signedAmount /\ r.answer = q.answer /\ r.payment = p
      BY <2>1, Known DEF Thread, PC
    <2> HIDE DEF r
    <2>4. QED
      BY <1>1, <1>2, <2>1, <2>2, <2>3, IncrementBegins DEF ThreadWithin
  <1>3. CASE /\ At(t, "metadata")
             /\ Become(t, [thread[t] EXCEPT !.pc = "add", !.base = signedAmount,
                              !.payment.step = steps + 1])
    BY <1>2, <1>3, Known
  <1>4. ASSUME NEW op \in Ops \cap {"call", "next"},
               Become(t, [Idle EXCEPT !.pc = "add", !.op = op, !.base = signedAmount,
                             !.payment.step = steps + 1])
        PROVE  IInv'
    <2> DEFINE q == [Idle EXCEPT !.op = op]
    <2>1. q \in Thread /\ ThreadWithin(q, Exposure)
      BY <1>4, IdleType, Known
         DEF Thread, Operation, ThreadWithin, PaymentWithin, Idle, NoPayment
    <2>2. Become(t, [q EXCEPT !.pc = "add", !.base = signedAmount,
                              !.payment.step = steps + 1])
      BY <1>4 DEF Idle
    <2> HIDE DEF q
    <2>3. QED
      BY <1>2, <2>1, <2>2
  <1>5. QED
    BY <1>3, <1>4 DEF ReadSigned

\* Whoever waits for the outcome becomes idle.
LEMMA OutcomeStep ==
    ASSUME IInv, NEW p, Outcome(p), net' = net \ {p}, dSigned' \in Nat, dSigned' <= Exposure,
           dSigned' <= value, served' \in Nat,
           UNCHANGED <<strategyVars, dNonce, value, steps, others, lost, kept>>
    PROVE  IInv'
  <1>1. Exposure' = Exposure
    BY ExposureSame
  <1>2. \A t \in Threads : thread'[t] \in Thread /\ ThreadWithin(thread'[t], Exposure)
    BY Known, IdleType, IdleWithin DEF Outcome
  <1>3. TypeOK'
    <2>1. thread' \in [Threads -> Thread]
      BY <1>2 DEF Outcome
    <2>2. QED
      BY <2>1 DEF IInv, TypeOK, strategyVars
  <1>4. Within(Exposure)'
    BY <1>1, <1>2 DEF IInv, Within, ThreadWithin, PaymentWithin, strategyVars
  <1>5. QED
    BY <1>3, <1>4 DEF IInv

LEMMA StepDaemon ==
    ASSUME IInv, NEW p \in net, Accept(p) \/ Reject(p)
    PROVE  IInv'
  <1>1. p.amount \in Nat /\ p.amount <= Exposure
    BY Globals DEF PaymentWithin, Payment
  <1>2. CASE Accept(p)
    <2>1. p.amount <= value
      BY <1>2 DEF Accept, MayAccept
    <2>2. QED
      BY <1>1, <1>2, <2>1, Globals, OutcomeStep DEF Accept
  <1>3. CASE Reject(p)
    BY <1>3, Globals, OutcomeStep DEF Reject, daemonVars
  <1>4. QED
    BY <1>2, <1>3

LEMMA StepOtherPays == ASSUME IInv, OtherPays PROVE IInv'
  <1>1. Exposure' = Exposure + Price /\ Exposure \in Nat /\ Exposure + Price \in Nat
    BY ExposureGrows, ExposureType, Constants DEF OtherPays, IInv
  <1>2. TypeOK'
    BY Constants DEF OtherPays, IInv, TypeOK, strategyVars
  <1>3. ASSUME NEW f \in Nat, f = Exposure + Price PROVE Within(f)'
    <2>1. Within(f)
      BY <1>1, <1>3, WithinMonotone, Constants DEF IInv
    <2>2. dSigned' <= f /\ dSigned' <= value
      BY <1>1, <1>3, Globals, Constants DEF OtherPays
    <2>3. QED
      BY <2>1, <2>2 DEF OtherPays, Within, ThreadWithin, PaymentWithin, strategyVars
  <1>4. Within(Exposure)'
    BY <1>1, <1>3 DEF Within, ThreadWithin, PaymentWithin
  <1>5. QED
    BY <1>2, <1>4 DEF IInv

LEMMA StepClaim == ASSUME IInv, Claim PROVE IInv'
  <1>1. Exposure' = Exposure /\ Exposure \in Nat
    BY ExposureSame, Globals DEF Claim
  <1>2. value - dSigned \in Nat
    BY Globals
  <1>3. TypeOK'
    BY <1>2 DEF Claim, IInv, TypeOK, strategyVars
  <1>4. dNonce \in Nat /\ dNonce' = dNonce + 1
    BY Globals DEF Claim
  <1>5. ASSUME NEW q \in Payment, PaymentWithin(q, Exposure)
        PROVE  /\ q.amount <= Exposure /\ q.signedAmount <= Exposure
               /\ q.nonce <= dNonce' /\ q.signedNonce <= dNonce'
    BY <1>4, <1>5 DEF PaymentWithin, Payment
  <1>6. ASSUME NEW t \in Threads PROVE ThreadWithin(thread[t], Exposure)'
    <2>1. thread[t].answer.nonce <= dNonce'
      BY <1>4, Known DEF ThreadWithin
    <2>2. thread' = thread
      BY DEF Claim
    <2>3. QED
      BY <1>1, <1>5, <2>1, <2>2, Known DEF ThreadWithin, PaymentWithin
  <1>7. nonce <= dNonce'
    BY <1>4, Globals
  <1>8. \A q \in net : PaymentWithin(q, Exposure)'
    <2> SUFFICES ASSUME NEW q \in net PROVE PaymentWithin(q, Exposure)'
      OBVIOUS
    <2>1. q \in Payment /\ PaymentWithin(q, Exposure)
      BY Globals
    <2>2. QED
      BY <1>1, <1>5, <2>1 DEF PaymentWithin
  <1>9. Within(Exposure)'
    BY <1>1, <1>2, <1>6, <1>7, <1>8, Globals DEF Claim, Within, strategyVars
  <1>10. QED
    BY <1>3, <1>9 DEF IInv

LEMMA StepIInv == IInv /\ [Next]_vars => IInv'
  <1> SUFFICES ASSUME IInv, [Next]_vars PROVE IInv'
    OBVIOUS
  <1>1. ASSUME NEW t \in Threads,
               ThreadStep(t) \/ RefreshFails(t) \/ NotDelivered(t) \/ TimesOut(t)
        PROVE  IInv'
    BY <1>1, IdleStep, StepBeginRefresh, StepApplyNonce, StepApplyAmount, StepReadSigned,
       StepWriteSigned, StepHeaders, StepSignAmount DEF ThreadStep
  <1>2. CASE DaemonStep
    BY <1>2, StepAnswer, StepDaemon DEF DaemonStep
  <1>3. CASE OtherPays \/ Claim
    BY <1>3, StepOtherPays, StepClaim
  <1>4. CASE UNCHANGED vars
    <2>1. Exposure' = Exposure
      BY <1>4, ExposureSame DEF vars
    <2>2. QED
      BY <1>4, <2>1 DEF vars, strategyVars, daemonVars, IInv, TypeOK, Within, ThreadWithin,
                        PaymentWithin
  <1>5. QED
    BY <1>1, <1>2, <1>3, <1>4 DEF Next

LEMMA AlwaysIInv == Spec => []IInv
  BY InitIInv, StepIInv, PTL DEF Spec

-----------------------------------------------------------------------------
(* All nonces together: a claim takes at most the exposure, once per nonce. *)

ClaimedBounded == Funds - value <= dNonce * Exposure

LEMMA InitClaimed == Init => ClaimedBounded
  <1> SUFFICES ASSUME Init PROVE ClaimedBounded
    OBVIOUS
  <1>1. dNonce = 0 /\ value = Funds /\ Exposure \in Nat
    BY InitIInv, Globals DEF Init
  <1>2. QED
    BY <1>1, Constants DEF ClaimedBounded

\* Everything but a claim leaves the channel's tokens and nonce alone.
LEMMA OthersClaimNothing ==
    ASSUME IInv, [Next]_vars, ~Claim
    PROVE  /\ UNCHANGED <<value, dNonce>>
           /\ Exposure' = Exposure \/ Exposure' = Exposure + Price
  <1> DEFINE QuietOrCounted ==
               /\ UNCHANGED <<value, dNonce>>
               /\ \/ UNCHANGED <<steps, others>>
                  \/ steps' = steps + 1 /\ others' = others
                  \/ others' = others + 1 /\ steps' = steps
  <1>1. QuietOrCounted
    <2>1. ASSUME NEW t \in Threads, ThreadStep(t) PROVE QuietOrCounted
      BY <2>1 DEF ThreadStep, BeginRefresh, ApplyNonce, ApplyAmount, ReadSigned, WriteSigned,
                  ReadNonce, ReadAmount, SignNonce, SignAmount, daemonVars
    <2>2. ASSUME NEW t \in Threads, RefreshFails(t) \/ NotDelivered(t) \/ TimesOut(t)
          PROVE  QuietOrCounted
      BY <2>2 DEF RefreshFails, NotDelivered, TimesOut, daemonVars
    <2>3. CASE DaemonStep
      BY <2>3 DEF DaemonStep, Answer, Accept, Reject, daemonVars
    <2>4. CASE OtherPays \/ UNCHANGED vars
      BY <2>4 DEF OtherPays, vars, daemonVars
    <2>5. QED
      BY <2>1, <2>2, <2>3, <2>4 DEF Next
  <1>2. QED
    BY <1>1, ExposureSame, ExposureGrows DEF IInv

LEMMA StepClaimed == ASSUME IInv, ClaimedBounded, [Next]_vars PROVE ClaimedBounded'
  <1> DEFINE e == Exposure
  <1>1. /\ e \in Nat /\ dNonce \in Nat /\ value \in Nat /\ dSigned \in Nat
        /\ dSigned <= e /\ Funds \in Nat /\ Price \in Nat
        /\ Funds - value <= dNonce * e
    BY Globals, Constants DEF ClaimedBounded
  <1>2. CASE Claim
    <2>1. /\ Exposure' = e /\ value' = value - dSigned /\ dNonce' = dNonce + 1
      BY <1>2, ExposureSame DEF Claim
    <2> HIDE DEF e
    <2>2. dNonce * e \in Nat /\ (dNonce + 1) * e = dNonce * e + e
      BY <1>1
    <2>3. Funds - (value - dSigned) <= (dNonce + 1) * e
      BY <1>1, <2>2
    <2>4. QED
      BY <2>1, <2>3 DEF ClaimedBounded
  <1>3. CASE ~Claim
    <2>1. UNCHANGED <<value, dNonce>> /\ (Exposure' = e \/ Exposure' = e + Price)
      BY <1>3, OthersClaimNothing
    <2> HIDE DEF e
    <2>2. dNonce * e \in Nat /\ dNonce * Price \in Nat
      BY <1>1
    <2>3. dNonce * (e + Price) = dNonce * e + dNonce * Price
      BY <1>1
    <2>4. Funds - value <= dNonce * (e + Price)
      BY <1>1, <2>2, <2>3
    <2>5. Funds - value <= dNonce * Exposure'
      BY <1>1, <2>1, <2>4
    <2>6. QED
      BY <2>1, <2>5 DEF ClaimedBounded
  <1>4. QED
    BY <1>2, <1>3

-----------------------------------------------------------------------------
(* The theorems. *)

\* However many goroutines share a strategy, and whatever is lost, late or
\* claimed, no signature promises more than one price per call begun, and all
\* that is claimed or claimable stays within that much per nonce.
THEOREM PaidExposureBounded == Spec => []ExposureBounded
  <1>1. Init => ClaimedBounded
    BY InitClaimed
  <1>2. IInv /\ ClaimedBounded /\ [Next]_vars => ClaimedBounded'
    BY StepClaimed
  <1>3. IInv /\ ClaimedBounded => ExposureBounded
    <2> SUFFICES ASSUME IInv, ClaimedBounded PROVE ExposureBounded
      OBVIOUS
    <2> DEFINE e == Exposure
    <2>1. /\ e \in Nat /\ dNonce \in Nat /\ value \in Nat /\ dSigned \in Nat
          /\ dSigned <= e /\ Funds \in Nat /\ Funds - value <= dNonce * e
      BY Globals, Constants DEF ClaimedBounded
    <2>2. Taken <= (dNonce + 1) * Exposure
      <3> HIDE DEF e
      <3>1. dNonce * e \in Nat /\ (dNonce + 1) * e = dNonce * e + e
        BY <2>1
      <3>2. (Funds - value) + dSigned <= (dNonce + 1) * e
        BY <2>1, <3>1
      <3>3. QED
        BY <3>2 DEF Taken, e
    <2>3. QED
      BY <2>2 DEF IInv, Within, ExposureBounded, PaymentWithin
  <1>4. QED
    BY <1>1, <1>2, <1>3, AlwaysIInv, PTL DEF Spec

\* No payment is ever signed for a nonce the daemon has not reached.
THEOREM PaidNonceNotAhead == Spec => []NonceNotAhead
  <1>1. IInv => NonceNotAhead
    BY DEF IInv, Within, NonceNotAhead, PaymentWithin
  <1>2. QED
    BY <1>1, AlwaysIInv, PTL

\* Type correctness; in particular a claim never drives the channel's value
\* below zero.
THEOREM PaidTypeCorrect == Spec => []TypeOK
  BY AlwaysIInv, PTL DEF IInv
================================================================================
