------------------------- MODULE StrategySelectProofs -------------------------
(***************************************************************************)
(* Proofs about StrategySelect, for any number of goroutines, strategies,  *)
(* blocks, failures and configurations.                                    *)
(***************************************************************************)
EXTENDS StrategySelect, Integers, SequenceTheorems, FiniteSetTheorems, TLAPS

-----------------------------------------------------------------------------
(* The inductive invariant. *)

\* Every variable has its type, and every reference is to a strategy that has
\* been constructed.
TypeOK ==
    /\ config \in Configs
    /\ objects \in Seq(Object) /\ Len(objects) <= MaxObjects
    /\ strategy \in 0..Len(objects)
    /\ training \in (0..Len(objects)) \cup {NoClient}
    /\ thread \in [Threads -> Thread]
    /\ \A t \in Threads : thread[t].ref <= Len(objects)
    /\ failures \in Nat
    /\ height \in Nat /\ height > 0

\* A strategy is installed as soon as there is one, and for good.
Installed == strategy = 0 => objects = <<>>

\* Why a default selection is about to make the client pay.
Reason == refused # {} \/ ~SignerPrivateKey

PaysForAReason ==
    config.freeCalls => \A t \in Threads : At(t, "makePaid") /\ Is(t, "call") => Reason

\* These belong to operations that choose a strategy or keep the one they have.
NotByDefault ==
    \A t \in Threads : thread[t].pc \in {"makePrepaid", "reload", "train"} => ~Is(t, "call")

\* What pays for a request exists.
Referenced ==
    \A t \in Threads :
        /\ At(t, "metadata") => IF Is(t, "call") THEN strategy # 0 ELSE thread[t].ref # 0
        /\ At(t, "headers") => thread[t].ref # 0

\* A first call that has not settled on a strategy.
Undecided(r) == r.op = "call" /\ r.pc \in {"makeFree", "makePaid", "refresh"}

Undecideds == {t \in Threads : Undecided(thread[t])}

\* Each default paid strategy used up a first call.
DefaultsCounted == Cardinality(DefaultPaid) + Cardinality(Undecideds) <= Cardinality(Threads)

IInv ==
    /\ TypeOK
    /\ Installed
    /\ TokenlessExplained
    /\ PaysForAReason
    /\ NotByDefault
    /\ Referenced
    /\ PaidOnlyIfRefused
    /\ DefaultsCounted

LEMMA ConstantTypes ==
    /\ IsFiniteSet(Threads) /\ Cardinality(Threads) \in Nat
    /\ Lifetime \in Nat /\ MaxObjects \in Nat
  BY SelectAssumption, FS_CardinalityType

\* All the sets counted are finite.
LEMMA Counts ==
    ASSUME TypeOK
    PROVE  /\ IsFiniteSet(DefaultPaid) /\ Cardinality(DefaultPaid) \in Nat
           /\ IsFiniteSet(Undecideds) /\ Cardinality(Undecideds) \in Nat
           /\ Cardinality(Undecideds) <= Cardinality(Threads)
  <1>1. DefaultPaid \in SUBSET (1..Len(objects)) /\ Len(objects) \in Int
    BY DEF TypeOK, DefaultPaid
  <1>2. IsFiniteSet(1..Len(objects))
    BY <1>1, FS_Interval
  <1>3. Undecideds \in SUBSET Threads
    BY DEF Undecideds
  <1>4. IsFiniteSet(DefaultPaid) /\ IsFiniteSet(Undecideds)
    BY <1>1, <1>2, <1>3, ConstantTypes, FS_Subset
  <1>5. QED
    BY <1>3, <1>4, ConstantTypes, FS_Subset, FS_CardinalityType

LEMMA ThreadTypes ==
    ASSUME TypeOK
    PROVE  /\ \A t \in Threads : thread[t] \in Thread /\ thread[t].ref \in 0..Len(objects)
           /\ \A i \in 1..Len(objects) : objects[i] \in Object
           /\ Len(objects) \in Nat /\ Len(objects) <= MaxObjects
           /\ strategy \in 0..Len(objects) /\ height \in Nat /\ height > 0
  BY DEF TypeOK, Thread

LEMMA IdleTypes ==
    /\ Idle \in Thread /\ Idle.ref = 0 /\ Idle.pc = "idle" /\ Idle.op = "none"
    /\ \A op \in Operation, pc \in PC :
          /\ [Idle EXCEPT !.op = op, !.pc = pc] \in Thread
          /\ [Idle EXCEPT !.op = op, !.pc = pc].op = op
          /\ [Idle EXCEPT !.op = op, !.pc = pc].pc = pc
          /\ [Idle EXCEPT !.op = op, !.pc = pc].ref = 0
  <1>1. 0 \in 0..MaxObjects
    BY ConstantTypes
  <1>2. Idle \in Thread /\ Idle.ref = 0 /\ Idle.pc = "idle" /\ Idle.op = "none"
    BY <1>1 DEF Idle, Thread, PC
  <1>3. QED
    BY <1>2 DEF Thread

LEMMA InitIInv == Init => IInv
  <1> SUFFICES ASSUME Init PROVE IInv
    OBVIOUS
  <1>1. Idle \in Thread /\ ~Undecided(Idle)
    BY IdleTypes DEF Undecided
  <1>2. objects = <<>> /\ strategy = 0 /\ training = NoClient /\ thread = [t \in Threads |-> Idle]
    BY DEF Init
  <1>3. TypeOK
    <2>1. objects \in Seq(Object) /\ Len(objects) = 0
      BY <1>2
    <2>2. \A t \in Threads : thread[t].ref = 0
      BY <1>2 DEF Idle
    <2>3. QED
      BY <1>1, <1>2, <2>1, <2>2, ConstantTypes DEF Init, TypeOK
  <1>4. DefaultPaid = {}
    BY <1>2 DEF DefaultPaid
  <1>5. DefaultsCounted
    BY <1>3, <1>4, Counts, ConstantTypes, FS_EmptySet DEF DefaultsCounted
  <1>6. QED
    BY <1>2, <1>3, <1>4, <1>5
       DEF IInv, Installed, TokenlessExplained, PaysForAReason, NotByDefault, Referenced, At,
           Idle, PaidOnlyIfRefused

-----------------------------------------------------------------------------
(* Steps that construct no strategy and issue no token. *)

\* A goroutine t goes on to r.  If it was about to refresh the strategy in use,
\* it still is, or the refresh has failed.
LEMMA LocalStep ==
    ASSUME IInv, NEW t \in Threads, NEW r \in Thread, r.ref <= Len(objects), Become(t, r),
           UNCHANGED <<config, strategy, objects, height>>,
           training' \in (0..Len(objects)) \cup {NoClient},
           failures' \in Nat, refused \subseteq refused',
           At(t, "reload") => r.pc = "refresh" /\ r.ref = strategy,
           At(t, "refresh") /\ thread[t].ref = strategy /\ strategy # 0 => strategy \in refused',
           r.pc = "makePaid" /\ r.op = "call" /\ config.freeCalls => Reason',
           r.pc \in {"makePrepaid", "reload", "train"} => r.op # "call",
           r.pc = "metadata" => IF r.op = "call" THEN strategy # 0 ELSE r.ref # 0,
           r.pc = "headers" => r.ref # 0,
           Undecided(r) => Undecided(thread[t]) \/ strategy = 0
    PROVE  IInv'
  <1>1. \A u \in Threads : thread'[u] = IF u = t THEN r ELSE thread[u]
    BY DEF IInv, TypeOK, Become
  <1>2. TypeOK'
    BY <1>1 DEF IInv, TypeOK, Become
  <1>3. DefaultPaid' = DefaultPaid /\ SignerPrivateKey' = SignerPrivateKey
    BY DEF DefaultPaid, SignerPrivateKey, ParsePrivateKeyECDSA, GetPrivateKey
  <1>4. Installed'
    BY DEF IInv, Installed
  <1>5. TokenlessExplained'
    <2> SUFFICES ASSUME strategy # 0, NeedsToken(strategy), objects[strategy].token = 0,
                        strategy \notin refused'
                 PROVE  \E u \in Threads : At(u, "reload")' \/ Refreshing(u, strategy)'
      BY DEF TokenlessExplained, NeedsToken, Refreshing, At
    <2>1. PICK u \in Threads : At(u, "reload") \/ Refreshing(u, strategy)
      BY DEF IInv, TokenlessExplained
    <2>2. CASE u = t
      BY <1>1, <2>1, <2>2 DEF At, Refreshing
    <2>3. CASE u # t
      BY <1>1, <2>1, <2>3 DEF At, Refreshing
    <2>4. QED
      BY <2>2, <2>3
  <1>6. PaysForAReason'
    BY <1>1, <1>3 DEF IInv, PaysForAReason, Reason, At, Is
  <1>7. PaidOnlyIfRefused'
    BY <1>3 DEF IInv, PaidOnlyIfRefused
  <1>8. DefaultsCounted'
    <2>1. CASE strategy = 0
      <3>1. DefaultPaid = {}
        BY <2>1 DEF IInv, Installed, DefaultPaid
      <3>2. Undecideds' \in SUBSET Threads
        BY DEF Undecideds
      <3>3. Cardinality(Undecideds') \in Nat /\ Cardinality(Undecideds') <= Cardinality(Threads)
        BY <3>2, ConstantTypes, FS_Subset, FS_CardinalityType
      <3>4. Cardinality(DefaultPaid') = 0
        BY <1>3, <3>1, FS_EmptySet
      <3>5. QED
        BY <3>3, <3>4, ConstantTypes DEF DefaultsCounted
    <2>2. CASE strategy # 0
      <3>1. Undecideds' \in SUBSET Undecideds
        BY <1>1, <2>2 DEF Undecideds
      <3>2. /\ Cardinality(Undecideds') \in Nat
            /\ Cardinality(Undecideds') <= Cardinality(Undecideds)
        BY <3>1, Counts, FS_Subset, FS_CardinalityType DEF IInv
      <3>3. Cardinality(DefaultPaid') = Cardinality(DefaultPaid)
        BY <1>3
      <3>4. Cardinality(DefaultPaid) \in Nat /\ Cardinality(Undecideds) \in Nat
        BY Counts DEF IInv
      <3>5. QED
        BY <3>2, <3>3, <3>4, ConstantTypes DEF IInv, DefaultsCounted
    <2>3. QED
      BY <2>1, <2>2
  <1>9. NotByDefault'
    BY <1>1 DEF IInv, NotByDefault, Is
  <1>10. Referenced'
    BY <1>1 DEF IInv, Referenced, At, Is
  <1>11. QED
    BY <1>2, <1>4, <1>5, <1>6, <1>7, <1>8, <1>9, <1>10 DEF IInv

\* The common case: only the program counter of an established operation moves.
LEMMA MoveStep ==
    ASSUME IInv, NEW t \in Threads, NEW pc, GoTo(t, pc),
           UNCHANGED <<config, strategy, training, objects, height>>,
           failures' \in Nat, refused \subseteq refused',
           ~At(t, "reload"), pc \in {"idle", "panic", "makePaid"},
           At(t, "refresh") /\ thread[t].ref = strategy /\ strategy # 0 => strategy \in refused',
           pc = "makePaid" /\ Is(t, "call") /\ config.freeCalls => Reason',
           pc = "makePaid" => Undecided(thread[t])
    PROVE  IInv'
  <1> DEFINE r == IF pc = "idle" THEN Idle ELSE [thread[t] EXCEPT !.pc = pc]
  <1>1. thread[t] \in Thread /\ thread[t].ref <= Len(objects)
    BY ThreadTypes DEF IInv
  <1>2. Idle \in Thread /\ Idle.ref = 0 /\ Idle.pc = "idle"
    BY IdleTypes
  <1>3. r \in Thread /\ r.ref <= Len(objects) /\ r.pc = pc
    <2>1. CASE pc = "idle"
      BY <1>2, <2>1, ThreadTypes DEF IInv
    <2>2. CASE pc # "idle"
      <3>1. pc \in PC
        BY DEF PC
      <3>2. QED
        BY <1>1, <2>2, <3>1 DEF Thread
    <2>3. QED
      BY <2>1, <2>2
  <1>4. r.op = "call" => Is(t, "call")
    BY <1>1 DEF Idle, Is, Thread
  <1>5. Become(t, r)
    BY DEF GoTo
  <1>6. training' \in (0..Len(objects)) \cup {NoClient}
    BY DEF IInv, TypeOK
  <1> HIDE DEF r
  <1>7. r.pc = "makePaid" /\ r.op = "call" /\ config.freeCalls => Reason'
    BY <1>3, <1>4
  <1>8. Undecided(r) => Undecided(thread[t])
    BY <1>3, <1>4 DEF Undecided
  <1>9. QED
    BY <1>3, <1>5, <1>6, <1>7, <1>8, LocalStep

LEMMA StepBeginCall == ASSUME IInv, NEW t \in Threads, BeginCall(t) PROVE IInv'
  <1> DEFINE r == [Idle EXCEPT !.op = "call", !.pc = AfterCheck]
  <1>1. r \in Thread /\ r.ref = 0 /\ r.pc = AfterCheck /\ r.op = "call"
    <2>1. AfterCheck \in PC /\ "call" \in Operation
      BY DEF AfterCheck, PC, Operation
    <2>2. QED
      BY <2>1, IdleTypes
  <1>2. /\ r.pc # "makePaid" \/ ~config.freeCalls
        /\ Undecided(r) => strategy = 0
        /\ r.pc \in {"makeFree", "makePaid"} \/ (r.pc = "metadata" /\ strategy # 0)
    BY <1>1 DEF AfterCheck, Undecided
  <1>3. Become(t, r) /\ UNCHANGED <<config, strategy, training, objects, refused, failures, height>>
    BY DEF BeginCall
  <1>4. ~At(t, "reload") /\ ~At(t, "refresh")
    BY DEF BeginCall, At
  <1> HIDE DEF r
  <1>5. r.ref <= Len(objects)
    BY <1>1, ThreadTypes DEF IInv
  <1>6. QED
    BY <1>1, <1>2, <1>3, <1>4, <1>5, LocalStep DEF IInv, TypeOK

\* A goroutine that begins something else.
LEMMA StepBeginOther ==
    ASSUME IInv, NEW t \in Threads, BeginSet(t) \/ BeginUpload(t)
    PROVE  IInv'
  <1>1. PICK r \in Thread : /\ Become(t, r) /\ r.op # "call" /\ r.ref <= Len(objects)
                              /\ r.pc \notin {"metadata", "headers"}
    <2>1. CASE BeginSet(t)
      <3>1. PICK op \in {"setFree", "setPaid", "setPrepaid"},
                 pc \in {"makeFree", "makePaid", "makePrepaid"} :
                    Become(t, [Idle EXCEPT !.op = op, !.pc = pc])
        BY <2>1 DEF BeginSet
      <3> DEFINE r == [Idle EXCEPT !.op = op, !.pc = pc]
      <3>2. op \in Operation /\ pc \in PC
        BY DEF Operation, PC
      <3>3. /\ r \in Thread /\ r.op # "call" /\ r.ref = 0
            /\ r.pc \notin {"metadata", "headers"}
        BY <3>2, IdleTypes
      <3>4. Become(t, r)
        BY <3>1
      <3> HIDE DEF r
      <3>5. QED
        BY <3>3, <3>4, ThreadTypes DEF IInv
    <2>2. CASE BeginUpload(t) /\ training = NoClient
      <3> DEFINE r == [Idle EXCEPT !.op = "upload", !.pc = "train"]
      <3>0. "upload" \in Operation /\ "train" \in PC
        BY DEF Operation, PC
      <3>1. r \in Thread /\ r.op # "call" /\ r.ref = 0 /\ r.pc = "train"
        BY <3>0, IdleTypes DEF Thread
      <3>2. Become(t, r)
        BY <2>2 DEF BeginUpload
      <3> HIDE DEF r
      <3>3. QED
        BY <3>1, <3>2, ThreadTypes DEF IInv
    <2>3. CASE BeginUpload(t) /\ training # NoClient
      <3> DEFINE r == [Idle EXCEPT !.op = "upload", !.pc = "refresh", !.ref = training]
      <3>1. training \in 0..Len(objects) /\ training \in 0..MaxObjects
        BY <2>3, ThreadTypes, ConstantTypes DEF IInv, TypeOK
      <3>2. r \in Thread /\ r.op # "call" /\ r.ref = training /\ r.pc = "refresh"
        BY <3>1, ConstantTypes DEF Idle, Thread, PC, Operation
      <3>3. Become(t, r)
        BY <2>3 DEF BeginUpload
      <3> HIDE DEF r
      <3>4. QED
        BY <3>1, <3>2, <3>3, ThreadTypes DEF IInv
    <2>4. QED
      BY <2>1, <2>2, <2>3
  <1>2. UNCHANGED <<config, strategy, training, objects, refused, failures, height>>
    BY DEF BeginSet, BeginUpload
  <1>3. ~At(t, "reload") /\ ~At(t, "refresh")
    BY DEF BeginSet, BeginUpload, At
  <1>4. ~Undecided(r)
    BY <1>1 DEF Undecided
  <1>5. QED
    BY <1>1, <1>2, <1>3, <1>4, LocalStep DEF IInv, TypeOK

\* A default that finds no key goes on to paid: the key is the reason.
LEMMA StepFreeWithoutKey == ASSUME IInv, NEW t \in Threads, FreeWithoutKey(t) PROVE IInv'
  <1> DEFINE pc == IF Is(t, "call") THEN "makePaid" ELSE "idle"
  <1>1. pc \in {"idle", "makePaid"} /\ GoTo(t, pc)
    BY DEF FreeWithoutKey
  <1>2. UNCHANGED <<config, strategy, training, objects, refused, failures, height>>
    BY DEF FreeWithoutKey
  <1>3. ~At(t, "reload") /\ ~At(t, "refresh")
    BY DEF FreeWithoutKey, At
  <1>4. Reason'
    BY <1>2 DEF FreeWithoutKey, Reason, SignerPrivateKey, ParsePrivateKeyECDSA, GetPrivateKey
  <1>5. pc = "makePaid" => Undecided(thread[t])
    BY DEF FreeWithoutKey, Undecided, At, Is
  <1> HIDE DEF pc
  <1>6. QED
    BY <1>1, <1>2, <1>3, <1>4, <1>5, MoveStep DEF IInv, TypeOK

\* A default whose refresh fails goes on to paid: the refusal is the reason.
LEMMA StepRefreshFails == ASSUME IInv, NEW t \in Threads, RefreshFails(t) PROVE IInv'
  <1> DEFINE pc == IF Is(t, "call") THEN "makePaid" ELSE "idle"
  <1>1. pc \in {"idle", "makePaid"} /\ GoTo(t, pc)
    BY DEF RefreshFails
  <1>2. /\ UNCHANGED <<config, strategy, training, objects, height>>
        /\ refused' = refused \cup {thread[t].ref}
    BY DEF RefreshFails
  <1>3. failures' \in Nat
    BY DEF RefreshFails, Fails, IInv, TypeOK
  <1>4. ~At(t, "reload")
    BY DEF RefreshFails, At
  <1>5. Reason'
    BY <1>2 DEF Reason
  <1>6. pc = "makePaid" => Undecided(thread[t])
    BY DEF RefreshFails, Undecided, At, Is
  <1> HIDE DEF pc
  <1>7. QED
    BY <1>1, <1>2, <1>3, <1>4, <1>5, <1>6, MoveStep

\* Steps that end an operation.
LEMMA StepEnd ==
    ASSUME IInv, NEW t \in Threads,
           PaidWithoutKey(t) \/ MakeFails(t) \/ NilStrategy(t) \/ NilContext(t) \/ Answered(t)
    PROVE  IInv'
  <1>1. PICK pc \in {"idle", "panic"} : GoTo(t, pc)
    BY DEF PaidWithoutKey, MakeFails, NilStrategy, NilContext, Answered
  <1>2. UNCHANGED <<config, strategy, training, objects, refused, height>>
    BY DEF PaidWithoutKey, MakeFails, NilStrategy, NilContext, Answered
  <1>3. failures' \in Nat
    BY DEF PaidWithoutKey, MakeFails, NilStrategy, NilContext, Answered, Fails, IInv, TypeOK
  <1>4. ~At(t, "reload") /\ ~(At(t, "refresh") /\ thread[t].ref # 0)
    BY DEF PaidWithoutKey, MakeFails, NeedsWebSocket, NilStrategy, NilContext, Answered, At
  <1>5. QED
    BY <1>1, <1>2, <1>3, <1>4, MoveStep

\* Steps that read the strategy in use, its token or the current block.
LEMMA StepRead ==
    ASSUME IInv, NEW t \in Threads, Reload(t) \/ BuildClient(t) \/ Metadata(t) \/ Headers(t)
    PROVE  IInv'
  <1>1. /\ thread[t] \in Thread /\ thread[t].ref \in 0..Len(objects)
        /\ strategy \in 0..Len(objects) /\ strategy \in 0..MaxObjects
        /\ height \in Nat
    BY ThreadTypes, ConstantTypes DEF IInv
  <1>2. UNCHANGED <<config, strategy, objects, refused, failures, height>>
    BY DEF Reload, BuildClient, Metadata, Headers
  <1>3. training' \in (0..Len(objects)) \cup {NoClient}
    BY <1>1 DEF Reload, BuildClient, Metadata, Headers, IInv, TypeOK
  <1>4. failures' \in Nat /\ refused \subseteq refused'
    BY <1>2 DEF IInv, TypeOK
  <1>5. CASE Reload(t)
    <2> DEFINE r == [thread[t] EXCEPT !.pc = "refresh", !.ref = strategy]
    <2>1. r \in Thread /\ r.pc = "refresh" /\ r.ref = strategy /\ r.op = thread[t].op
      BY <1>1 DEF Thread, PC
    <2>2. Become(t, r) /\ ~At(t, "refresh")
      BY <1>5 DEF Reload, At
    <2> HIDE DEF r
    <2>3. r.ref <= Len(objects)
      BY <1>1, <2>1
    <2>4. Undecided(r) => Undecided(thread[t]) \/ strategy = 0
      BY <1>5, <2>1 DEF Reload, At, Is, IInv, NotByDefault, Undecided
    <2>5. QED
      BY <1>2, <1>3, <1>4, <2>1, <2>2, <2>3, <2>4, LocalStep
  <1>6. CASE BuildClient(t)
    <2> DEFINE r == [thread[t] EXCEPT !.pc = "refresh", !.ref = strategy]
    <2>1. r \in Thread /\ r.pc = "refresh" /\ r.ref = strategy /\ r.op = thread[t].op
      BY <1>1 DEF Thread, PC
    <2>2. Become(t, r) /\ ~At(t, "refresh")
      BY <1>6 DEF BuildClient, At
    <2> HIDE DEF r
    <2>3. r.ref <= Len(objects)
      BY <1>1, <2>1
    <2>4. Undecided(r) => Undecided(thread[t]) \/ strategy = 0
      BY <1>6, <2>1 DEF BuildClient, At, Is, IInv, NotByDefault, Undecided
    <2>5. QED
      BY <1>2, <1>3, <1>4, <2>1, <2>2, <2>3, <2>4, LocalStep
  <1>7. CASE Metadata(t)
    <2> DEFINE ref == IF Is(t, "call") THEN strategy ELSE thread[t].ref
               r == [thread[t] EXCEPT !.pc = "headers", !.ref = ref, !.block = height]
    <2>1. ref \in 0..MaxObjects /\ ref <= Len(objects)
      BY <1>1 DEF Thread
    <2>2. r \in Thread /\ r.pc = "headers" /\ r.ref = ref
      <3> HIDE DEF ref
      <3>1. QED
        BY <1>1, <2>1 DEF Thread, PC
    <2>3. Become(t, r) /\ ~At(t, "refresh") /\ ~At(t, "reload")
      BY <1>7 DEF Metadata, At
    <2> HIDE DEF r, ref
    <2>4. ~Undecided(r)
      BY <2>2 DEF Undecided
    <2>5. ref # 0
      BY <1>7 DEF Metadata, IInv, Referenced, At, Is, ref
    <2>6. QED
      BY <1>2, <1>3, <1>4, <2>1, <2>2, <2>3, <2>4, <2>5, LocalStep
  <1>8. CASE Headers(t)
    <2> DEFINE token == objects[thread[t].ref].token
               r == [thread[t] EXCEPT !.pc = "sent", !.token = token]
    <2>1. token \in Nat
      BY <1>1, <1>8, ThreadTypes DEF Headers, IInv, Referenced, Object
    <2>2. r \in Thread /\ r.pc = "sent" /\ r.ref = thread[t].ref
      <3> HIDE DEF token
      <3>1. QED
        BY <1>1, <2>1 DEF Thread, PC
    <2>3. Become(t, r) /\ ~At(t, "refresh") /\ ~At(t, "reload")
      BY <1>8 DEF Headers, At
    <2> HIDE DEF r, token
    <2>4. ~Undecided(r)
      BY <2>2 DEF Undecided
    <2>5. QED
      BY <1>1, <1>2, <1>3, <1>4, <2>2, <2>3, <2>4, LocalStep
  <1>9. QED
    BY <1>5, <1>6, <1>7, <1>8

-----------------------------------------------------------------------------
(* Steps that install a strategy. *)

\* The new strategy has no token: someone goes on to refresh it, unless it is a
\* paid one.  A default one settles the call that made it, and is paid only for
\* a reason.
LEMMA InstallStep ==
    ASSUME IInv, NEW t \in Threads, NEW kind \in {"free", "paid", "prepaid"},
           NEW r \in Thread, r.ref <= Len(objects) + 1,
           Install(t, kind), Become(t, r),
           UNCHANGED <<config, training, refused, failures, height>>,
           kind # "paid" => r.pc = "reload" \/ (r.pc = "refresh" /\ r.ref = Len(objects) + 1),
           r.pc \notin {"makePrepaid", "train", "makePaid", "headers"},
           r.pc = "reload" => r.op # "call",
           r.pc = "metadata" => r.op = "call",
           Undecided(r) => Undecided(thread[t]),
           kind = "paid" /\ Is(t, "call") =>
               /\ Undecided(thread[t]) /\ ~Undecided(r)
               /\ config.freeCalls =>
                     refused # {} \/ (config.via = "core" /\ config.key = "prefixed")
    PROVE  IInv'
  <1> DEFINE n == Len(objects)
             new == [kind |-> kind, token |-> 0, chosen |-> ~Is(t, "call")]
  <1>1. /\ n \in Nat /\ n < MaxObjects /\ objects \in Seq(Object) /\ new \in Object
        /\ objects' = Append(objects, new) /\ strategy' = n + 1
    BY ThreadTypes DEF IInv, TypeOK, Install, Object
  <1>2. /\ Len(objects') = n + 1 /\ objects'[n + 1] = new /\ objects' \in Seq(Object)
        /\ \A i \in 1..n : objects'[i] = objects[i]
    BY <1>1
  <1>3. /\ DOMAIN objects = 1..n /\ DOMAIN objects' = 1..(n + 1)
        /\ \A i \in 1..(n + 1) : i \in 1..n \/ i = n + 1
        /\ \A i \in 1..n : i \in 1..(n + 1) /\ i # n + 1
        /\ n + 1 \in 1..(n + 1) /\ n + 1 # 0
    BY <1>1, <1>2
  <1>4. \A u \in Threads : thread'[u] = IF u = t THEN r ELSE thread[u]
    BY DEF IInv, TypeOK, Become
  <1>5. new.kind = kind /\ new.token = 0 /\ new.chosen = ~Is(t, "call")
    OBVIOUS
  <1> HIDE DEF new
  <1>6. TypeOK'
    <2>1. n + 1 <= MaxObjects /\ n + 1 \in 0..(n + 1)
      BY <1>1, ConstantTypes
    <2>2. training \in (0..(n + 1)) \cup {NoClient}
      BY <1>1 DEF IInv, TypeOK
    <2>3. thread' \in [Threads -> Thread]
      BY DEF IInv, TypeOK, Become
    <2>4. \A u \in Threads : thread'[u].ref <= n + 1
      BY <1>1, <1>4, ThreadTypes DEF IInv
    <2> HIDE DEF n
    <2>5. QED
      BY <1>1, <1>2, <2>1, <2>2, <2>3, <2>4 DEF IInv, TypeOK, NoClient
  <1>7. strategy' # 0 /\ Installed'
    BY <1>1 DEF Installed
  <1>8. DefaultPaid' = IF kind = "paid" /\ Is(t, "call") THEN DefaultPaid \cup {n + 1}
                       ELSE DefaultPaid
    <2> HIDE DEF n
    <2>1. QED
      BY <1>2, <1>3, <1>5 DEF DefaultPaid
  <1>9. n + 1 \notin DefaultPaid
    BY <1>3 DEF DefaultPaid
  <1> HIDE DEF n
  <1>10. TokenlessExplained'
    <2>1. NeedsToken(strategy)' => kind # "paid"
      BY <1>1, <1>2, <1>5 DEF NeedsToken
    <2>2. kind # "paid" => At(t, "reload")' \/ Refreshing(t, strategy)'
      BY <1>1, <1>4 DEF At, Refreshing, n
    <2>3. QED
      BY <2>1, <2>2 DEF TokenlessExplained
  <1>11. PaysForAReason' /\ NotByDefault' /\ Referenced'
    BY <1>4, <1>7 DEF IInv, PaysForAReason, NotByDefault, Referenced, At, Is, Reason,
       SignerPrivateKey, ParsePrivateKeyECDSA, GetPrivateKey
  <1>12. PaidOnlyIfRefused'
    BY <1>8 DEF IInv, PaidOnlyIfRefused
  <1>13. DefaultsCounted'
    <2>1. /\ IsFiniteSet(DefaultPaid) /\ Cardinality(DefaultPaid) \in Nat
          /\ IsFiniteSet(Undecideds) /\ Cardinality(Undecideds) \in Nat
          /\ Cardinality(DefaultPaid) + Cardinality(Undecideds) <= Cardinality(Threads)
      BY Counts DEF IInv, DefaultsCounted
    <2>2. CASE kind = "paid" /\ Is(t, "call")
      <3>1. Undecideds' = Undecideds \ {t} /\ t \in Undecideds
        BY <1>4, <2>2 DEF Undecideds
      <3>2. Cardinality(Undecideds') = Cardinality(Undecideds) - 1
        BY <2>1, <3>1, FS_RemoveElement
      <3>3. Cardinality(DefaultPaid') = Cardinality(DefaultPaid) + 1
        BY <1>8, <1>9, <2>1, <2>2, FS_AddElement
      <3>4. QED
        BY <2>1, <3>2, <3>3, ConstantTypes DEF DefaultsCounted
    <2>3. CASE ~(kind = "paid" /\ Is(t, "call"))
      <3>1. Undecideds' \in SUBSET Undecideds
        BY <1>4 DEF Undecideds
      <3>2. /\ Cardinality(Undecideds') \in Nat
            /\ Cardinality(Undecideds') <= Cardinality(Undecideds)
        BY <2>1, <3>1, FS_Subset, FS_CardinalityType
      <3>3. Cardinality(DefaultPaid') = Cardinality(DefaultPaid)
        BY <1>8, <2>3
      <3>4. QED
        BY <2>1, <3>2, <3>3, ConstantTypes DEF DefaultsCounted
    <2>4. QED
      BY <2>2, <2>3
  <1>14. QED
    BY <1>6, <1>7, <1>10, <1>11, <1>12, <1>13 DEF IInv

LEMMA StepMakeFree == ASSUME IInv, NEW t \in Threads, MakeFree(t) PROVE IInv'
  <1> DEFINE r == [thread[t] EXCEPT !.pc = "refresh", !.ref = Len(objects) + 1]
  <1>1. thread[t] \in Thread /\ Len(objects) + 1 \in 0..MaxObjects
    BY ThreadTypes, ConstantTypes DEF IInv, MakeFree, Install
  <1>2. /\ r \in Thread /\ r.pc = "refresh" /\ r.ref = Len(objects) + 1
        /\ r.op = thread[t].op
    BY <1>1 DEF Thread, PC
  <1>3. /\ Install(t, "free") /\ Become(t, r)
        /\ UNCHANGED <<config, training, refused, failures, height>>
    BY DEF MakeFree
  <1> HIDE DEF r
  <1>4. Undecided(r) => Undecided(thread[t])
    BY <1>2 DEF MakeFree, At, Undecided
  <1>5. r.ref <= Len(objects) + 1
    BY <1>2, ThreadTypes DEF IInv
  <1>6. QED
    BY <1>2, <1>3, <1>4, <1>5, InstallStep

LEMMA StepMakePrepaid == ASSUME IInv, NEW t \in Threads, MakePrepaid(t) PROVE IInv'
  <1> DEFINE r == [thread[t] EXCEPT !.pc = "reload"]
  <1>1. thread[t] \in Thread /\ thread[t].ref <= Len(objects) + 1
    BY ThreadTypes DEF IInv
  <1>2. /\ r \in Thread /\ r.pc = "reload" /\ r.ref = thread[t].ref
        /\ r.op = thread[t].op
    BY <1>1 DEF Thread, PC
  <1>3. /\ Install(t, "prepaid") /\ Become(t, r)
        /\ UNCHANGED <<config, training, refused, failures, height>>
    BY DEF MakePrepaid, GoTo
  <1>4. thread[t].op # "call"
    BY DEF MakePrepaid, At, Is, IInv, NotByDefault
  <1> HIDE DEF r
  <1>5. ~Undecided(r)
    BY <1>2 DEF Undecided
  <1>6. QED
    BY <1>1, <1>2, <1>3, <1>4, <1>5, InstallStep

LEMMA StepMakePaid == ASSUME IInv, NEW t \in Threads, MakePaid(t) PROVE IInv'
  <1> DEFINE r == IF Is(t, "call") THEN [thread[t] EXCEPT !.pc = "metadata"] ELSE Idle
  <1>1. thread[t] \in Thread /\ thread[t].ref <= Len(objects) + 1 /\ 0 <= Len(objects) + 1
    BY ThreadTypes DEF IInv
  <1>2. /\ r \in Thread /\ r.ref <= Len(objects) + 1
        /\ IF Is(t, "call") THEN r.pc = "metadata" /\ r.op = "call" ELSE r.pc = "idle"
    <2>1. CASE Is(t, "call")
      BY <1>1, <2>1 DEF Thread, PC, Is
    <2>2. CASE ~Is(t, "call")
      BY <1>1, <2>2, IdleTypes
    <2>3. QED
      BY <2>1, <2>2
  <1>3. /\ Install(t, "paid") /\ Become(t, r)
        /\ UNCHANGED <<config, training, refused, failures, height>>
    BY DEF MakePaid, GoTo
  <1>4. Is(t, "call") => Undecided(thread[t])
    BY DEF MakePaid, At, Is, Undecided
  <1>5. Is(t, "call") /\ config.freeCalls =>
          refused # {} \/ (config.via = "core" /\ config.key = "prefixed")
    BY DEF MakePaid, IInv, PaysForAReason, Reason, SignerPrivateKey, ParsePrivateKeyECDSA,
           GetPrivateKey
  <1> HIDE DEF r
  <1>6. ~Undecided(r)
    BY <1>2 DEF Undecided
  <1>7. QED
    BY <1>2, <1>3, <1>4, <1>5, <1>6, InstallStep

-----------------------------------------------------------------------------
(* A refresh that succeeds, and the rest. *)

LEMMA StepRefreshed == ASSUME IInv, NEW t \in Threads, Refreshed(t) PROVE IInv'
  <1> DEFINE ref == thread[t].ref
             token == IF objects[ref].kind = "paid" THEN 0 ELSE height + Lifetime
             r == IF AfterRefresh(t) = "metadata" THEN [thread[t] EXCEPT !.pc = "metadata"]
                  ELSE Idle
  <1>1. /\ ref \in 1..Len(objects) /\ objects \in Seq(Object) /\ thread[t] \in Thread
        /\ Len(objects) \in Nat /\ height \in Nat /\ height > 0
    BY ThreadTypes DEF IInv, TypeOK, Refreshed
  <1>2. token \in Nat /\ (objects[ref].kind # "paid" => token # 0)
    BY <1>1, ConstantTypes
  <1>3. objects' = [objects EXCEPT ![ref].token = token]
    BY DEF Refreshed
  <1>4. /\ r \in Thread /\ r.ref <= Len(objects)
        /\ r.pc \in {"idle", "metadata"}
        /\ r.pc = "metadata" => r.op = thread[t].op /\ r.ref = ref
    <2>1. CASE AfterRefresh(t) = "metadata"
      BY <1>1, <2>1 DEF Thread, PC
    <2>2. CASE AfterRefresh(t) # "metadata"
      <3>1. r = Idle
        BY <2>2
      <3> HIDE DEF r
      <3>2. r \in Thread /\ r.ref = 0 /\ r.pc = "idle"
        BY <3>1, IdleTypes
      <3>3. 0 <= Len(objects)
        BY <1>1
      <3>4. QED
        BY <3>2, <3>3
    <2>3. QED
      BY <2>1, <2>2
  <1>5. Become(t, r) /\ UNCHANGED <<config, strategy, training, refused, failures, height>>
    BY DEF Refreshed, GoTo, AfterRefresh
  <1> HIDE DEF r, token
  <1>6. /\ objects' \in Seq(Object) /\ Len(objects') = Len(objects)
        /\ DOMAIN objects' = DOMAIN objects /\ DOMAIN objects = 1..Len(objects)
        /\ \A i \in 1..Len(objects) : /\ objects'[i].kind = objects[i].kind
                                      /\ objects'[i].chosen = objects[i].chosen
                                      /\ objects'[i].token =
                                            IF i = ref THEN token ELSE objects[i].token
    <2> DEFINE o == [objects[ref] EXCEPT !.token = token]
    <2>0. objects[ref] \in Object
      BY <1>1
    <2>1. o \in Object /\ o.kind = objects[ref].kind /\ o.chosen = objects[ref].chosen
          /\ o.token = token
      BY <1>2, <2>0 DEF Object
    <2>2. objects' = [objects EXCEPT ![ref] = o]
      BY <1>3
    <2> HIDE DEF o
    <2>3. objects' \in Seq(Object) /\ Len(objects') = Len(objects)
      BY <1>1, <2>1, <2>2
    <2>4. \A i \in 1..Len(objects) :
             objects'[i] = IF i = ref THEN o ELSE objects[i]
      BY <1>1, <2>2
    <2>5. DOMAIN objects' = DOMAIN objects /\ DOMAIN objects = 1..Len(objects)
      BY <1>1, <2>3
    <2>6. QED
      BY <2>1, <2>3, <2>4, <2>5
  <1>7. \A u \in Threads : thread'[u] = IF u = t THEN r ELSE thread[u]
    BY <1>5 DEF IInv, TypeOK, Become
  <1>8. TypeOK'
    BY <1>4, <1>5, <1>6, <1>7 DEF IInv, TypeOK, Become
  <1>9. strategy # 0
    BY <1>1 DEF IInv, Installed
  <1>10. TokenlessExplained'
    <2> SUFFICES ASSUME NeedsToken(strategy)', objects'[strategy].token = 0,
                        strategy \notin refused
                 PROVE  \E u \in Threads : At(u, "reload")' \/ Refreshing(u, strategy)'
      BY <1>5 DEF TokenlessExplained, Refreshing, At
    <2>1. strategy \in 1..Len(objects)
      BY <1>9, ThreadTypes DEF IInv
    <2>2. strategy # ref
      <3>1. objects[strategy].kind # "paid"
        BY <1>5, <1>6, <2>1 DEF NeedsToken
      <3>2. strategy = ref => objects'[strategy].token = token
        BY <1>6, <2>1
      <3>3. QED
        BY <1>2, <3>1, <3>2
    <2>3. PICK u \in Threads : At(u, "reload") \/ Refreshing(u, strategy)
      BY <1>5, <1>6, <1>9, <2>1, <2>2 DEF IInv, TokenlessExplained, NeedsToken
    <2>4. u # t
      BY <2>2, <2>3 DEF Refreshed, At, Refreshing
    <2>5. QED
      BY <1>5, <1>7, <2>3, <2>4 DEF At, Refreshing
  <1>11. PaysForAReason' /\ NotByDefault' /\ Referenced' /\ Installed'
    BY <1>1, <1>4, <1>5, <1>7, <1>9 DEF IInv, PaysForAReason, NotByDefault, Referenced,
       Installed, At, Is, Reason, SignerPrivateKey, ParsePrivateKeyECDSA, GetPrivateKey
  <1>12. DefaultPaid' = DefaultPaid
    BY <1>6 DEF DefaultPaid
  <1>13. PaidOnlyIfRefused'
    BY <1>5, <1>12 DEF IInv, PaidOnlyIfRefused
  <1>14. DefaultsCounted'
    <2>1. Undecideds' \in SUBSET Undecideds
      BY <1>4, <1>7 DEF Undecideds, Undecided
    <2>2. /\ IsFiniteSet(Undecideds) /\ Cardinality(Undecideds) \in Nat
          /\ Cardinality(DefaultPaid) \in Nat
      BY Counts DEF IInv
    <2>3. /\ Cardinality(Undecideds') \in Nat
          /\ Cardinality(Undecideds') <= Cardinality(Undecideds)
      BY <2>1, <2>2, FS_Subset, FS_CardinalityType
    <2>4. Cardinality(DefaultPaid') = Cardinality(DefaultPaid)
      BY <1>12
    <2>5. QED
      BY <2>2, <2>3, <2>4, ConstantTypes DEF IInv, DefaultsCounted
  <1>15. QED
    BY <1>8, <1>10, <1>11, <1>13, <1>14 DEF IInv

LEMMA StepStutter ==
    ASSUME IInv, UNCHANGED <<config, strategy, training, objects, refused, thread, failures>>,
           height' \in Nat, height' > 0
    PROVE  IInv'
  <1>1. UNCHANGED <<SignerPrivateKey, DefaultPaid, Undecideds>>
    BY DEF SignerPrivateKey, ParsePrivateKeyECDSA, GetPrivateKey, DefaultPaid, Undecideds
  <1>2. TypeOK'
    BY DEF IInv, TypeOK
  <1>3. QED
    BY <1>1, <1>2 DEF IInv, Installed, TokenlessExplained, NeedsToken, Refreshing, At, Is,
       PaysForAReason, Reason, NotByDefault, Referenced, PaidOnlyIfRefused, DefaultsCounted

LEMMA StepIInv == IInv /\ [Next]_vars => IInv'
  <1> SUFFICES ASSUME IInv, [Next]_vars PROVE IInv'
    OBVIOUS
  <1>1. ASSUME NEW t \in Threads, Begin(t) PROVE IInv'
    BY <1>1, StepBeginCall, StepBeginOther DEF Begin
  <1>2. ASSUME NEW t \in Threads, Run(t) PROVE IInv'
    BY <1>2, StepMakeFree, StepFreeWithoutKey, StepMakePaid, StepMakePrepaid, StepRefreshed,
       StepRefreshFails, StepEnd, StepRead DEF Run
  <1>3. CASE NewBlock
    <2>1. height \in Nat /\ height > 0
      BY DEF IInv, TypeOK
    <2>2. QED
      BY <1>3, <2>1, StepStutter DEF NewBlock
  <1>4. CASE UNCHANGED vars
    BY <1>4, StepStutter DEF vars, IInv, TypeOK
  <1>5. QED
    BY <1>1, <1>2, <1>3, <1>4 DEF Next

LEMMA AlwaysIInv == Spec => []IInv
  BY InitIInv, StepIInv, PTL DEF Spec

-----------------------------------------------------------------------------
(* The theorems. *)

\* However the Set...PaymentStrategy methods, first calls and training uploads
\* interleave on the unlocked field s.strategy: a free or prepaid strategy in
\* use without a token is about to be refreshed, or its refresh has failed.
THEOREM NoStrategyIsForgotten == Spec => []TokenlessExplained
  BY AlwaysIInv, PTL DEF IInv

\* setDefaultStrategy makes nobody pay for a service with free calls unless a
\* refresh was refused, or the Core could not parse a prefixed key.
THEOREM FreeCallsComeFirst == Spec => []PaidOnlyIfRefused
  BY AlwaysIInv, PTL DEF IInv

\* First calls that race construct at most one default paid strategy per
\* goroutine, however many calls, selections and failures follow.
THEOREM FewDefaults == Spec => []DefaultsBounded
  <1>1. IInv => DefaultsBounded
    BY Counts, ConstantTypes DEF IInv, DefaultsCounted, DefaultsBounded
  <1>2. QED
    BY <1>1, AlwaysIInv, PTL
===============================================================================
