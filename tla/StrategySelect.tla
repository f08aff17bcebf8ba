----------------------------- MODULE StrategySelect -----------------------------
(***************************************************************************)
(* Which payment strategy a ServiceClient (pkg/sdk/service.go) pays with:  *)
(* the three Set...PaymentStrategy methods, the default that the first     *)
(* call selects, the training client that keeps the strategy it was built  *)
(* with, and the life of the tokens of FreeStrategy and PrepaidStrategy.   *)
(*                                                                         *)
(* Goroutines share the client.  The fields strategy and trainingClient,   *)
(* and the Token of a strategy, are read and written without a lock, one   *)
(* at a step.  How a paid strategy gets its channel is in EnsureChannel,   *)
(* what it signs in PaidCalls.                                             *)
(***************************************************************************)
EXTENDS Naturals, Sequences, FiniteSets

CONSTANTS Threads,     \* goroutines that share the ServiceClient
          Ops,         \* what they do: see Operation
          Configs,     \* configurations of the client: see Config
          Lifetime,    \* blocks a token is good for
          MaxObjects,  \* bound: strategies constructed
          MaxFailures, \* bound: constructions, refreshes, block reads that fail
          MaxHeight    \* bound: last block

\* CallWithMap/JSON/Proto, the three Set...PaymentStrategy methods, and
\* Training().UploadAndValidate.
Operation == {"call", "setFree", "setPaid", "setPrepaid", "upload"}

\* Does the service group offer free calls, which form has the private key of
\* the configuration ("prefixed" is with 0x in front), from where was the
\* client built (Core.NewServiceClient, OrganizationClient.ServiceClient), and
\* does the RPC address pass validateWebSocketRPC?
Config == [freeCalls : BOOLEAN, key : {"none", "plain", "prefixed"},
           via : {"core", "organization"}, webSocket : BOOLEAN]

ASSUME SelectAssumption ==
    /\ IsFiniteSet(Threads)
    /\ Ops \subseteq Operation
    /\ Configs \subseteq Config
    /\ {Lifetime, MaxObjects, MaxFailures, MaxHeight} \subseteq Nat

VARIABLES config,    \* the configuration, fixed at the start
          strategy,  \* s.strategy, an index of objects (0: nil)
          training,  \* the strategy of s.trainingClient
          objects,   \* the strategies constructed so far
          refused,   \* those that had a refresh fail
          thread,    \* what each goroutine is doing
          failures,  \* things that failed
          height     \* current block

vars == <<config, strategy, training, objects, refused, thread, failures, height>>

NoClient == MaxObjects + 1   \* s.trainingClient is nil

\* token is the last block the Token is good for, 0 while there is none; chosen
\* tells an explicit Set... from the default selection.
Object == [kind : {"free", "paid", "prepaid"}, token : Nat, chosen : BOOLEAN]

PC == {"idle", "makeFree", "makePaid", "makePrepaid", "reload", "refresh",
       "train", "metadata", "headers", "sent", "panic"}

Thread == [pc    : PC,
           op    : Operation \cup {"none"},
           ref   : 0..MaxObjects,  \* the strategy it holds a reference to
           block : Nat,            \* currentBlockNumber of GRPCMetadata
           token : Nat]            \* the token in its headers

Idle == [pc |-> "idle", op |-> "none", ref |-> 0, block |-> 0, token |-> 0]

Init ==
    /\ config \in Configs
    /\ strategy = 0
    /\ training = NoClient
    /\ objects = <<>>
    /\ refused = {}
    /\ thread = [t \in Threads |-> Idle]
    /\ failures = 0
    /\ height = 1

-----------------------------------------------------------------------------
(* The three parsers of the key, and who uses which.                       *)

\* GetPrivateKey trims the prefix; ParsePrivateKeyECDSA does not.
GetPrivateKey        == config.key \in {"plain", "prefixed"}
ParsePrivateKeyECDSA == config.key = "plain"

\* Wrong variant: clients of both kinds take the key of the Core.
SignerOfCore == ParsePrivateKeyECDSA

\* SignerPrivateKey, which free calls need: the Core parsed the key when it was
\* made, a client of an organization asks the configuration.
SignerPrivateKey == IF config.via = "core" THEN ParsePrivateKeyECDSA ELSE GetPrivateKey

-----------------------------------------------------------------------------
At(t, pc) == thread[t].pc = pc
Is(t, op) == thread[t].op = op

Become(t, r) == thread' = [thread EXCEPT ![t] = r]

GoTo(t, pc) == Become(t, IF pc = "idle" THEN Idle ELSE [thread[t] EXCEPT !.pc = pc])

\* A constructor, a refresh or a block read reports an error.
Fails == failures < MaxFailures /\ failures' = failures + 1

-----------------------------------------------------------------------------
(* Choosing a strategy. *)

\* Wrong variant: every call selects anew.
AfterNoCheck == IF config.freeCalls THEN "makeFree" ELSE "makePaid"

\* setDefaultStrategy, up to its first effect.
AfterCheck == IF strategy # 0 THEN "metadata"
              ELSE IF config.freeCalls THEN "makeFree" ELSE "makePaid"

BeginCall(t) ==
    /\ At(t, "idle") /\ "call" \in Ops
    /\ Become(t, [Idle EXCEPT !.op = "call", !.pc = AfterCheck])
    /\ UNCHANGED <<config, strategy, training, objects, refused, failures, height>>

BeginSet(t) ==
    /\ At(t, "idle")
    /\ \/ "setFree" \in Ops /\ Become(t, [Idle EXCEPT !.op = "setFree", !.pc = "makeFree"])
       \/ "setPaid" \in Ops /\ Become(t, [Idle EXCEPT !.op = "setPaid", !.pc = "makePaid"])
       \/ "setPrepaid" \in Ops
          /\ Become(t, [Idle EXCEPT !.op = "setPrepaid", !.pc = "makePrepaid"])
    /\ UNCHANGED <<config, strategy, training, objects, refused, failures, height>>

\* s.strategy = strategy: the new strategy is in use from here on.
Install(t, kind) ==
    /\ Len(objects) < MaxObjects
    /\ objects' = Append(objects, [kind |-> kind, token |-> 0, chosen |-> ~Is(t, "call")])
    /\ strategy' = Len(objects) + 1

\* SetFreePaymentStrategy installs first and refreshes then.
MakeFree(t) ==
    /\ At(t, "makeFree") /\ SignerPrivateKey
    /\ Install(t, "free")
    /\ Become(t, [thread[t] EXCEPT !.pc = "refresh", !.ref = Len(objects) + 1])
    /\ UNCHANGED <<config, training, refused, failures, height>>

\* NewFreeStrategy has no address to call for; a default goes on with paid,
\* which may find the key it did not.
FreeWithoutKey(t) ==
    /\ At(t, "makeFree") /\ ~SignerPrivateKey
    /\ GoTo(t, IF Is(t, "call") THEN "makePaid" ELSE "idle")
    /\ UNCHANGED <<config, strategy, training, objects, refused, failures, height>>

MakePaid(t) ==
    /\ At(t, "makePaid") /\ config.webSocket /\ GetPrivateKey
    /\ Install(t, "paid")
    /\ GoTo(t, IF Is(t, "call") THEN "metadata" ELSE "idle")
    /\ UNCHANGED <<config, training, refused, failures, height>>

\* NewPaidStrategy dereferences the address of a key that is not there.
PaidWithoutKey(t) ==
    /\ At(t, "makePaid") /\ config.webSocket /\ ~GetPrivateKey
    /\ GoTo(t, "panic")
    /\ UNCHANGED <<config, strategy, training, objects, refused, failures, height>>

\* Wrong variant: the refresh is left to the application.
MakePrepaidOnly(t) ==
    /\ At(t, "makePrepaid") /\ config.webSocket /\ ParsePrivateKeyECDSA
    /\ Install(t, "prepaid")
    /\ GoTo(t, "idle")
    /\ UNCHANGED <<config, training, refused, failures, height>>

MakePrepaid(t) ==
    /\ At(t, "makePrepaid") /\ config.webSocket /\ ParsePrivateKeyECDSA
    /\ Install(t, "prepaid")
    /\ GoTo(t, "reload")
    /\ UNCHANGED <<config, training, refused, failures, height>>

NeedsWebSocket(t) == thread[t].pc \in {"makePaid", "makePrepaid"}

\* validateWebSocketRPC or the constructor returns an error; nothing is set.
MakeFails(t) ==
    /\ \/ NeedsWebSocket(t) /\ ~config.webSocket /\ failures' = failures
       \/ At(t, "makePrepaid") /\ ~ParsePrivateKeyECDSA /\ failures' = failures
       \/ NeedsWebSocket(t) /\ Fails
    /\ GoTo(t, "idle")
    /\ UNCHANGED <<config, strategy, training, objects, refused, height>>

\* SetPrePaidPaymentStrategy refreshes whatever s.strategy is by now.
Reload(t) ==
    /\ At(t, "reload")
    /\ Become(t, [thread[t] EXCEPT !.pc = "refresh", !.ref = strategy])
    /\ UNCHANGED <<config, strategy, training, objects, refused, failures, height>>

-----------------------------------------------------------------------------
(* Refresh. *)

AfterRefresh(t) == IF thread[t].op \in {"call", "upload"} THEN "metadata" ELSE "idle"

\* The daemon issues a token; a paid strategy has none.
Refreshed(t) ==
    /\ At(t, "refresh") /\ thread[t].ref # 0
    /\ objects' = [objects EXCEPT ![thread[t].ref].token =
                      IF objects[thread[t].ref].kind = "paid" THEN 0 ELSE height + Lifetime]
    /\ GoTo(t, AfterRefresh(t))
    /\ UNCHANGED <<config, strategy, training, refused, failures, height>>

\* The strategy stays installed; a default goes on with paid.
RefreshFails(t) ==
    /\ At(t, "refresh") /\ thread[t].ref # 0
    /\ Fails
    /\ refused' = refused \cup {thread[t].ref}
    /\ GoTo(t, IF Is(t, "call") THEN "makePaid" ELSE "idle")
    /\ UNCHANGED <<config, strategy, training, objects, height>>

-----------------------------------------------------------------------------
(* Training().UploadAndValidate. *)

BeginUpload(t) ==
    /\ At(t, "idle") /\ "upload" \in Ops
    /\ Become(t, IF training = NoClient
                 THEN [Idle EXCEPT !.op = "upload", !.pc = "train"]
                 ELSE [Idle EXCEPT !.op = "upload", !.pc = "refresh", !.ref = training])
    /\ UNCHANGED <<config, strategy, training, objects, refused, failures, height>>

\* The client is built around the strategy of this moment, be it nil.
BuildClient(t) ==
    /\ At(t, "train")
    /\ training' = strategy
    /\ Become(t, [thread[t] EXCEPT !.pc = "refresh", !.ref = strategy])
    /\ UNCHANGED <<config, strategy, objects, refused, failures, height>>

\* c.strat.Refresh on a nil interface.
NilStrategy(t) ==
    /\ At(t, "refresh") /\ thread[t].ref = 0
    /\ GoTo(t, "panic")
    /\ UNCHANGED <<config, strategy, training, objects, refused, failures, height>>

-----------------------------------------------------------------------------
(* GRPCMetadata and the request. *)

\* A call reads s.strategy again; an upload keeps the training client's.  A free
\* strategy reads the current block to sign it with its token.
Metadata(t) ==
    /\ At(t, "metadata")
    /\ LET ref == IF Is(t, "call") THEN strategy ELSE thread[t].ref
       IN  Become(t, [thread[t] EXCEPT !.pc = "headers", !.ref = ref, !.block = height])
    /\ UNCHANGED <<config, strategy, training, objects, refused, failures, height>>

\* FreeStrategy cannot read the block and returns a nil context, which no
\* request survives.
NilContext(t) ==
    /\ At(t, "metadata")
    /\ Fails
    /\ LET ref == IF Is(t, "call") THEN strategy ELSE thread[t].ref
       IN  objects[ref].kind = "free"
    /\ GoTo(t, "panic")
    /\ UNCHANGED <<config, strategy, training, objects, refused, height>>

\* The token is read for the header after the block was.
Headers(t) ==
    /\ At(t, "headers")
    /\ Become(t, [thread[t] EXCEPT !.pc = "sent", !.token = objects[thread[t].ref].token])
    /\ UNCHANGED <<config, strategy, training, objects, refused, failures, height>>

\* Served, refused or timed out: nothing of it reaches the client's state.
Answered(t) ==
    /\ At(t, "sent")
    /\ GoTo(t, "idle")
    /\ UNCHANGED <<config, strategy, training, objects, refused, failures, height>>

NewBlock ==
    /\ height < MaxHeight
    /\ height' = height + 1
    /\ UNCHANGED <<config, strategy, training, objects, refused, thread, failures>>

-----------------------------------------------------------------------------
\* A panic in one goroutine is the end of the process.
Alive == \A t \in Threads : ~At(t, "panic")

Begin(t) == BeginCall(t) \/ BeginSet(t) \/ BeginUpload(t)

Run(t) ==
    \/ MakeFree(t) \/ FreeWithoutKey(t) \/ MakePaid(t) \/ PaidWithoutKey(t)
    \/ MakePrepaid(t) \/ MakeFails(t) \/ Reload(t) \/ Refreshed(t) \/ RefreshFails(t)
    \/ BuildClient(t) \/ NilStrategy(t)
    \/ Metadata(t) \/ NilContext(t) \/ Headers(t) \/ Answered(t)

Next ==
    /\ Alive
    /\ \/ \E t \in Threads : Begin(t) \/ Run(t)
       \/ NewBlock

Spec == Init /\ [][Next]_vars

-----------------------------------------------------------------------------
(* Properties. *)

NeedsToken(i) == objects[i].kind \in {"free", "prepaid"}

Refreshing(t, i) == At(t, "refresh") /\ thread[t].ref = i

\* A strategy in use that should have a token and has none is about to be
\* refreshed by a goroutine, or had its refresh fail: the race of two prepaid
\* selections, where one refreshes the strategy of the other, leaves none out.
TokenlessExplained ==
    strategy # 0 /\ NeedsToken(strategy) /\ objects[strategy].token = 0 =>
        \/ strategy \in refused
        \/ \E t \in Threads : At(t, "reload") \/ Refreshing(t, strategy)

DefaultPaid == {i \in DOMAIN objects : objects[i].kind = "paid" /\ ~objects[i].chosen}

\* Nobody is made to pay by default for a service with free calls unless the
\* daemon refused a token, whatever other goroutines select meanwhile, or the
\* client was built by a Core that could not read a key the configuration can:
\* then nothing was refused and no error seen.  (wiki/configuration.md:71 says
\* that a prefixed key is accepted.)
PaidOnlyIfRefused ==
    config.freeCalls /\ DefaultPaid # {} =>
        refused # {} \/ (config.via = "core" /\ config.key = "prefixed")

\* First calls that race open at most one channel each: once any strategy is
\* installed no default selection starts, so defaults cannot go on spending.
DefaultsBounded == Cardinality(DefaultPaid) <= Cardinality(Threads)
================================================================================
