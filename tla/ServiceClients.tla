----------------------------- MODULE ServiceClients -----------------------------
(***************************************************************************)
(* The clients that goroutines build from one SDK Core and use side by     *)
(* side: NewSDK (pkg/sdk/sdk.go), the two ways to a ServiceClient          *)
(* (Core.NewServiceClient, pkg/sdk/service.go, and                         *)
(* OrganizationClient.ServiceClient, pkg/sdk/org.go), its gRPC connection  *)
(* and compiled .proto files (pkg/grpc), free calls, health checks, saving *)
(* the .proto files, and Close, which also closes the EVM connection all   *)
(* clients of the Core share.                                              *)
(*                                                                         *)
(* What a read gives is in StorageRead, what the files hold in             *)
(* ProtoBundle, what a health check makes of its answer in HealthFrames.   *)
(* Registering and discovering services is in MetadataRegistry; here one   *)
(* service is registered.  Clients pay with free calls.                    *)
(***************************************************************************)
EXTENDS Naturals, Sequences, FiniteSets, StorageRead, ProtoBundle, HealthFrames

CONSTANTS Threads,    \* goroutines that share the Core
          Nil,        \* no URI
          Hashes,     \* of the archives in storage
          Stored,     \* the archive under each hash
          Confs,      \* configurations and services: see Conf
          Methods,    \* names that are called
          Bodies,     \* answers of the gRPC-Web health check
          MaxConns,   \* bound: gRPC connections made, two kept for each build
          MaxFaults   \* bound: faults of gateways, of the RPC endpoint and of the disk

VARIABLES conf,     \* the configuration, and what the service registered
          core,     \* "none", "ready" or "exited": the SDK
          evm,      \* "open" or "closed": its connection to the chain
          conns,    \* the gRPC connections in the order made: "open" or "closed"
          client,   \* the client each goroutine holds
          work,     \* what each goroutine is doing
          last,     \* what the operation that has just ended gave
          built,    \* clients built through the Core so far
          faults    \* so far

vars == <<conf, core, evm, conns, client, work, last, built, faults>>

\* rpc: is RPCAddr a WebSocket, an HTTP endpoint, or empty?  patience: the
\* deadline of a call as configured.  endpoint: its URL's scheme and whether it
\* can be dialled.  group: does the organisation have the group that is asked
\* for?  model and source: URIs of the archive, in the old and the new field of
\* the metadata, or Nil.  archive: the hash they hold.
Conf == [rpc : {"ws", "http", ""}, patience : {"zero", "positive", "negative"},
         endpoint : [scheme : {"http", "https", "bare"}, valid : BOOLEAN], group : BOOLEAN,
         model : URI \cup {Nil}, source : URI \cup {Nil}, archive : Hashes]

\* A name that ends in ".proto" is not empty.
ASSUME ClientsAssumption ==
    /\ IsFiniteSet(Threads)
    /\ {MaxConns, MaxFaults} \subseteq Nat
    /\ Confs \subseteq Conf
    /\ Stored \in [Hashes -> Archive]
    /\ \A hash \in Hashes : \A i \in ProtoEntries(Stored[hash]) :
           Stored[hash].entries[i].name # ""
    /\ Bodies \subseteq [frames : Seq(Frame), rest : Rest]

\* conn: its connection, 0 where grpc.NewClient returned nil.  lossy: was the
\* archive read without an error and without bytes?  trained: has training.proto
\* been put into the map of files?  finds: where FindMethod finds each name, in
\* the order in which the files were compiled.  pays: is the free strategy
\* installed?
NoConn   == 0
Unknown  == [m \in Methods |-> NoMethod]
NoClient == [conn |-> NoConn, lossy |-> FALSE, trained |-> FALSE, finds |-> Unknown,
             state |-> "none", pays |-> FALSE]

\* The live map of files of a client, whether they compile, and what calls then
\* find, for each order in which the map can give the files.
FilesOf(hash, lossy) == IF lossy THEN <<>> ELSE ParseProtoFiles(Stored[hash])
Protos ==
    [hash \in Hashes |-> [lossy \in BOOLEAN |-> [trained \in BOOLEAN |->
        IF trained THEN WithTraining(FilesOf(hash, lossy)) ELSE FilesOf(hash, lossy)]]]
Compiled == [hash \in Hashes |-> [lossy \in BOOLEAN |-> Compiles(Protos[hash][lossy][TRUE])]]
FindAll(protos) ==
    {[m \in Methods |-> FindMethod(protos, order, m)] : order \in Orders(protos)}
Findings ==
    [hash \in Hashes |-> [lossy \in BOOLEAN |->
        IF Compiled[hash][lossy] THEN FindAll(Protos[hash][lossy][TRUE]) ELSE {Unknown}]]

\* What the health check over gRPC-Web may make of each answer.
Reports == [body \in Bodies |-> WebGRPC(body)]

Idle     == [step |-> "idle"]
NoResult == [op |-> "none"]

Init ==
    /\ conf \in Confs
    /\ core = "none" /\ evm = "closed"
    /\ conns = <<>>
    /\ client = [t \in Threads |-> NoClient]
    /\ work = [t \in Threads |-> Idle]
    /\ last = NoResult
    /\ built = 0 /\ faults = 0

-----------------------------------------------------------------------------
(* The configuration and the Core.                                         *)


HasDeadline == conf.patience \in {"zero", "positive"}

\* Config.Validate: all but the RPC address has a default.
Validate == conf.rpc # ""

\* InitEvm dials the endpoint and reads the token's address from the escrow
\* contract; each of the two may fail.
InitEvm(ok) ==
    \/ ok /\ evm' = "open" /\ UNCHANGED faults
    \/ ~ok /\ faults < MaxFaults /\ faults' = faults + 1 /\ UNCHANGED evm

\* NewSDK: without a valid configuration and a connection the process ends.
NewSDK ==
    /\ core = "none"
    /\ \/ ~Validate /\ core' = "exited" /\ UNCHANGED <<evm, faults>>
       \/ \E ok \in BOOLEAN : /\ Validate /\ InitEvm(ok)
                              /\ core' = IF ok THEN "ready" ELSE "exited"
    /\ last' = NoResult
    /\ UNCHANGED <<conf, conns, client, work, built>>

CloseCore ==
    /\ core = "ready" /\ evm' = "closed"
    /\ last' = NoResult
    /\ UNCHANGED <<conf, core, conns, client, work, built, faults>>

\* Reading the block number: closing has no effect on an HTTP endpoint.
Reads(ok) ==
    \/ ok /\ (evm = "open" \/ conf.rpc = "http") /\ UNCHANGED faults
    \/ ~ok /\ evm = "closed" /\ conf.rpc = "ws" /\ UNCHANGED faults
    \/ ~ok /\ faults < MaxFaults /\ faults' = faults + 1

-----------------------------------------------------------------------------
(* Building a client.                                                      *)

Goes(t, w) == work' = [work EXCEPT ![t] = w] /\ last' = NoResult

\* The operation of a goroutine ends; NoResult stands for an error, and for a
\* success that no property asks about.
Ends(t, result) == work' = [work EXCEPT ![t] = Idle] /\ last' = result

Ready(t) == core = "ready" /\ work[t] = Idle

\* What the archive read as: service_api_source is read after the older
\* model_ipfs_hash and replaces it, error and all; with neither, no bytes.
ApiSource(answer) ==
    CASE conf.source # Nil -> ReadFile(conf.source, Stored[conf.archive], answer)
      [] conf.source = Nil /\ conf.model # Nil -> ReadFile(conf.model, Stored[conf.archive], answer)
      [] OTHER -> Reading(Nothing, FALSE)

\* Bound: a build begins only if connections are left for all of them.
ConnsLeft ==
    Len(conns) + 2 * (1 + Cardinality({t \in Threads : work[t].step \in {"dial", "redial"}}))
        <= MaxConns

\* The Registry cannot be read, which is a panic.
RegistryUnread(t) ==
    /\ Ready(t) /\ client[t].state # "open"
    /\ Reads(FALSE)
    /\ Ends(t, [op |-> "build", got |-> "panic"])
    /\ UNCHANGED <<conf, core, evm, conns, client, built>>

\* blockchain.NewServiceClient: the metadata and the archive; no bytes parse as
\* an archive without files.
ReadService(t, via) ==
    /\ Ready(t) /\ client[t].state # "open" /\ ConnsLeft
    /\ evm = "open" \/ conf.rpc = "http"
    /\ \E answer \in Answer :
         LET reading == ApiSource(answer) IN
         /\ faults' = IF answer = "body" THEN faults ELSE faults + 1
         /\ faults' <= MaxFaults
         /\ IF reading.err \/ (reading.content # Nothing /\ ~Parses(reading.content))
            THEN Ends(t, NoResult)
            ELSE Goes(t, [step |-> "dial", via |-> via, lossy |-> reading.content = Nothing])
    /\ UNCHANGED <<conf, core, evm, conns, client, built>>

\* The metadata, or the service's group in it, is missing.  (A group that the
\* organisation does not have is no error: NewOrgClient leaves it nil.)
ServiceMissing(t) ==
    /\ Ready(t) /\ client[t].state # "open" /\ faults < MaxFaults
    /\ faults' = faults + 1
    /\ Ends(t, NoResult)
    /\ UNCHANGED <<conf, core, evm, conns, client, built>>

\* Wrong variant: the connection stays open if the files do not compile.
NewClientOpen(t) == conns' = Append(conns, "open")

\* grpc.NewClient for an endpoint that can be dialled: the connection is closed
\* again if the files do not compile.
NewClient(t) ==
    conns' = Append(conns, IF Compiled[conf.archive][work[t].lossy] THEN "open" ELSE "closed")

\* The client a goroutine then holds.  Where grpc.NewClient returned nil it is
\* there all the same, without a connection and without methods.
Built(t, dialled) ==
    LET usable == dialled /\ Compiled[conf.archive][work[t].lossy] IN
    \E finds \in IF usable THEN Findings[conf.archive][work[t].lossy] ELSE {Unknown} :
        client' = [client EXCEPT ![t] =
          [conn  |-> IF usable THEN Len(conns') ELSE NoConn,
           lossy |-> work[t].lossy, trained |-> dialled, finds |-> finds,
           state |-> "open", pays |-> FALSE]]

\* The only connection of a client built from an organisation, or the first of
\* the two of one built through the Core, which takes from the client it makes
\* first all but its connection.
Dial(t) ==
    /\ work[t].step = "dial"
    /\ \/ /\ conf.endpoint.valid /\ NewClient(t)
          /\ \/ /\ work[t].via = "core"
                /\ Goes(t, [work[t] EXCEPT !.step = "redial"]) /\ UNCHANGED client
             \/ work[t].via = "organization" /\ Built(t, TRUE) /\ Ends(t, NoResult)
       \/ ~conf.endpoint.valid /\ UNCHANGED conns /\ Built(t, FALSE) /\ Ends(t, NoResult)
    /\ UNCHANGED <<conf, core, evm, built, faults>>

\* The second connection; nothing refers to the first.
Redial(t) ==
    /\ work[t].step = "redial"
    /\ NewClient(t) /\ Built(t, TRUE)
    /\ built' = built + 1
    /\ Ends(t, NoResult)
    /\ UNCHANGED <<conf, core, evm, faults>>

-----------------------------------------------------------------------------
(* Using it.  A panic ends the operation, and the process unless the       *)
(* application recovers from it.                                           *)

Files(t) == Protos[conf.archive][client[t].lossy][client[t].trained]
Holds(t) == work[t] = Idle /\ client[t].state # "none"

Alive(t) == client[t].conn # NoConn /\ conns[client[t].conn] = "open"

\* SetFreePaymentStrategy and the calls are begun; the steps that follow may
\* meet a Close.  The first thing it needs is the organisation's group.
SetFree(t) ==
    /\ Holds(t)
    /\ IF ~conf.group \/ client[t].conn = NoConn
       THEN Ends(t, [op |-> "setFree", got |-> "panic"]) /\ UNCHANGED <<client, faults>>
       ELSE /\ client' = [client EXCEPT ![t].pays = TRUE]
            /\ \/ Reads(TRUE) /\ Goes(t, [step |-> "rpc", op |-> "free"])
               \/ Reads(FALSE) /\ Ends(t, NoResult)
    /\ UNCHANGED <<conf, core, evm, conns, built>>

\* GRPCMetadata comes first: its context is nil if the block number cannot be
\* read.  Then the method is looked up.
Call(t) ==
    /\ Holds(t) /\ client[t].pays
    /\ \E method \in Methods, ok \in BOOLEAN :
         /\ Reads(ok)
         /\ LET place == client[t].finds[method] IN
            IF place = NoMethod
            THEN Ends(t, [op |-> "call", got |-> "no method", method |-> method, by |-> t])
            ELSE IF ok THEN Goes(t, [step |-> "rpc", op |-> "call", place |-> place,
                                     method |-> method])
            ELSE Ends(t, [op |-> "call", got |-> "panic"])
    /\ UNCHANGED <<conf, core, evm, conns, client, built>>

\* The client's strategy must be the free one, or else it is an error.
FreeInstalled(t) == client[t].pays

\* GetFreeCallsAvailable: 0 and no error if the block number cannot be read.
GetFreeCallsAvailable(t) ==
    /\ Holds(t) /\ FreeInstalled(t)
    /\ \/ Reads(TRUE) /\ Goes(t, [step |-> "rpc", op |-> "free"])
       \/ Reads(FALSE) /\ Ends(t, [op |-> "available", got |-> "zero"])
    /\ UNCHANGED <<conf, core, evm, conns, client, built>>

\* The health check over gRPC has no deadline.
CheckGRPC(t) ==
    /\ Holds(t)
    /\ IF client[t].conn = NoConn THEN Ends(t, [op |-> "health", got |-> "panic"])
       ELSE Goes(t, [step |-> "rpc", op |-> "health"])
    /\ UNCHANGED <<conf, core, evm, conns, client, built, faults>>

\* The daemon answers, with an error or, for a path it serves, a result; there
\* are free calls left.
Answered(t) ==
    /\ work[t].step = "rpc" /\ Alive(t)
    /\ \/ Ends(t, NoResult)
       \/ work[t].op = "call" /\ Ends(t, [op |-> "call", by |-> t, method |-> work[t].method, place |-> work[t].place,
                     got |-> IF Path(Files(t), work[t].place) = FullName(Files(t), work[t].place)
                             THEN "answer" ELSE "unimplemented"])
    /\ UNCHANGED <<conf, core, evm, conns, client, built, faults>>

\* The connection was closed, or the deadline passes.
RPCFails(t) ==
    /\ work[t].step = "rpc"
    /\ ~Alive(t) \/ (HasDeadline /\ work[t].op # "health")
    /\ Ends(t, NoResult)
    /\ UNCHANGED <<conf, core, evm, conns, client, built, faults>>

\* The health checks over HTTP use the URL of the endpoint as it is, so that an
\* endpoint without a scheme can be called but not checked.
CheckHTTP(t) ==
    /\ Holds(t)
    /\ \/ Ends(t, NoResult)
       \/ /\ conf.endpoint.scheme # "bare" /\ conf.endpoint.valid
          /\ Goes(t, [step |-> "http"])
    /\ UNCHANGED <<conf, core, evm, conns, client, built, faults>>

\* They have no deadline.  HTTP gives an error or what it decoded, WebGRPC what
\* it makes of the body.
HTTPAnswers(t) ==
    /\ work[t].step = "http"
    /\ \/ Ends(t, NoResult)
       \/ \E body \in Bodies : \E got \in Reports[body] :
            Ends(t, [op |-> "web", got |-> got, body |-> body])
    /\ UNCHANGED <<conf, core, evm, conns, client, built, faults>>

\* What a save that gives no error has left: the files, and whether all it
\* opened was closed.
Saved(t, files, closed) ==
    [op |-> "save", got |-> "files", files |-> files, closed |-> closed, by |-> t]

\* There are no files, or one of them cannot be written.
NotSaved(t) ==
    /\ \/ DOMAIN Files(t) = {} /\ UNCHANGED faults
       \/ faults < MaxFaults /\ faults' = faults + 1
    /\ Ends(t, NoResult)

\* ProtoFiles().Save.
Save(t) ==
    /\ Holds(t)
    /\ \/ DOMAIN Files(t) # {} /\ Ends(t, Saved(t, Files(t), TRUE)) /\ UNCHANGED faults
       \/ NotSaved(t)
    /\ UNCHANGED <<conf, core, evm, conns, client, built>>

\* SaveAsZip: an error of closing the zip writer, which writes what is buffered
\* and the directory of the archive, or the file is logged only; without the
\* directory the archive has no files.
SaveAsZip(t) ==
    /\ Holds(t)
    /\ \/ DOMAIN Files(t) # {} /\ Ends(t, Saved(t, Files(t), TRUE)) /\ UNCHANGED faults
       \/ /\ DOMAIN Files(t) # {} /\ faults < MaxFaults /\ faults' = faults + 1
          /\ \E files \in {<<>>, Files(t)} : Ends(t, Saved(t, files, FALSE))
       \/ NotSaved(t)
    /\ UNCHANGED <<conf, core, evm, conns, client, built>>

-----------------------------------------------------------------------------
(* Close: the gRPC connection, then the EVM connection of the Core.        *)

\* Wrong variant: the client is left without a gRPC client.
CloseGRPCNil(t) ==
    /\ Holds(t)
    /\ conns' = [c \in DOMAIN conns |-> IF c = client[t].conn THEN "closed" ELSE conns[c]]
    /\ client' = [client EXCEPT ![t].state = "closed", ![t].conn = NoConn]
    /\ Goes(t, [step |-> "closeEvm"])
    /\ UNCHANGED <<conf, core, evm, built, faults>>

CloseGRPC(t) ==
    /\ Holds(t)
    /\ conns' = [c \in DOMAIN conns |-> IF c = client[t].conn THEN "closed" ELSE conns[c]]
    /\ client' = [client EXCEPT ![t].state = "closed"]
    /\ Goes(t, [step |-> "closeEvm"])
    /\ UNCHANGED <<conf, core, evm, built, faults>>

CloseEVM(t) ==
    /\ work[t].step = "closeEvm"
    /\ evm' = "closed"
    /\ Ends(t, NoResult)
    /\ UNCHANGED <<conf, core, conns, client, built, faults>>

Step(t) == Dial(t) \/ Redial(t) \/ RPCFails(t) \/ CloseEVM(t)

Next ==
    \/ NewSDK \/ CloseCore
    \/ \E t \in Threads :
         \/ \E via \in {"core", "organization"} : ReadService(t, via)
         \/ RegistryUnread(t) \/ ServiceMissing(t) \/ SetFree(t) \/ Call(t) \/ GetFreeCallsAvailable(t)
         \/ CheckGRPC(t) \/ Answered(t) \/ CheckHTTP(t) \/ HTTPAnswers(t)
         \/ Save(t) \/ SaveAsZip(t) \/ CloseGRPC(t)
         \/ Step(t)

\* A goroutine that is in the middle of an operation goes on, and the clock
\* runs; nothing makes the daemon answer.
Fairness == \A t \in Threads : WF_vars(Step(t))

Spec == Init /\ [][Next]_vars /\ Fairness

-----------------------------------------------------------------------------
(* Properties.                                                             *)

\* An open connection can be closed through a client some goroutine holds, but
\* for the first of the two that each client built through the Core has made.
\* ("Always call Close() to release network connections", pkg/sdk/doc.go.)
ConnectionsAccounted ==
    LET lost == {c \in DOMAIN conns : conns[c] = "open"} \ {client[t].conn : t \in Threads}
    IN  Cardinality(lost) <=
            built + Cardinality({t \in Threads : work[t].step = "redial"})

\* What the service registered, by reference to the archive itself.
Registered ==
    [hash \in Hashes |->
        {Stored[hash].entries[i] : i \in {j \in ProtoEntries(Stored[hash]) :
            \A k \in ProtoEntries(Stored[hash]) :
                Stored[hash].entries[k].name = Stored[hash].entries[j].name => k <= j}}]
Offers(text, method) == \E i \in 1..Len(text.services) : method \in text.services[i].methods

\* An operation that panics, and a count of free calls that is zero without an error,
\* have one of these causes: the endpoint cannot be dialled, the files do not
\* compile, the RPC endpoint failed, or it is a WebSocket and one of the
\* clients, not necessarily this one, or the Core was closed; and installing the
\* free strategy, that the organisation lacks the group.
SilentFailuresExplained ==
    last.op \in {"build", "setFree", "call", "available", "health"} /\ last.got \in {"panic", "zero"} =>
        \/ faults > 0
        \/ evm = "closed" /\ conf.rpc = "ws"
        \/ ~conf.endpoint.valid
        \/ ~Compiled[conf.archive][FALSE]
        \/ last.op = "setFree" /\ ~conf.group

\* A call goes to a file that declares the method, of those registered or the
\* training.proto that replaces or joins them; the daemon does not know its path
\* only if a file names no package; and a method is not found only if none of
\* them declares it or the archive was lost on the way without an error.
CallsResolve ==
    last.op = "call" /\ last.got \in {"answer", "unimplemented", "no method"} =>
        LET offering == {e.name : e \in {f \in Registered[conf.archive] :
                                 f.name # TrainingName /\ Offers(f.text, last.method)}}
                        \cup {n \in {TrainingName} : Offers(TrainingText, last.method)}
        IN  CASE last.got = "no method" -> offering = {} \/ client[last.by].lossy
              [] last.got = "answer"    -> last.place.file \in offering
              [] OTHER -> \E e \in Registered[conf.archive] : e.text.package = ""

\* What is saved without an error holds every .proto file registered, with its
\* text, unless the archive was lost or the zip archive could not be closed; the
\* client's own training.proto takes the place of one the service brings.
SavedWhole ==
    last.op = "save" /\ last.got = "files" =>
        \/ client[last.by].lossy \/ ~last.closed
        \/ \A e \in Registered[conf.archive] :
              /\ e.name \in DOMAIN last.files
              /\ last.files[e.name] = e.text \/ (e.name = TrainingName
                                              /\ last.files[e.name] = TrainingText)

\* A health check over gRPC-Web reports the last message of the answer, and
\* an error if one of them cannot be decoded; it panics only at a frame that
\* was cut off in its header.
HealthHonest ==
    last.op = "web" =>
        CASE last.got = "error" -> ~Decodable(last.body)
          [] last.got = "panic" -> last.body.rest = "header"
          [] OTHER -> Decodable(last.body) /\ last.got = LastMessage(last.body)

================================================================================
