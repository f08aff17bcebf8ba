---------------------------- MODULE MetadataRegistry ----------------------------
(***************************************************************************)
(* Organisations and services in the Registry contract and their metadata  *)
(* in storage: publishing them (pkg/sdk/org.go, pkg/sdk/sdk.go,            *)
(* pkg/sdk/service.go, pkg/blockchain/org.go, pkg/blockchain/service.go)   *)
(* and the discovery that reads them back (NewOrgClient, NewServiceClient, *)
(* pkg/storage).                                                           *)
(*                                                                         *)
(* A URI stands for the metadata stored under it, for storage addresses    *)
(* content by its hash.  The contract and the storage network are          *)
(* external.  All threads act with one key.                                *)
(***************************************************************************)
EXTENDS Naturals, Sequences

CONSTANTS Threads,    \* users of the SDK: goroutines or processes
          Names,      \* organisation ids, as the application writes them
          Keys,       \* their first 32 bytes
          Bytes32,    \* which name gives which key
          OrgMetas,   \* URIs of organisation metadata
          OrgID,      \* the organisation each of them names
          Services,   \* service ids
          SrvMetas,   \* URIs of service metadata
          None,       \* no URI
          NoHash,     \* the URI "ipfs://", of an upload whose reply has no hash
          MaxOps,     \* bound: operations that send a transaction
          MaxFaults   \* bound: crashes, panics and wrong answers of the storage network

ASSUME RegistryAssumption ==
    /\ Bytes32 \in [Names -> Keys]
    /\ OrgID \in [OrgMetas -> Names]
    /\ OrgMetas \cap SrvMetas = {}
    /\ None \notin OrgMetas \cup SrvMetas \cup Names \cup Services
    /\ NoHash \notin OrgMetas \cup SrvMetas \cup {None}
    /\ {MaxOps, MaxFaults} \subseteq Nat

VARIABLES orgs,       \* Registry: metadata URI of each organisation
          services,   \* Registry: metadata URI of each service of each
          owned,      \* Registry: organisations of the key all threads use
          mempool,    \* transactions sent and not yet mined
          store,      \* URIs whose content has been uploaded
          client,     \* the clients each thread has built
          work,       \* what each thread is doing
          ops, faults, \* so far
          mislabelled, \* has metadata been published that names another one?
          misread      \* has the gateway served a wrong content?

registryVars == <<orgs, services, owned, mempool>>
countVars    == <<ops, faults, mislabelled, misread>>
vars == <<registryVars, store, client, work, countVars>>

URI == OrgMetas \cup SrvMetas

\* What is registered for an organisation, for a service, and as a transaction says.
OrgURI == OrgMetas \cup {None, NoHash}
SrvURI == SrvMetas \cup {None, NoHash}
TxURI  == URI \cup {None, NoHash}

\* An OrgClient: the name it was asked for, and the metadata it read.  A
\* ServiceClient built from it: the service and its metadata.
Client   == [asked : Names \cup {None}, org : OrgMetas \cup {None},
             service : Services \cup {None}, meta : SrvMetas \cup {None}]
NoClient == [asked |-> None, org |-> None, service |-> None, meta |-> None]

\* A transaction; asked is the name its sender's client was built for.
TxKind == {"createOrg", "changeMetadata", "changeOwner", "deleteOrg", "removeMembers",
           "createService", "updateService", "deleteService"}
Tx == [kind : TxKind, key : Keys, service : Services \cup {None}, uri : TxURI, asked : Names]

\* step: where in the operation the thread is.
Idle == [step |-> "idle"]
Work == [step : {"idle"}]
        \cup [step : {"upload", "submit"}, tx : Tx]
        \cup [step : {"readOrg"}, asked : Names, uri : OrgURI \ {None}]
        \cup [step : {"readService"}, service : Services, uri : SrvURI \ {None}]

Init ==
    /\ orgs = [k \in Keys |-> None]
    /\ services = [k \in Keys |-> [s \in Services |-> None]]
    /\ owned = {}
    /\ mempool = <<>>
    /\ store = {}
    /\ client = [t \in Threads |-> NoClient]
    /\ work = [t \in Threads |-> Idle]
    /\ ops = 0 /\ faults = 0
    /\ mislabelled = FALSE /\ misread = FALSE

-----------------------------------------------------------------------------
(* The Registry contract.                                                  *)

Accepted(tx) ==
    LET mine == orgs[tx.key] # None /\ tx.key \in owned IN
    CASE tx.kind = "createOrg"     -> orgs[tx.key] = None
      [] tx.kind = "createService" -> mine /\ services[tx.key][tx.service] = None
      [] tx.kind \in {"updateService", "deleteService"} ->
             mine /\ services[tx.key][tx.service] # None
      [] OTHER -> mine

Apply(tx) ==
    /\ orgs' = CASE tx.kind \in {"createOrg", "changeMetadata"} -> [orgs EXCEPT ![tx.key] = tx.uri]
                 [] tx.kind = "deleteOrg" -> [orgs EXCEPT ![tx.key] = None]
                 [] OTHER -> orgs
    /\ services' = CASE tx.kind \in {"createService", "updateService"} ->
                            [services EXCEPT ![tx.key][tx.service] = tx.uri]
                     [] tx.kind = "deleteService" ->
                            [services EXCEPT ![tx.key][tx.service] = None]
                     [] tx.kind = "deleteOrg" ->
                            [services EXCEPT ![tx.key] = [s \in Services |-> None]]
                     [] OTHER -> services
    /\ owned' = CASE tx.kind = "createOrg" -> owned \cup {tx.key}
                  [] tx.kind \in {"changeOwner", "deleteOrg"} -> owned \ {tx.key}
                  [] OTHER -> owned

Mine ==
    /\ mempool # <<>>
    /\ mempool' = Tail(mempool)
    /\ IF Accepted(Head(mempool)) THEN Apply(Head(mempool))
                                  ELSE UNCHANGED <<orgs, services, owned>>
    /\ UNCHANGED <<store, client, work, countVars>>

-----------------------------------------------------------------------------
(* Publishing: the metadata is uploaded, then its URI is registered.       *)

Goes(t, w) == work[t] = Idle /\ work' = [work EXCEPT ![t] = w]

\* The client goes by the id in the metadata it read, not by the one it was
\* asked for.
OwnKey(t) == Bytes32[OrgID[client[t].org]]

Send(t, step, kind, key, service, uri, asked) ==
    /\ ops < MaxOps
    /\ ops' = ops + 1
    /\ Goes(t, [step |-> step,
                tx |-> [kind |-> kind, key |-> key, service |-> service, uri |-> uri,
                        asked |-> asked]])
    /\ mislabelled' = (mislabelled \/ (uri \in OrgMetas /\ Bytes32[OrgID[uri]] # key))
    /\ UNCHANGED <<registryVars, store, client, faults, misread>>

CreateOrganization(t) ==
    \E name \in Names, uri \in OrgMetas :
        Send(t, "upload", "createOrg", Bytes32[name], None, uri, name)

\* Wrong variant: the organisation is taken from the metadata to publish.
UpdateOrgMetadataNamed(t) ==
    /\ client[t].org # None
    /\ \E uri \in OrgMetas :
         Send(t, "upload", "changeMetadata", Bytes32[OrgID[uri]], None, uri, client[t].asked)

\* Operations of an OrganizationClient; nothing compares the metadata with it.
UpdateOrgMetadataFull(t) ==
    /\ client[t].org # None
    /\ \E uri \in OrgMetas :
         Send(t, "upload", "changeMetadata", OwnKey(t), None, uri, client[t].asked)

ChangeOrg(t) ==
    /\ client[t].org # None
    /\ \E kind \in {"changeOwner", "deleteOrg", "removeMembers"} :
         Send(t, "submit", kind, OwnKey(t), None, None, client[t].asked)

CreateService(t) ==
    /\ client[t].org # None
    /\ \E s \in Services, uri \in SrvMetas :
         Send(t, "upload", "createService", OwnKey(t), s, uri, client[t].asked)

\* Operations of a ServiceClient.
UpdateServiceMetadata(t) ==
    /\ client[t].meta # None
    /\ \E uri \in SrvMetas :
         Send(t, "upload", "updateService", OwnKey(t), client[t].service, uri, client[t].asked)

DeleteService(t) ==
    /\ client[t].meta # None
    /\ Send(t, "submit", "deleteService", OwnKey(t), client[t].service, None, client[t].asked)

\* Wrong variant: the URI is registered although the upload failed.
UploadUnchecked(t) ==
    /\ work[t].step = "upload"
    /\ store' \in {store, store \cup {work[t].tx.uri}}
    /\ work' = [work EXCEPT ![t].step = "submit"]
    /\ UNCHANGED <<registryVars, client, countVars>>

Upload(t) ==
    /\ work[t].step = "upload"
    /\ store' = store \cup {work[t].tx.uri}
    /\ work' = [work EXCEPT ![t].step = "submit"]
    /\ UNCHANGED <<registryVars, client, countVars>>

\* The reply of the node names no hash, which is no error.
UploadWithoutHash(t) ==
    /\ work[t].step = "upload" /\ faults < MaxFaults
    /\ faults' = faults + 1
    /\ store' \in {store, store \cup {work[t].tx.uri}}
    /\ work' = [work EXCEPT ![t] =
         [step |-> "submit", tx |-> [work[t].tx EXCEPT !.uri = NoHash]]]
    /\ UNCHANGED <<registryVars, client, ops, mislabelled, misread>>

\* The transact options, the estimate of the gas, which runs the transaction
\* on the present state, and the transaction.
Submit(t) ==
    /\ work[t].step = "submit"
    /\ Accepted(work[t].tx)
    /\ mempool' = Append(mempool, work[t].tx)
    /\ work' = [work EXCEPT ![t] = Idle]
    /\ UNCHANGED <<orgs, services, owned, store, client, countVars>>

\* Any of these steps returns an error and leaves what was done before.
Fails(t) ==
    /\ work[t].step \in {"upload", "submit", "readOrg", "readService"}
    /\ work' = [work EXCEPT ![t] = Idle]
    /\ UNCHANGED <<registryVars, store, client, countVars>>

-----------------------------------------------------------------------------
(* Discovery.                                                              *)

OpenOrg(t) ==
    /\ \E name \in Names :
         /\ orgs[Bytes32[name]] # None
         /\ Goes(t, [step |-> "readOrg", asked |-> name, uri |-> orgs[Bytes32[name]]])
    /\ UNCHANGED <<registryVars, store, client, countVars>>

\* What ReadFile returns for a URI.  The check of the content compares the
\* identifier with itself, so that a wrong content passes.  Without a hash the
\* URI has no identifier and the read is an error.
ReadsAs(uri, content) ==
    /\ uri \in store /\ content \in store
    /\ faults' = IF content = uri THEN faults ELSE faults + 1
    /\ faults' <= MaxFaults
    /\ misread' = (misread \/ content # uri)

ReadOrg(t) ==
    /\ work[t].step = "readOrg"
    /\ \E content \in OrgMetas :
         /\ ReadsAs(work[t].uri, content)
         /\ client' = [client EXCEPT ![t] =
              [NoClient EXCEPT !.asked = work[t].asked, !.org = content]]
    /\ work' = [work EXCEPT ![t] = Idle]
    /\ UNCHANGED <<registryVars, store, ops, mislabelled>>

\* Wrong variant: a service that is not registered is read all the same.
OpenServiceUnchecked(t) ==
    /\ client[t].org # None
    /\ \E s \in Services :
         Goes(t, [step |-> "readService", service |-> s, uri |-> services[OwnKey(t)][s]])
    /\ UNCHANGED <<registryVars, store, client, countVars>>

OpenService(t) ==
    /\ client[t].org # None
    /\ \E s \in Services :
         /\ services[OwnKey(t)][s] # None
         /\ Goes(t, [step |-> "readService", service |-> s, uri |-> services[OwnKey(t)][s]])
    /\ UNCHANGED <<registryVars, store, client, countVars>>

\* The metadata, and the archive of .proto files it names, whatever that holds.
\* (An error inside the answer is overwritten by the deferred close and no
\* content parses as an archive without files: the client is built all the
\* same and knows no method.)
ReadService(t) ==
    /\ work[t].step = "readService"
    /\ \E content \in SrvMetas :
         /\ ReadsAs(work[t].uri, content)
         /\ client' = [client EXCEPT ![t].service = work[t].service, ![t].meta = content]
    /\ work' = [work EXCEPT ![t] = Idle]
    /\ UNCHANGED <<registryVars, store, ops, mislabelled>>

-----------------------------------------------------------------------------
\* The process ends: a crash between two steps; the panic for an organisation
\* or service that is not registered; the panic in the operations that pass no
\* transact options (UpdateMetadata, AddMembers, and the blockchain package's
\* Update, Delete and updateMetadataUri), which send nothing.
Dies(t) ==
    /\ faults < MaxFaults
    /\ work' = [work EXCEPT ![t] = Idle]
    /\ client' = [client EXCEPT ![t] = NoClient]
    /\ faults' = faults + 1
    /\ UNCHANGED <<registryVars, store, ops, mislabelled, misread>>

Crash(t) == work[t] # Idle /\ Dies(t)

NotRegistered(t) ==
    /\ work[t] = Idle
    /\ \/ \E name \in Names : orgs[Bytes32[name]] = None
       \/ client[t].org # None /\ \E s \in Services : services[OwnKey(t)][s] = None
    /\ Dies(t)

WithoutOptions(t) == work[t] = Idle /\ client[t].org # None /\ Dies(t)

Next ==
    \/ Mine
    \/ \E t \in Threads :
         \/ CreateOrganization(t) \/ UpdateOrgMetadataFull(t) \/ ChangeOrg(t)
         \/ CreateService(t) \/ UpdateServiceMetadata(t) \/ DeleteService(t)
         \/ Upload(t) \/ UploadWithoutHash(t) \/ Submit(t) \/ Fails(t)
         \/ OpenOrg(t) \/ ReadOrg(t) \/ OpenService(t) \/ ReadService(t)
         \/ Crash(t) \/ NotRegistered(t) \/ WithoutOptions(t)

Spec == Init /\ [][Next]_vars

-----------------------------------------------------------------------------
(* Properties.                                                             *)

\* The state is well-typed; a thread that reads has a URI to read.
TypeOK ==
    /\ orgs \in [Keys -> OrgURI]
    /\ services \in [Keys -> [Services -> SrvURI]]
    /\ owned \subseteq Keys
    /\ mempool \in Seq(Tx)
    /\ store \subseteq URI
    /\ client \in [Threads -> Client]
    /\ work \in [Threads -> Work]
    /\ ops \in 0..MaxOps /\ faults \in 0..MaxFaults
    /\ {mislabelled, misread} \subseteq BOOLEAN

\* Whatever is registered, or on its way to be, has been uploaded before: a
\* crash or an error between the two steps never leaves a registration that
\* points to nothing.  Only an upload that was answered without a hash does, and
\* only once something went wrong.
Published(uri) == uri \in store \cup {None} \/ (uri = NoHash /\ faults > 0)
PublishedReadable ==
    /\ \A k \in Keys : Published(orgs[k])
    /\ \A k \in Keys, s \in Services : Published(services[k][s])
    /\ \A i \in 1..Len(mempool) : Published(mempool[i].uri)

\* A transaction changes the organisation its client was built for, although
\* it is addressed by the id found in the metadata, provided no metadata
\* published so far names another organisation and the gateway serves what it
\* is asked for.
ActsOnAsked ==
    ~mislabelled /\ ~misread =>
        \A i \in 1..Len(mempool) : mempool[i].key = Bytes32[mempool[i].asked]
================================================================================
