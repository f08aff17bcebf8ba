------------------------ MODULE MetadataRegistryProofs ------------------------
(***************************************************************************)
(* Proofs about MetadataRegistry, for any number of users, organisations,  *)
(* services, operations and faults.                                        *)
(***************************************************************************)
EXTENDS MetadataRegistry, SequenceTheorems, TLAPS

-----------------------------------------------------------------------------
(* The inductive invariant. *)

\* A transaction carries the kind of URI and the service its kind calls for.
TxShape(tx) ==
    /\ tx.kind \in {"createOrg", "changeMetadata"} => tx.uri \in OrgURI
    /\ tx.kind \in {"createService", "updateService"} => tx.uri \in SrvURI
    /\ tx.kind \in {"createService", "updateService", "deleteService"} => tx.service \in Services

\* Its metadata can be read, but for an upload that was answered without a hash.
TxReadable(tx) == Published(tx.uri)

\* It is addressed to the organisation its sender asked for, and so is the
\* organisation metadata it carries.
TxAsked(tx) == /\ tx.key = Bytes32[tx.asked]
               /\ tx.uri \in OrgMetas => Bytes32[OrgID[tx.uri]] = tx.key

\* What a thread is preparing and what its clients stand for.
ThreadShape(t) ==
    /\ work[t].step \in {"upload", "submit"} => TxShape(work[t].tx)
    /\ work[t].step = "upload" => work[t].tx.uri \in URI
    /\ work[t].step = "submit" => TxReadable(work[t].tx)
    /\ work[t].step = "readService" => client[t].org # None
    /\ client[t].org # None => client[t].asked # None
    /\ client[t].meta # None => client[t].org # None /\ client[t].service # None

MempoolShape == \A i \in 1..Len(mempool) : TxShape(mempool[i])

\* As long as nobody published the metadata of another organisation and the
\* gateway was right, names, metadata and keys agree everywhere.
ThreadAsked(t) ==
    /\ work[t].step \in {"upload", "submit"} => TxAsked(work[t].tx)
    /\ work[t].step = "readOrg" /\ work[t].uri \in OrgMetas =>
          Bytes32[OrgID[work[t].uri]] = Bytes32[work[t].asked]
    /\ client[t].org # None => Bytes32[OrgID[client[t].org]] = Bytes32[client[t].asked]

Asked ==
    ~mislabelled /\ ~misread =>
        /\ \A k \in Keys : orgs[k] \in OrgMetas => Bytes32[OrgID[orgs[k]]] = k
        /\ \A i \in 1..Len(mempool) : TxAsked(mempool[i])
        /\ \A t \in Threads : ThreadAsked(t)

Shape == MempoolShape /\ \A t \in Threads : ThreadShape(t)

IInv == TypeOK /\ Shape /\ PublishedReadable /\ Asked

LEMMA InitIInv == Init => IInv
  <1> SUFFICES ASSUME Init PROVE IInv
    OBVIOUS
  <1> USE DEF Init
  <1>1. NoClient \in Client /\ NoClient.org = None /\ NoClient.meta = None
    BY DEF NoClient, Client
  <1>2. Idle \in Work /\ Idle.step = "idle"
    BY DEF Idle, Work
  <1>3. \A t \in Threads : client[t] = NoClient /\ work[t] = Idle
    OBVIOUS
  <1>4. mempool \in Seq(Tx) /\ Len(mempool) = 0
    OBVIOUS
  <1>5. TypeOK
    <2>1. client \in [Threads -> Client] /\ work \in [Threads -> Work]
      BY <1>1, <1>2
    <2>2. orgs \in [Keys -> OrgURI]
          /\ services \in [Keys -> [Services -> SrvURI]]
          /\ owned \subseteq Keys /\ store \subseteq URI
      BY DEF OrgURI, SrvURI
    <2>3. ops \in 0..MaxOps /\ faults \in 0..MaxFaults
      BY RegistryAssumption
    <2>4. {mislabelled, misread} \subseteq BOOLEAN
      OBVIOUS
    <2>5. QED
      BY <1>4, <2>1, <2>2, <2>3, <2>4 DEF TypeOK
  <1>6. Shape
    BY <1>1, <1>2, <1>3, <1>4 DEF Shape, MempoolShape, ThreadShape
  <1>7. PublishedReadable
    BY <1>4 DEF PublishedReadable, Published
  <1>8. Asked
    BY <1>1, <1>2, <1>3, <1>4, RegistryAssumption DEF Asked, ThreadAsked
  <1>9. QED
    BY <1>5, <1>6, <1>7, <1>8 DEF IInv

-----------------------------------------------------------------------------
(* Steps of one thread. *)

LEMMA FaultsType == ASSUME IInv PROVE faults \in Nat /\ faults \in 0..MaxFaults /\ MaxFaults \in Nat
  BY RegistryAssumption DEF IInv, TypeOK

\* A step that changes nothing but what thread t does and the clients it has,
\* and perhaps counts a fault.
LEMMA LocalStep ==
    ASSUME IInv, NEW t \in Threads, NEW w \in Work, NEW c \in Client,
           work' = [work EXCEPT ![t] = w], client' = [client EXCEPT ![t] = c],
           UNCHANGED <<registryVars, store>>,
           ops' \in 0..MaxOps, faults' \in 0..MaxFaults, faults' >= faults,
           mislabelled' \in BOOLEAN, mislabelled => mislabelled',
           misread' \in BOOLEAN, misread => misread',
           w.step \in {"upload", "submit"} => TxShape(w.tx),
           w.step = "upload" => w.tx.uri \in URI,
           w.step = "submit" => TxReadable(w.tx),
           w.step = "readService" => c.org # None,
           c.org # None => c.asked # None,
           c.meta # None => c.org # None /\ c.service # None,
           ~mislabelled' /\ ~misread' =>
             /\ w.step \in {"upload", "submit"} => TxAsked(w.tx)
             /\ w.step = "readOrg" /\ w.uri \in OrgMetas => Bytes32[OrgID[w.uri]] = Bytes32[w.asked]
             /\ c.org # None => Bytes32[OrgID[c.org]] = Bytes32[c.asked]
    PROVE  IInv'
  <1> USE DEF IInv
  <1>1. work'[t] = w /\ client'[t] = c
    BY DEF TypeOK
  <1>2. \A u \in Threads \ {t} : work'[u] = work[u] /\ client'[u] = client[u]
    BY DEF TypeOK
  <1>0. \A uri : Published(uri) => Published(uri)'
    BY FaultsType DEF Published
  <1>3. TypeOK'
    BY DEF TypeOK, registryVars
  <1>4. Shape'
    BY <1>0, <1>1, <1>2 DEF Shape, MempoolShape, ThreadShape, TxShape, TxReadable, registryVars
  <1>5. PublishedReadable'
    BY <1>0 DEF PublishedReadable, registryVars
  <1>6. Asked'
    BY <1>1, <1>2 DEF Asked, ThreadAsked, TxAsked, registryVars
  <1>7. QED
    BY <1>3, <1>4, <1>5, <1>6

\* The state a thread drops back to.
LEMMA IdleWork == Idle \in Work /\ Idle.step = "idle"
  BY DEF Idle, Work

LEMMA NoClientType == NoClient \in Client /\ NoClient.org = None /\ NoClient.meta = None
  BY DEF NoClient, Client

\* The clients a thread has, as they stand.
LEMMA OwnClient ==
    ASSUME IInv, NEW t \in Threads
    PROVE  /\ client[t] \in Client
           /\ client = [client EXCEPT ![t] = client[t]]
           /\ client[t].org # None => client[t].org \in OrgMetas /\ client[t].asked \in Names
                                      /\ OwnKey(t) \in Keys
           /\ client[t].meta # None => client[t].org # None /\ client[t].service \in Services
           /\ ThreadShape(t)
           /\ ~mislabelled /\ ~misread => ThreadAsked(t)
  <1>1. client[t] \in Client /\ client = [client EXCEPT ![t] = client[t]]
    BY DEF IInv, TypeOK
  <1>2. ThreadShape(t) /\ (~mislabelled /\ ~misread => ThreadAsked(t))
    BY DEF IInv, Shape, Asked
  <1>3. QED
    BY <1>1, <1>2, RegistryAssumption DEF Client, ThreadShape, OwnKey

\* An operation that sets out to send a transaction.
LEMMA StepSend ==
    ASSUME IInv, NEW t \in Threads, NEW step \in {"upload", "submit"}, NEW kind \in TxKind,
           NEW key \in Keys, NEW service \in Services \cup {None}, NEW uri \in URI \cup {None},
           NEW asked \in Names, Send(t, step, kind, key, service, uri, asked),
           TxShape([kind |-> kind, key |-> key, service |-> service, uri |-> uri,
                    asked |-> asked]),
           step = "submit" <=> uri = None,
           ~mislabelled /\ ~misread => key = Bytes32[asked]
    PROVE  IInv'
  <1> DEFINE tx == [kind |-> kind, key |-> key, service |-> service, uri |-> uri,
                    asked |-> asked]
             w == [step |-> step, tx |-> tx]
  <1>1. tx \in Tx
    BY DEF Tx, TxURI
  <1>2. w \in Work
    BY <1>1 DEF Work
  <1>3. work' = [work EXCEPT ![t] = w] /\ client' = client
        /\ UNCHANGED <<registryVars, store, faults, misread>>
        /\ mislabelled' = (mislabelled \/ (uri \in OrgMetas /\ Bytes32[OrgID[uri]] # key))
        /\ ops' \in 0..MaxOps /\ faults' \in 0..MaxFaults
    BY RegistryAssumption DEF Send, Goes, IInv, TypeOK
  <1>4. TxShape(tx) /\ (step = "submit" => TxReadable(tx)) /\ (step = "upload" => tx.uri \in URI)
    BY DEF TxReadable, Published
  <1>5. ~mislabelled' /\ ~misread' => TxAsked(tx)
    BY <1>3 DEF TxAsked
  <1>6. /\ client[t] \in Client /\ client' = [client EXCEPT ![t] = client[t]]
        /\ ThreadShape(t) /\ (~mislabelled' /\ ~misread' => ThreadAsked(t))
        /\ mislabelled' \in BOOLEAN /\ misread' \in BOOLEAN
        /\ faults' >= faults
    BY <1>3, OwnClient, FaultsType DEF IInv, TypeOK
  <1>7. w.step = step /\ w.tx = tx /\ step # "readService" /\ step # "readOrg"
    OBVIOUS
  <1> HIDE DEF tx, w
  <1>8. QED
    BY <1>2, <1>3, <1>4, <1>5, <1>6, <1>7, LocalStep DEF ThreadShape, ThreadAsked

LEMMA StepCreateOrganization == ASSUME IInv, NEW t \in Threads, CreateOrganization(t) PROVE IInv'
  <1>1. PICK name \in Names, uri \in OrgMetas :
          Send(t, "upload", "createOrg", Bytes32[name], None, uri, name)
    BY DEF CreateOrganization
  <1>2. Bytes32[name] \in Keys /\ uri \in URI /\ uri # None /\ "createOrg" \in TxKind
    BY RegistryAssumption DEF URI, TxKind
  <1>3. QED
    BY <1>1, <1>2, StepSend DEF TxShape, OrgURI, SrvURI

\* What the client was asked for and goes by, as StepSend wants them.
LEMMA OwnKeyAsked ==
    ASSUME IInv, NEW t \in Threads, client[t].org # None
    PROVE  /\ OwnKey(t) \in Keys /\ client[t].asked \in Names
           /\ ~mislabelled /\ ~misread => OwnKey(t) = Bytes32[client[t].asked]
  BY OwnClient DEF ThreadAsked, OwnKey

LEMMA StepUpdateOrgMetadataFull ==
    ASSUME IInv, NEW t \in Threads, UpdateOrgMetadataFull(t) PROVE IInv'
  <1>1. PICK uri \in OrgMetas :
          Send(t, "upload", "changeMetadata", OwnKey(t), None, uri, client[t].asked)
    BY DEF UpdateOrgMetadataFull
  <1>2. uri \in URI /\ uri # None /\ "changeMetadata" \in TxKind /\ client[t].org # None
    BY RegistryAssumption DEF URI, TxKind, UpdateOrgMetadataFull
  <1>3. QED
    BY <1>1, <1>2, OwnKeyAsked, StepSend DEF TxShape, OrgURI, SrvURI

LEMMA StepChangeOrg == ASSUME IInv, NEW t \in Threads, ChangeOrg(t) PROVE IInv'
  <1>1. PICK kind \in {"changeOwner", "deleteOrg", "removeMembers"} :
          Send(t, "submit", kind, OwnKey(t), None, None, client[t].asked)
    BY DEF ChangeOrg
  <1>2. kind \in TxKind /\ client[t].org # None
    BY DEF TxKind, ChangeOrg
  <1>3. QED
    BY <1>1, <1>2, OwnKeyAsked, StepSend DEF TxShape, OrgURI, SrvURI

LEMMA StepCreateService == ASSUME IInv, NEW t \in Threads, CreateService(t) PROVE IInv'
  <1>1. PICK s \in Services, uri \in SrvMetas :
          Send(t, "upload", "createService", OwnKey(t), s, uri, client[t].asked)
    BY DEF CreateService
  <1>2. uri \in URI /\ uri # None /\ "createService" \in TxKind /\ client[t].org # None
    BY RegistryAssumption DEF URI, TxKind, CreateService
  <1>3. QED
    BY <1>1, <1>2, OwnKeyAsked, StepSend DEF TxShape, OrgURI, SrvURI

LEMMA StepUpdateServiceMetadata ==
    ASSUME IInv, NEW t \in Threads, UpdateServiceMetadata(t) PROVE IInv'
  <1>1. PICK uri \in SrvMetas :
          Send(t, "upload", "updateService", OwnKey(t), client[t].service, uri, client[t].asked)
    BY DEF UpdateServiceMetadata
  <1>2. client[t].org # None /\ client[t].service \in Services
    BY OwnClient DEF UpdateServiceMetadata
  <1>3. uri \in URI /\ uri # None /\ "updateService" \in TxKind
    BY RegistryAssumption DEF URI, TxKind
  <1>4. QED
    BY <1>1, <1>2, <1>3, OwnKeyAsked, StepSend DEF TxShape, OrgURI, SrvURI

LEMMA StepDeleteService == ASSUME IInv, NEW t \in Threads, DeleteService(t) PROVE IInv'
  <1>1. Send(t, "submit", "deleteService", OwnKey(t), client[t].service, None, client[t].asked)
    BY DEF DeleteService
  <1>2. client[t].org # None /\ client[t].service \in Services
    BY OwnClient DEF DeleteService
  <1>3. "deleteService" \in TxKind
    BY DEF TxKind
  <1>4. QED
    BY <1>1, <1>2, <1>3, OwnKeyAsked, StepSend DEF TxShape, OrgURI, SrvURI

-----------------------------------------------------------------------------
(* The steps of an operation under way. *)

\* More can be read after an upload, so only the thread itself needs care.
LEMMA StepUpload == ASSUME IInv, NEW t \in Threads, Upload(t) PROVE IInv'
  <1> USE DEF IInv
  <1> DEFINE w == [work[t] EXCEPT !.step = "submit"]
  <1>1. work[t] \in Work /\ work[t].step = "upload"
    BY DEF Upload, TypeOK
  <1>2. work[t].tx \in Tx /\ work[t] = [step |-> "upload", tx |-> work[t].tx]
    BY <1>1 DEF Work
  <1>3. w = [step |-> "submit", tx |-> work[t].tx]
    BY <1>2
  <1>4. w \in Work
    BY <1>2, <1>3 DEF Work
  <1>5. work' = [work EXCEPT ![t] = w] /\ store' = store \cup {work[t].tx.uri}
        /\ UNCHANGED <<registryVars, client, countVars>>
    BY DEF Upload
  <1>6. w.step = "submit" /\ w.tx = work[t].tx
    BY <1>3
  <1> HIDE DEF w
  <1>7. work'[t] = w /\ \A u \in Threads \ {t} : work'[u] = work[u]
    BY <1>5 DEF TypeOK
  <1>8. work[t].tx.uri \in URI /\ \A uri : Published(uri) => Published(uri)'
    BY <1>1, <1>2, <1>5 DEF Shape, ThreadShape, Published, countVars
  <1>9. TypeOK'
    BY <1>4, <1>5, <1>8 DEF TypeOK, registryVars, countVars
  <1>10. Shape'
    <2>1. \A uri : uri = work[t].tx.uri => Published(uri)'
      BY <1>5 DEF Published
    <2>2. QED
      BY <1>1, <1>5, <1>6, <1>7, <1>8, <2>1
         DEF Shape, MempoolShape, ThreadShape, TxReadable, registryVars
  <1>11. PublishedReadable'
    BY <1>5, <1>8 DEF PublishedReadable, registryVars
  <1>12. Asked'
    BY <1>1, <1>5, <1>6, <1>7 DEF Asked, ThreadAsked, registryVars, countVars
  <1>13. QED
    BY <1>9, <1>10, <1>11, <1>12

\* Without a hash the thread goes on with a URI that names nothing; the fault has
\* been counted.
LEMMA StepUploadWithoutHash == ASSUME IInv, NEW t \in Threads, UploadWithoutHash(t) PROVE IInv'
  <1> USE DEF IInv
  <1> DEFINE tx == [work[t].tx EXCEPT !.uri = NoHash]
             w == [step |-> "submit", tx |-> tx]
  <1>1. work[t] \in Work /\ work[t].step = "upload"
    BY DEF UploadWithoutHash, TypeOK
  <1>2. work[t].tx \in Tx /\ work[t] = [step |-> "upload", tx |-> work[t].tx]
    BY <1>1 DEF Work
  <1>3. TxShape(work[t].tx) /\ work[t].tx.uri \in URI
    BY <1>1 DEF Shape, ThreadShape
  <1>4. /\ tx \in Tx /\ tx.kind = work[t].tx.kind /\ tx.key = work[t].tx.key
        /\ tx.service = work[t].tx.service /\ tx.asked = work[t].tx.asked /\ tx.uri = NoHash
    BY <1>2 DEF Tx, TxURI
  <1>5. /\ work' = [work EXCEPT ![t] = w] /\ store \subseteq store' /\ store' \subseteq URI
        /\ faults' = faults + 1 /\ faults < MaxFaults
        /\ UNCHANGED <<registryVars, client, ops, mislabelled, misread>>
    BY <1>3 DEF UploadWithoutHash, TypeOK
  <1>6. w.step = "submit" /\ w.tx = tx
    OBVIOUS
  <1>7. w \in Work
    BY <1>4 DEF Work
  <1> HIDE DEF tx, w
  <1>8. work'[t] = w /\ \A u \in Threads \ {t} : work'[u] = work[u]
    BY <1>5 DEF TypeOK
  <1>9. faults' \in 0..MaxFaults /\ faults' > 0
    BY <1>5, FaultsType
  <1>10. Published(NoHash)' /\ \A uri : Published(uri) => Published(uri)'
    BY <1>5, <1>9 DEF Published
  <1>11. TypeOK'
    BY <1>5, <1>7, <1>9 DEF TypeOK, registryVars
  <1>12. TxShape(tx)
    BY <1>3, <1>4 DEF TxShape, OrgURI, SrvURI
  <1>13. Shape'
    BY <1>4, <1>5, <1>6, <1>8, <1>10, <1>12
       DEF Shape, MempoolShape, ThreadShape, TxReadable, registryVars
  <1>14. PublishedReadable'
    BY <1>5, <1>10 DEF PublishedReadable, registryVars
  <1>15. ~mislabelled /\ ~misread => TxAsked(tx)
    BY <1>1, <1>4, RegistryAssumption DEF Asked, ThreadAsked, TxAsked
  <1>16. Asked'
    BY <1>5, <1>6, <1>8, <1>15 DEF Asked, ThreadAsked, registryVars
  <1>17. QED
    BY <1>11, <1>13, <1>14, <1>16

LEMMA StepSubmit == ASSUME IInv, NEW t \in Threads, Submit(t) PROVE IInv'
  <1> USE DEF IInv
  <1> DEFINE tx == work[t].tx
  <1>1. tx \in Tx /\ TxShape(tx) /\ TxReadable(tx)
        /\ (~mislabelled /\ ~misread => TxAsked(tx))
    <2>1. work[t] \in Work /\ work[t].step = "submit"
      BY DEF Submit, TypeOK
    <2>2. tx \in Tx
      BY <2>1 DEF Work
    <2>3. QED
      BY <2>1, <2>2, OwnClient DEF ThreadShape, ThreadAsked
  <1>2. mempool' = Append(mempool, tx) /\ work' = [work EXCEPT ![t] = Idle]
        /\ UNCHANGED <<orgs, services, owned, store, client, countVars>>
    BY DEF Submit
  <1> HIDE DEF tx
  <1>3. /\ mempool' \in Seq(Tx) /\ Len(mempool') = Len(mempool) + 1
        /\ Len(mempool) \in Nat
        /\ \A i \in 1..Len(mempool) : mempool'[i] = mempool[i]
        /\ mempool'[Len(mempool) + 1] = tx
    BY <1>1, <1>2, AppendProperties DEF TypeOK
  <1>4. \A i \in 1..Len(mempool') : mempool'[i] = tx \/ (i \in 1..Len(mempool)
                                                        /\ mempool'[i] = mempool[i])
    BY <1>3
  <1>5. /\ work'[t] = Idle /\ \A u \in Threads \ {t} : work'[u] = work[u]
        /\ \A uri : Published(uri) => Published(uri)'
    BY <1>2 DEF TypeOK, Published, countVars
  <1>6. TypeOK'
    BY <1>2, <1>3, IdleWork DEF TypeOK, countVars
  <1>7. Shape'
    BY <1>1, <1>2, <1>4, <1>5, IdleWork DEF Shape, MempoolShape, ThreadShape, TxReadable
  <1>8. PublishedReadable'
    BY <1>1, <1>2, <1>4, <1>5 DEF PublishedReadable, TxReadable
  <1>9. Asked'
    BY <1>1, <1>2, <1>4, <1>5, IdleWork DEF Asked, ThreadAsked, countVars
  <1>10. QED
    BY <1>6, <1>7, <1>8, <1>9

LEMMA StepFails == ASSUME IInv, NEW t \in Threads, Fails(t) PROVE IInv'
  <1>1. work' = [work EXCEPT ![t] = Idle] /\ UNCHANGED <<registryVars, store, client, countVars>>
    BY DEF Fails
  <1>2. /\ ops' \in 0..MaxOps /\ faults' \in 0..MaxFaults
        /\ mislabelled' \in BOOLEAN /\ misread' \in BOOLEAN
        /\ mislabelled' = mislabelled /\ misread' = misread /\ faults' >= faults
    BY <1>1, FaultsType DEF countVars, IInv, TypeOK
  <1>3. QED
    BY <1>1, <1>2, IdleWork, OwnClient, LocalStep DEF ThreadShape, ThreadAsked

-----------------------------------------------------------------------------
(* Discovery and the end of a process. *)

LEMMA StepOpenOrg == ASSUME IInv, NEW t \in Threads, OpenOrg(t) PROVE IInv'
  <1>1. PICK name \in Names :
          /\ orgs[Bytes32[name]] # None
          /\ Goes(t, [step |-> "readOrg", asked |-> name, uri |-> orgs[Bytes32[name]]])
    BY DEF OpenOrg
  <1> DEFINE w == [step |-> "readOrg", asked |-> name, uri |-> orgs[Bytes32[name]]]
  <1>2. Bytes32[name] \in Keys /\ orgs[Bytes32[name]] \in OrgURI
    BY <1>1, RegistryAssumption DEF IInv, TypeOK
  <1>3. w \in Work
    BY <1>1, <1>2 DEF Work
  <1>4. w.step = "readOrg" /\ (~mislabelled /\ ~misread /\ w.uri \in OrgMetas
                                 => Bytes32[OrgID[w.uri]] = Bytes32[w.asked])
    BY <1>1, <1>2 DEF IInv, Asked
  <1>5. /\ work' = [work EXCEPT ![t] = w] /\ UNCHANGED <<registryVars, store, client>>
        /\ ops' \in 0..MaxOps /\ faults' \in 0..MaxFaults
        /\ mislabelled' \in BOOLEAN /\ misread' \in BOOLEAN
        /\ mislabelled' = mislabelled /\ misread' = misread /\ faults' = faults
    BY <1>1 DEF OpenOrg, Goes, countVars, IInv, TypeOK
  <1> HIDE DEF w
  <1>6. faults' >= faults
    BY <1>5, FaultsType
  <1>7. QED
    BY <1>3, <1>4, <1>5, <1>6, OwnClient, LocalStep DEF ThreadShape, ThreadAsked

\* A content the gateway serves, right or wrong.
LEMMA ReadsAsFacts ==
    ASSUME IInv, NEW uri, NEW content, ReadsAs(uri, content)
    PROVE  /\ faults' \in 0..MaxFaults /\ faults' >= faults
           /\ misread' \in BOOLEAN /\ (misread => misread') /\ (~misread' => content = uri)
  <1>1. faults' \in 0..MaxFaults /\ faults' >= faults
    BY FaultsType DEF ReadsAs
  <1>2. misread' = (misread \/ content # uri) /\ misread \in BOOLEAN
    BY DEF ReadsAs, IInv, TypeOK
  <1>3. QED
    BY <1>1, <1>2

LEMMA StepReadOrg == ASSUME IInv, NEW t \in Threads, ReadOrg(t) PROVE IInv'
  <1>1. PICK content \in OrgMetas :
          /\ ReadsAs(work[t].uri, content)
          /\ client' = [client EXCEPT ![t] =
                [NoClient EXCEPT !.asked = work[t].asked, !.org = content]]
    BY DEF ReadOrg
  <1> DEFINE c == [NoClient EXCEPT !.asked = work[t].asked, !.org = content]
  <1>2. work[t].step = "readOrg" /\ work[t].asked \in Names
    BY DEF ReadOrg, IInv, TypeOK, Work
  <1>3. c \in Client /\ c.asked = work[t].asked /\ c.org = content /\ c.meta = None
    BY <1>2 DEF NoClient, Client
  <1>4. ~mislabelled' /\ ~misread' => Bytes32[OrgID[c.org]] = Bytes32[c.asked]
    BY <1>1, <1>2, <1>3, ReadsAsFacts, OwnClient DEF ThreadAsked, ReadOrg
  <1>5. /\ work' = [work EXCEPT ![t] = Idle] /\ client' = [client EXCEPT ![t] = c]
        /\ UNCHANGED <<registryVars, store>>
        /\ ops' \in 0..MaxOps /\ mislabelled' \in BOOLEAN /\ mislabelled' = mislabelled
    BY <1>1 DEF ReadOrg, IInv, TypeOK
  <1>6. c.asked # None
    BY <1>2, <1>3, RegistryAssumption
  <1> HIDE DEF c
  <1>7. QED
    BY <1>1, <1>3, <1>4, <1>5, <1>6, ReadsAsFacts, IdleWork, LocalStep

LEMMA StepOpenService == ASSUME IInv, NEW t \in Threads, OpenService(t) PROVE IInv'
  <1>1. PICK s \in Services :
          /\ services[OwnKey(t)][s] # None
          /\ Goes(t, [step |-> "readService", service |-> s, uri |-> services[OwnKey(t)][s]])
    BY DEF OpenService
  <1> DEFINE w == [step |-> "readService", service |-> s, uri |-> services[OwnKey(t)][s]]
  <1>2. client[t].org # None /\ services[OwnKey(t)][s] \in SrvURI
    BY <1>1, OwnClient DEF OpenService, IInv, TypeOK
  <1>3. w \in Work /\ w.step = "readService"
    BY <1>1, <1>2 DEF Work
  <1>4. /\ work' = [work EXCEPT ![t] = w] /\ UNCHANGED <<registryVars, store, client>>
        /\ ops' \in 0..MaxOps /\ faults' \in 0..MaxFaults
        /\ mislabelled' \in BOOLEAN /\ misread' \in BOOLEAN
        /\ mislabelled' = mislabelled /\ misread' = misread /\ faults' = faults
    BY <1>1 DEF OpenService, Goes, countVars, IInv, TypeOK
  <1> HIDE DEF w
  <1>5. faults' >= faults
    BY <1>4, FaultsType
  <1>6. QED
    BY <1>2, <1>3, <1>4, <1>5, OwnClient, LocalStep DEF ThreadShape, ThreadAsked

LEMMA StepReadService == ASSUME IInv, NEW t \in Threads, ReadService(t) PROVE IInv'
  <1>1. PICK content \in SrvMetas :
          /\ ReadsAs(work[t].uri, content)
          /\ client' = [client EXCEPT ![t].service = work[t].service, ![t].meta = content]
    BY DEF ReadService
  <1> DEFINE c == [client[t] EXCEPT !.service = work[t].service, !.meta = content]
  <1>2. work[t].step = "readService" /\ work[t].service \in Services
    BY DEF ReadService, IInv, TypeOK, Work
  <1>3. c \in Client /\ c.asked = client[t].asked /\ c.org = client[t].org
        /\ c.service = work[t].service
    BY <1>2, OwnClient DEF Client
  <1>4. /\ work' = [work EXCEPT ![t] = Idle] /\ client' = [client EXCEPT ![t] = c]
        /\ UNCHANGED <<registryVars, store>>
        /\ ops' \in 0..MaxOps /\ mislabelled' \in BOOLEAN /\ mislabelled' = mislabelled
    BY <1>1, OwnClient DEF ReadService, IInv, TypeOK
  <1>5. c.org # None /\ c.asked # None /\ c.service # None
    BY <1>2, <1>3, OwnClient, RegistryAssumption DEF ThreadShape
  <1>6. ~mislabelled' /\ ~misread' => Bytes32[OrgID[c.org]] = Bytes32[c.asked]
    BY <1>1, <1>3, <1>4, <1>5, ReadsAsFacts, OwnClient DEF ThreadAsked
  <1> HIDE DEF c
  <1>7. QED
    BY <1>1, <1>3, <1>4, <1>5, <1>6, ReadsAsFacts, IdleWork, LocalStep

LEMMA StepDies == ASSUME IInv, NEW t \in Threads, Dies(t) PROVE IInv'
  <1>1. /\ work' = [work EXCEPT ![t] = Idle] /\ client' = [client EXCEPT ![t] = NoClient]
        /\ UNCHANGED <<registryVars, store>>
        /\ ops' \in 0..MaxOps /\ faults' \in 0..MaxFaults
        /\ mislabelled' \in BOOLEAN /\ misread' \in BOOLEAN
        /\ mislabelled' = mislabelled /\ misread' = misread /\ faults' >= faults
    BY FaultsType DEF Dies, IInv, TypeOK
  <1>2. QED
    BY <1>1, IdleWork, NoClientType, LocalStep

-----------------------------------------------------------------------------
(* A block takes in a transaction. *)

\* What the Registry holds after an accepted transaction.
LEMMA ApplyFacts ==
    ASSUME IInv, NEW tx \in Tx, TxShape(tx), TxReadable(tx), Apply(tx)
    PROVE  /\ orgs' \in [Keys -> OrgURI]
           /\ services' \in [Keys -> [Services -> SrvURI]]
           /\ owned' \subseteq Keys
           /\ \A k \in Keys : Published(orgs'[k])
           /\ \A k \in Keys, s \in Services : Published(services'[k][s])
           /\ \A k \in Keys : orgs'[k] \in {orgs[k], None} \/ (k = tx.key /\ orgs'[k] = tx.uri)
  <1>1. /\ orgs \in [Keys -> OrgURI]
        /\ services \in [Keys -> [Services -> SrvURI]]
        /\ owned \subseteq Keys /\ tx.key \in Keys
        /\ \A k \in Keys : Published(orgs[k])
        /\ \A k \in Keys, s \in Services : Published(services[k][s])
    BY DEF IInv, TypeOK, PublishedReadable, Tx
  <1>2. owned' \subseteq Keys
    <2>1. owned' \in {owned, owned \cup {tx.key}, owned \ {tx.key}}
      BY DEF Apply
    <2>2. QED
      BY <1>1, <2>1
  <1>3. /\ orgs' \in [Keys -> OrgURI]
        /\ \A k \in Keys : Published(orgs'[k])
        /\ \A k \in Keys : orgs'[k] \in {orgs[k], None} \/ (k = tx.key /\ orgs'[k] = tx.uri)
    <2>1. PICK uri : /\ orgs' = orgs \/ orgs' = [orgs EXCEPT ![tx.key] = uri]
                     /\ uri = None \/ (uri = tx.uri /\ uri \in OrgURI)
      <3>1. CASE tx.kind \in {"createOrg", "changeMetadata"}
        BY <3>1 DEF Apply, TxShape
      <3>2. CASE tx.kind = "deleteOrg"
        BY <3>2 DEF Apply
      <3>3. CASE tx.kind \notin {"createOrg", "changeMetadata", "deleteOrg"}
        BY <3>3 DEF Apply
      <3>4. QED
        BY <3>1, <3>2, <3>3
    <2>2. uri \in OrgURI /\ Published(uri)
      BY <2>1 DEF TxReadable, OrgURI, Published
    <2>3. \A k \in Keys : orgs'[k] = orgs[k] \/ (k = tx.key /\ orgs'[k] = uri)
      BY <1>1, <2>1
    <2>4. orgs' \in [Keys -> OrgURI]
      BY <1>1, <2>1, <2>2
    <2>5. QED
      BY <1>1, <2>1, <2>2, <2>3, <2>4
  <1>4. /\ services' \in [Keys -> [Services -> SrvURI]]
        /\ \A k \in Keys, s \in Services : Published(services'[k][s])
    <2>1. CASE tx.kind \in {"createService", "updateService"}
      <3>1. services' = [services EXCEPT ![tx.key][tx.service] = tx.uri]
        BY <2>1 DEF Apply
      <3>2. tx.uri \in SrvURI /\ Published(tx.uri)
        BY <2>1 DEF TxShape, TxReadable
      <3>3. QED
        BY <1>1, <3>1, <3>2
    <2>2. CASE tx.kind = "deleteService"
      <3>1. services' = [services EXCEPT ![tx.key][tx.service] = None]
        BY <2>2 DEF Apply
      <3>2. None \in SrvURI /\ Published(None)
        BY DEF SrvURI, Published
      <3>3. QED
        BY <1>1, <3>1, <3>2
    <2>3. CASE tx.kind = "deleteOrg"
      <3>1. services' = [services EXCEPT ![tx.key] = [s \in Services |-> None]]
        BY <2>3 DEF Apply
      <3>2. None \in SrvURI /\ Published(None)
        BY DEF SrvURI, Published
      <3>3. QED
        BY <1>1, <3>1, <3>2
    <2>4. CASE tx.kind \notin {"createService", "updateService", "deleteService", "deleteOrg"}
      <3>1. services' = services
        BY <2>4 DEF Apply
      <3>2. QED
        BY <1>1, <3>1
    <2>5. QED
      BY <2>1, <2>2, <2>3, <2>4
  <1>5. QED
    BY <1>2, <1>3, <1>4

LEMMA StepMine == ASSUME IInv, Mine PROVE IInv'
  <1> USE DEF IInv
  <1> DEFINE tx == Head(mempool)
  <1>1. mempool \in Seq(Tx) /\ mempool # <<>>
    BY DEF Mine, TypeOK
  <1>2. /\ mempool' = Tail(mempool)
        /\ mempool' \in Seq(Tx)
        /\ \A i \in 1..Len(mempool') : i + 1 \in 1..Len(mempool)
                                      /\ mempool'[i] = mempool[i + 1]
    <2>1. mempool' = Tail(mempool)
      BY DEF Mine
    <2>2. /\ Tail(mempool) \in Seq(Tx) /\ Len(Tail(mempool)) = Len(mempool) - 1
          /\ \A i \in 1..Len(Tail(mempool)) : Tail(mempool)[i] = mempool[i + 1]
      BY <1>1, HeadTailProperties
    <2>3. QED
      BY <1>1, <2>1, <2>2
  <1>3. 1 \in 1..Len(mempool) /\ tx = mempool[1] /\ tx \in Tx
    BY <1>1
  <1>4. TxShape(tx) /\ TxReadable(tx) /\ (~mislabelled /\ ~misread => TxAsked(tx))
    BY <1>3 DEF Shape, MempoolShape, PublishedReadable, TxReadable, Asked
  <1>5. UNCHANGED <<store, client, work, countVars>>
        /\ (\A uri : Published(uri)' <=> Published(uri))
        /\ (Apply(tx) \/ UNCHANGED <<orgs, services, owned>>)
    BY DEF Mine, Published, countVars
  <1> HIDE DEF tx
  <1>6. /\ orgs' \in [Keys -> OrgURI]
        /\ services' \in [Keys -> [Services -> SrvURI]]
        /\ owned' \subseteq Keys
        /\ \A k \in Keys : Published(orgs'[k])
        /\ \A k \in Keys, s \in Services : Published(services'[k][s])
        /\ \A k \in Keys : orgs'[k] \in {orgs[k], None} \/ (k = tx.key /\ orgs'[k] = tx.uri)
    <2>1. CASE Apply(tx)
      BY <1>3, <1>4, <2>1, ApplyFacts
    <2>2. CASE UNCHANGED <<orgs, services, owned>>
      BY <2>2 DEF TypeOK, PublishedReadable
    <2>3. QED
      BY <1>5, <2>1, <2>2
  <1>7. TypeOK'
    BY <1>2, <1>5, <1>6 DEF TypeOK, countVars
  <1>8. Shape'
    BY <1>2, <1>5 DEF Shape, MempoolShape, ThreadShape, TxReadable
  <1>9. PublishedReadable'
    BY <1>2, <1>5, <1>6 DEF PublishedReadable
  <1>10. Asked'
    <2> SUFFICES ASSUME ~mislabelled, ~misread
                 PROVE  /\ \A k \in Keys : orgs'[k] \in OrgMetas => Bytes32[OrgID[orgs'[k]]] = k
                        /\ \A i \in 1..Len(mempool') : TxAsked(mempool'[i])
                        /\ \A t \in Threads : ThreadAsked(t)'
      BY <1>5 DEF Asked, countVars
    <2>1. \A k \in Keys : orgs'[k] \in OrgMetas => Bytes32[OrgID[orgs'[k]]] = k
      BY <1>4, <1>6, RegistryAssumption DEF Asked, TxAsked
    <2>2. \A i \in 1..Len(mempool') : TxAsked(mempool'[i])
      BY <1>2 DEF Asked
    <2>3. \A t \in Threads : ThreadAsked(t)'
      <3>1. client' = client /\ work' = work
        BY <1>5
      <3>2. \A t \in Threads : ThreadAsked(t)
        BY DEF Asked
      <3>3. QED
        BY ONLY <3>1, <3>2 DEF ThreadAsked, TxAsked
    <2>4. QED
      BY <2>1, <2>2, <2>3
  <1>11. QED
    BY <1>7, <1>8, <1>9, <1>10

-----------------------------------------------------------------------------
(* The theorems. *)

LEMMA Inductive == IInv /\ [Next]_vars => IInv'
  <1> SUFFICES ASSUME IInv, [Next]_vars PROVE IInv'
    OBVIOUS
  <1>1. CASE Mine
    BY <1>1, StepMine
  <1>2. ASSUME NEW t \in Threads,
               \/ CreateOrganization(t) \/ UpdateOrgMetadataFull(t) \/ ChangeOrg(t)
               \/ CreateService(t) \/ UpdateServiceMetadata(t) \/ DeleteService(t)
        PROVE  IInv'
    BY <1>2, StepCreateOrganization, StepUpdateOrgMetadataFull, StepChangeOrg,
       StepCreateService, StepUpdateServiceMetadata, StepDeleteService
  <1>3. ASSUME NEW t \in Threads,
               Upload(t) \/ UploadWithoutHash(t) \/ Submit(t) \/ Fails(t)
        PROVE  IInv'
    BY <1>3, StepUpload, StepUploadWithoutHash, StepSubmit, StepFails
  <1>4. ASSUME NEW t \in Threads,
               OpenOrg(t) \/ ReadOrg(t) \/ OpenService(t) \/ ReadService(t)
        PROVE  IInv'
    BY <1>4, StepOpenOrg, StepReadOrg, StepOpenService, StepReadService
  <1>5. ASSUME NEW t \in Threads, Crash(t) \/ NotRegistered(t) \/ WithoutOptions(t) PROVE IInv'
    BY <1>5, StepDies DEF Crash, NotRegistered, WithoutOptions
  <1>6. CASE UNCHANGED vars
    BY <1>6 DEF vars, registryVars, countVars, IInv, TypeOK, Shape, MempoolShape, ThreadShape,
       TxReadable, PublishedReadable, Published, Asked, ThreadAsked
  <1>7. QED
    BY <1>1, <1>2, <1>3, <1>4, <1>5, <1>6 DEF Next

LEMMA AlwaysIInv == Spec => []IInv
  BY InitIInv, Inductive, PTL DEF Spec

\* The variables have the types the publishing and discovering code gives
\* them; in particular the metadata registered for an organisation is never
\* that of a service.
THEOREM RegistryTypeCorrect == Spec => []TypeOK
  <1>1. IInv => TypeOK
    BY DEF IInv
  <1>2. QED
    BY <1>1, AlwaysIInv, PTL

\* However uploads, registrations, failures and crashes interleave, what the
\* Registry holds, or is about to hold, can be read from the storage, but for the
\* URI of an upload that was answered without a hash (ipfs.go:259-268).
THEOREM RegistryReadable == Spec => []PublishedReadable
  <1>1. IInv => PublishedReadable
    BY DEF IInv
  <1>2. QED
    BY <1>1, AlwaysIInv, PTL

\* A client changes the organisation it was asked for, as long as nobody
\* publishes metadata that names another and the gateway is right.
THEOREM RegistryAddressed == Spec => []ActsOnAsked
  <1>1. IInv => ActsOnAsked
    BY DEF IInv, Asked, TxAsked, ActsOnAsked
  <1>2. QED
    BY <1>1, AlwaysIInv, PTL
================================================================================
