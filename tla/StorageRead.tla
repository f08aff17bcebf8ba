------------------------------ MODULE StorageRead ------------------------------
(***************************************************************************)
(* What a read from the storage networks gives (pkg/storage), as a         *)
(* function of the content asked for and of what the gateway answers.      *)
(* The gateways are external.                                              *)
(***************************************************************************)

CONSTANT Nothing    \* no bytes

\* What a gateway can answer: no answer at all; a status that reports an
\* error; a body that breaks off, which closing the response reports or not;
\* a whole body whose response does not close; a whole body.
Answer == {"refused", "status", "broken", "cut", "unclosed", "body"}

\* A URI: its scheme, and whether what formatHash leaves of it is a CID.
Scheme == {"ipfs", "filecoin", "none"}
URI    == [scheme : Scheme, cid : BOOLEAN]

Reading(content, err) == [content |-> content, err |-> err]
NotRead == Reading(Nothing, TRUE)

\* GetLighthouseFileCtx.  A status other than 200 is an error; the error of
\* the close is dropped.
GetLighthouseFile(content, answer) ==
    IF answer \in {"unclosed", "body"} THEN Reading(content, FALSE) ELSE NotRead

\* Fetch of ipfsFetcher.  What the deferred Close returns replaces the error of
\* the function: an error in the answer (whose Close succeeds) or a body that
\* breaks off gives no content and, for all the caller can see, no error.  The
\* check of the content compares the CID with itself and only logs.
Fetch(uri, content, answer) ==
    CASE ~uri.cid \/ answer \in {"refused", "broken"} -> NotRead
      [] uri.cid /\ answer \in {"status", "cut"} -> Reading(Nothing, FALSE)
      [] uri.cid /\ answer = "unclosed"          -> Reading(content, TRUE)
      [] uri.cid /\ answer = "body"              -> Reading(content, FALSE)

\* Lighthouse serves what has the prefix filecoin://, IPFS everything else.
ReadFile(uri, content, answer) ==
    IF uri.scheme = "filecoin" THEN GetLighthouseFile(content, answer)
                               ELSE Fetch(uri, content, answer)
================================================================================
