------------------------------ MODULE HealthFrames ------------------------------
(***************************************************************************)
(* The answers of the health checks (pkg/sdk/heartbeat.go).  The body of a *)
(* gRPC-Web answer is a sequence of frames, each a message (a health       *)
(* status, or bytes that are none) or trailers, and the rest of a frame    *)
(* that was cut off in its header or in its payload.                       *)
(***************************************************************************)
EXTENDS Naturals, Sequences

Status  == {"UNKNOWN", "SERVING", "NOT_SERVING"}
Garbled == "garbled"
Frame   == [trailers : BOOLEAN, payload : Status \cup {Garbled}]
Rest    == {"none", "header", "payload"}

\* Wrong variant: the payload of trailers is taken for a message.
TakeAnyFrame(result, frame) ==
    CASE result = "error" -> result
      [] result # "error" -> IF frame.payload = Garbled THEN "error" ELSE frame.payload

\* The loop goes on over trailers and ends at a message it cannot decode.
TakeFrame(result, frame) ==
    CASE result = "error"                        -> result
      [] result # "error" /\ frame.trailers      -> result
      [] result # "error" /\ ~frame.trailers     ->
             IF frame.payload = Garbled THEN "error" ELSE frame.payload

\* The status after the first so many frames.
StatusAfter(frames) ==
    LET after[k \in 0..Len(frames)] ==
            IF k = 0 THEN "UNKNOWN" ELSE TakeFrame(after[k - 1], frames[k])
    IN  after

\* What WebGRPC may return.  The HTTP status is not looked at.  The header of
\* a cut frame is read beyond the end of the body: a panic where the buffer
\* ends there too, otherwise the loop stops as it does for a cut payload, and
\* the status so far is returned without an error.
WebGRPC(body) ==
    LET parsed == StatusAfter(body.frames)[Len(body.frames)] IN
    IF body.rest = "header" /\ parsed # "error" THEN {parsed, "panic"} ELSE {parsed}

\* Reference: the last message of the body, if all of them can be decoded.
Messages(body) == {i \in 1..Len(body.frames) : ~body.frames[i].trailers}
LastMessage(body) ==
    IF Messages(body) = {} THEN "UNKNOWN"
    ELSE body.frames[CHOOSE i \in Messages(body) : \A j \in Messages(body) : j <= i].payload
Decodable(body) == \A i \in Messages(body) : body.frames[i].payload # Garbled
================================================================================
