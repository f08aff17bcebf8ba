----------------------------- MODULE TrainingCalls -----------------------------
(***************************************************************************)
(* The calls of a TrainingClient (pkg/training/training.go): the upload of *)
(* a file in batches over a client stream, and the single requests, with   *)
(* their contexts, the block number each one signs, the file, which other  *)
(* programs may change, and the daemon at the other end.                   *)
(*                                                                         *)
(* Each call is a thread of its own.  What the strategy does in an upload  *)
(* is in PaidCalls and StrategySelect; here it succeeds or fails.  Time    *)
(* passes in ticks.  Sizes are counted in units, and the data of a batch   *)
(* is the part of the file it holds.                                       *)
(***************************************************************************)
EXTENDS Integers, Sequences

CONSTANTS Calls,         \* calls of the application, each made once
          Ops,           \* what they may be: see Operation
          Sizes,         \* sizes the file may have; 0: empty
          BatchSizes,    \* values of BatchSize in the request; 0: not given
          DefaultBatch,  \* the batch size used then (1 MiB)
          MaxRead,       \* the most one read of a file returns (1 GiB)
          Window,        \* messages gRPC accepts before the daemon reads one
          UnaryTimeout,  \* c.timeout, in ticks; 0: none
          StreamTimeout, \* c.streamTimeout, in ticks; 0: none
          MaxAge,        \* bound: ages are not told apart beyond this
          MaxChanges     \* bound: changes of the file by other programs

\* UploadAndValidate; requests that make their context before they read the
\* block (ValidateModel, TrainModel, their prices, DeleteModel); requests that
\* make it afterwards (CreateModel, UpdateModel, GetModel, GetAllModels);
\* requests without authorization (GetMetadata, GetMethodMetadata).
Operation == {"upload", "early", "late", "plain"}

ASSUME TrainingAssumption ==
    /\ Ops \subseteq Operation
    /\ {DefaultBatch, MaxRead, Window} \subseteq Nat \ {0}
    /\ {UnaryTimeout, StreamTimeout, MaxAge, MaxChanges} \subseteq Nat
    /\ Sizes \subseteq Nat
    /\ BatchSizes \subseteq Nat
    /\ MaxAge > UnaryTimeout /\ MaxAge > StreamTimeout

VARIABLES call,     \* the locals of each call
          wire,     \* messages sent and not yet read by the daemon
          service,  \* the daemon's handler of each call
          fileSize, \* size of the file
          changes   \* changes of the file so far

vars == <<call, wire, service, fileSize, changes>>

PC == {"idle", "refresh", "block", "open", "connect", "read", "send", "invoke",
       "recv", "done"}

Forever == 0 - 1  \* a context without a deadline

\* left: ticks to the deadline.  age: ticks since the signed block was read.
\* oldest: the age of the oldest signature sent.  touched: the file changed
\* after its size was read.  broken: a read of the file failed.
Call == [op : Operation, pc : PC, left : Nat \cup {Forever}, age : Nat, oldest : Nat,
         batch : Nat, size : Nat, count : Nat, number : Nat, pos : Nat, read : Nat,
         touched : BOOLEAN, broken : BOOLEAN, cancelled : BOOLEAN,
         result : {"none", "ok", "errored", "error"}]

NoCall == [op |-> "plain", pc |-> "idle", left |-> Forever, age |-> 0, oldest |-> 0,
           batch |-> 0, size |-> 0, count |-> 0, number |-> 1, pos |-> 0, read |-> 0,
           touched |-> FALSE, broken |-> FALSE, cancelled |-> FALSE, result |-> "none"]

\* A batch with its number and the part of the file it holds, or the end of
\* what the client sends.
Batch   == [number : Nat, from : Nat, to : Nat]
End     == [number |-> 0, from |-> 0, to |-> 0]

Init ==
    /\ call = [c \in Calls |-> NoCall]
    /\ wire = [c \in Calls |-> <<>>]
    /\ service = [c \in Calls |-> [state |-> "none", got |-> <<>>]]
    /\ fileSize \in Sizes
    /\ changes = 0

-----------------------------------------------------------------------------
Least(a, b) == IF a < b THEN a ELSE b

\* training.go withTimeout: none for a timeout that is not positive.
WithTimeout(d) == IF d <= 0 THEN Forever ELSE d

Expired(c) == call[c].left = 0

\* The daemon has answered, or the connection is gone.
Terminated(c) == service[c].state \in {"accepted", "errored", "failed"}

Set(c, new) == call' = [call EXCEPT ![c] = new]

\* Wrong variant: the context is not cancelled.
ReturnedOpen(k, result) == [k EXCEPT !.pc = "done", !.result = result]

\* A call returns; the deferred cancel does nothing without a deadline.
Returned(k, result) ==
    [k EXCEPT !.pc = "done", !.result = result, !.cancelled = k.left # Forever]

Errors(c) == Set(c, Returned(call[c], "error"))

-----------------------------------------------------------------------------
(* Single requests, and what an upload has in common with them.            *)

Begins(c, op, pc, left, batch) ==
    /\ call[c].pc = "idle" /\ op \in Ops
    /\ Set(c, [NoCall EXCEPT !.op = op, !.pc = pc, !.left = left, !.batch = batch])
    /\ UNCHANGED <<wire, service, fileSize, changes>>

\* The request is checked before anything else; a wrong one changes nothing.
BeginUpload(c) ==
    \E batch \in BatchSizes :
        Begins(c, "upload", "refresh", WithTimeout(StreamTimeout),
               IF batch = 0 THEN DefaultBatch ELSE batch)

\* These need the block number, with their deadline running or before it does.
BeginEarly(c) == Begins(c, "early", "block", WithTimeout(UnaryTimeout), 0)
BeginLate(c)  == Begins(c, "late", "block", Forever, 0)

\* These carry no authorization.
BeginPlain(c) == Begins(c, "plain", "invoke", WithTimeout(UnaryTimeout), 0)

Begin(c) == BeginUpload(c) \/ BeginEarly(c) \/ BeginLate(c) \/ BeginPlain(c)

\* newAuth and getSignature: the daemon takes a signature for the name of the
\* method while the block number in it is recent.
Signed(k) == [k EXCEPT !.age = 0]

\* currentBlockNumber, which has no context, then the signature.
ReadBlock(c) ==
    /\ call[c].pc = "block"
    /\ Set(c, [Signed(call[c]) EXCEPT
         !.left = IF call[c].op = "late" THEN WithTimeout(UnaryTimeout) ELSE @,
         !.pc = IF call[c].op = "upload" THEN "open" ELSE "invoke"])
    /\ UNCHANGED <<wire, service, fileSize, changes>>

\* What can fail and is returned as it is: the refresh, the block number, the
\* open and stat of the file or its being empty, the stream, the request.
Fails(c) ==
    /\ call[c].pc \in {"refresh", "block", "open", "connect", "invoke"}
    /\ Errors(c)
    /\ UNCHANGED <<wire, service, fileSize, changes>>

\* Wrong variant: the request is made without the call's context.
InvokeExpired(c) ==
    /\ call[c].pc = "invoke"
    /\ Set(c, [call[c] EXCEPT !.pc = "recv", !.oldest = call[c].age])
    /\ wire' = [wire EXCEPT ![c] = <<End>>]
    /\ service' = [service EXCEPT ![c].state = "serving"]
    /\ UNCHANGED <<fileSize, changes>>

\* The request is sent in one message.
Invoke(c) ==
    /\ call[c].pc = "invoke"
    /\ ~Expired(c)
    /\ Set(c, [call[c] EXCEPT !.pc = "recv", !.oldest = call[c].age])
    /\ wire' = [wire EXCEPT ![c] = <<End>>]
    /\ service' = [service EXCEPT ![c].state = "serving"]
    /\ UNCHANGED <<fileSize, changes>>

\* The answer.  A single request hands a status ERRORED on without an error;
\* an upload makes it one.
Receive(c) ==
    /\ call[c].pc = "recv"
    /\ Terminated(c)
    /\ LET state == service[c].state IN
       Set(c, Returned(call[c],
           CASE state = "accepted" -> "ok"
             [] state = "errored"  -> IF call[c].op = "upload" THEN "error" ELSE "errored"
             [] OTHER              -> "error"))
    /\ UNCHANGED <<wire, service, fileSize, changes>>

\* Wrong variant: the deadline is looked at only once there is an answer.
ReceiveExpiresAnswered(c) ==
    /\ call[c].pc = "recv"
    /\ Expired(c) /\ Terminated(c)
    /\ Errors(c)
    /\ UNCHANGED <<wire, service, fileSize, changes>>

\* The deadline passes, or the answer is lost with the connection.
ReceiveExpires(c) ==
    /\ call[c].pc = "recv"
    /\ Expired(c)
    /\ Errors(c)
    /\ UNCHANGED <<wire, service, fileSize, changes>>

ReceiveLost(c) ==
    /\ call[c].pc = "recv"
    /\ Errors(c)
    /\ UNCHANGED <<wire, service, fileSize, changes>>

-----------------------------------------------------------------------------
(* UploadAndValidate.                                                      *)

\* The strategy has been refreshed and has signed its payment.
Refreshed(c) ==
    /\ call[c].pc = "refresh"
    /\ Set(c, [call[c] EXCEPT !.pc = "block"])
    /\ UNCHANGED <<wire, service, fileSize, changes>>

\* Wrong variant: a last batch that is not full is not counted.
FullBatches(size, batch) == size \div batch

\* Batches of a file of this size.
BatchCount(size, batch) == size \div batch + (IF size % batch = 0 THEN 0 ELSE 1)

\* An empty file is an error: Fails.
OpenFile(c) ==
    /\ call[c].pc = "open"
    /\ fileSize > 0
    /\ Set(c, [call[c] EXCEPT !.pc = "connect", !.size = fileSize, !.touched = FALSE,
                              !.count = BatchCount(fileSize, call[c].batch)])
    /\ UNCHANGED <<wire, service, fileSize, changes>>

Connect(c) ==
    /\ call[c].pc = "connect"
    /\ ~Expired(c)
    /\ Set(c, [call[c] EXCEPT !.pc = "read"])
    /\ service' = [service EXCEPT ![c].state = "serving"]
    /\ UNCHANGED <<wire, fileSize, changes>>

\* As much as the buffer holds, unless the file ends or a read is shorter.
ReadFile(c) ==
    /\ call[c].pc = "read"
    /\ call[c].pos < fileSize
    /\ Set(c, [call[c] EXCEPT
         !.pc = "send",
         !.read = Least(Least(call[c].batch, MaxRead), fileSize - call[c].pos)])
    /\ UNCHANGED <<wire, service, fileSize, changes>>

\* CloseSend, alone or in CloseAndRecv: nothing on a stream that is over.
CloseSend(c) ==
    wire' = IF Terminated(c) \/ Expired(c) THEN wire
            ELSE [wire EXCEPT ![c] = Append(@, End)]

EndOfFile(c) ==
    /\ call[c].pc = "read"
    /\ call[c].pos >= fileSize
    /\ CloseSend(c)
    /\ Set(c, [call[c] EXCEPT !.pc = "recv"])
    /\ UNCHANGED <<service, fileSize, changes>>

\* Wrong variant: every error of the read is taken for the end of the file.
ReadFailsAsEnd(c) ==
    /\ call[c].pc = "read"
    /\ CloseSend(c)
    /\ Set(c, [call[c] EXCEPT !.pc = "recv", !.broken = TRUE])
    /\ UNCHANGED <<service, fileSize, changes>>

\* The stream is closed in the same way as after the last batch.
ReadFails(c) ==
    /\ call[c].pc = "read"
    /\ CloseSend(c)
    /\ Set(c, Returned([call[c] EXCEPT !.broken = TRUE], "error"))
    /\ UNCHANGED <<service, fileSize, changes>>

\* Send returns when gRPC has taken the message, which it does while the
\* daemon is not too far behind.
Send(c) ==
    LET k == call[c] IN
    /\ k.pc = "send"
    /\ ~Expired(c) /\ ~Terminated(c)
    /\ Len(wire[c]) < Window
    /\ wire' = [wire EXCEPT ![c] =
         Append(@, [number |-> k.number, from |-> k.pos, to |-> k.pos + k.read])]
    /\ Set(c, [k EXCEPT !.pc = "read", !.pos = k.pos + k.read, !.number = k.number + 1,
                        !.oldest = k.age])
    /\ UNCHANGED <<service, fileSize, changes>>

SendFails(c) ==
    /\ call[c].pc = "send"
    /\ Expired(c) \/ Terminated(c)
    /\ CloseSend(c)
    /\ Errors(c)
    /\ UNCHANGED <<service, fileSize, changes>>

-----------------------------------------------------------------------------
(* The daemon.  It answers an upload with success only after the stream    *)
(* has ended, and may not notice in time that a call was given up.         *)

Take(c) ==
    /\ service[c].state = "serving"
    /\ wire[c] # <<>>
    /\ LET m == Head(wire[c]) IN
       service' = [service EXCEPT
         ![c].state = IF m = End THEN "ended" ELSE @,
         ![c].got = IF m = End THEN @ ELSE Append(@, m)]
    /\ wire' = [wire EXCEPT ![c] = Tail(@)]
    /\ UNCHANGED <<call, fileSize, changes>>

Ends(c, states, state) ==
    /\ service[c].state \in states
    /\ service' = [service EXCEPT ![c].state = state]
    /\ wire' = [wire EXCEPT ![c] = <<>>]
    /\ UNCHANGED <<call, fileSize, changes>>

Accept(c) == Ends(c, {"ended"}, "accepted")
Refuse(c) == Ends(c, {"serving", "ended"}, "errored")

\* The handler fails, the connection breaks, or the daemon sees the call
\* cancelled or its deadline pass.
Break(c)  == Ends(c, {"serving", "ended"}, "failed")

-----------------------------------------------------------------------------
(* Other programs and the clock.                                           *)

ChangeFile ==
    /\ changes < MaxChanges
    /\ \E size \in Sizes \ {fileSize} : fileSize' = size
    /\ call' = [c \in Calls |-> [call[c] EXCEPT
         !.touched = @ \/ call[c].pc \in {"connect", "read", "send"}]]
    /\ changes' = changes + 1
    /\ UNCHANGED <<wire, service>>

Active(c) == call[c].pc \notin {"idle", "done"}

Tick ==
    /\ \E c \in Calls : Active(c)
    /\ call' = [c \in Calls |->
         IF Active(c)
         THEN [call[c] EXCEPT !.left = IF @ > 0 THEN @ - 1 ELSE @,
                              !.age = Least(@ + 1, MaxAge)]
         ELSE call[c]]
    /\ UNCHANGED <<wire, service, fileSize, changes>>

Step(c) ==
    \/ ReadBlock(c) \/ Fails(c) \/ Invoke(c)
    \/ Receive(c) \/ ReceiveExpires(c) \/ ReceiveLost(c)
    \/ Refreshed(c) \/ OpenFile(c) \/ Connect(c)
    \/ ReadFile(c) \/ EndOfFile(c) \/ ReadFails(c) \/ Send(c) \/ SendFails(c)

Daemon(c) == Take(c) \/ Accept(c) \/ Refuse(c) \/ Break(c)

Next == (\E c \in Calls : Begin(c) \/ Step(c) \/ Daemon(c)) \/ ChangeFile \/ Tick

Spec == Init /\ [][Next]_vars

\* Goroutines run and the clock advances.  The node that is asked for the
\* block need not answer, and neither need the daemon; ReceiveLost is an
\* outage, which need not come.
Runs(c) ==
    \/ Invoke(c) \/ Receive(c) \/ ReceiveExpires(c) \/ OpenFile(c) \/ Connect(c)
    \/ ReadFile(c) \/ EndOfFile(c) \/ Send(c) \/ SendFails(c)
    \/ (call[c].pc \in {"refresh", "open", "connect", "invoke"} /\ Fails(c))

FairSpec == Spec /\ WF_vars(Tick) /\ \A c \in Calls : WF_vars(Runs(c))

-----------------------------------------------------------------------------
(* Properties.                                                             *)

\* The batches a daemon has are numbered from one without a gap and lie one
\* behind the other in the file, from its beginning.
InOrder(got) ==
    \A i \in 1..Len(got) :
        /\ got[i].number = i
        /\ got[i].from = IF i = 1 THEN 0 ELSE got[i - 1].to

\* How much of the file the daemon has.
Extent(c) ==
    LET got == service[c].got IN IF got = <<>> THEN 0 ELSE got[Len(got)].to

\* The daemon has the file as it was announced: its size, in as many batches.
Whole(c) == Len(service[c].got) = call[c].count /\ Extent(c) = call[c].size

\* The client could have announced something else than it read.
Misannounced(c) == call[c].touched \/ call[c].batch > MaxRead

\* UploadAndValidate returns nil only if the daemon has accepted everything the
\* client read, in order; that is the whole file in the announced number of
\* batches, unless the file was changed meanwhile or one batch takes several
\* reads.
UploadComplete ==
    \A c \in Calls :
        call[c].op = "upload" /\ call[c].result = "ok" =>
            /\ service[c].state = "accepted"
            /\ InOrder(service[c].got)
            /\ Extent(c) = call[c].pos
            /\ Whole(c) \/ Misannounced(c)

\* Whether or not the client learns of it, the daemon takes an upload for
\* finished only if it has the whole file, unless a read failed: the stream is
\* then closed as if the file had ended.  No daemon that compares the batches
\* with their announced number is left waiting or gets too many.
AcceptedWhole ==
    \A c \in Calls :
        call[c].op = "upload" =>
            /\ service[c].state \in {"ended", "accepted"} =>
                 Whole(c) \/ Misannounced(c) \/ call[c].broken
            /\ Len(service[c].got) <= call[c].count \/ Misannounced(c)

\* No request or batch leaves the client with a signature for a block that was
\* read longer ago than the timeout of the call, however long the node took to
\* answer and the daemon to read.
SignatureFresh ==
    \A c \in Calls :
        call[c].oldest <= IF call[c].op = "upload" THEN StreamTimeout ELSE UnaryTimeout

\* A call that has returned has no stream that is still open: it was answered,
\* or cancelled.
NoStreamLeft ==
    \A c \in Calls :
        call[c].pc = "done" =>
            service[c].state = "none" \/ Terminated(c) \/ call[c].cancelled

\* Once it has the block number a call returns, even if the daemon reads nothing
\* and never answers.
ReturnsOnceSigned ==
    \A c \in Calls :
        call[c].pc \in {"open", "connect", "read", "send", "invoke", "recv"}
            ~> call[c].pc = "done"
================================================================================
