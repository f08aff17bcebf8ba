-------------------------- MODULE TrainingCallsProofs --------------------------
(***************************************************************************)
(* Proofs about TrainingCalls, for any number of calls, sizes of the file  *)
(* and of batches, lengths of a read, windows and deadlines.               *)
(***************************************************************************)
EXTENDS TrainingCalls, SequenceTheorems, TLAPS

-----------------------------------------------------------------------------
(* The inductive invariant, about the locals k of a call, its handler s,   *)
(* the messages w on their way, and the size f of the file.                *)

Message == [number : Nat, from : Nat, to : Nat]
Handler == [state : {"none", "serving", "ended", "accepted", "errored", "failed"},
            got : Seq(Message)]

TypeOK ==
    /\ call \in [Calls -> Call]
    /\ wire \in [Calls -> Seq(Message)]
    /\ service \in [Calls -> Handler]
    /\ fileSize \in Nat

\* What a program counter says about the other fields, and what becomes of a
\* stream that was never opened.
Places(k, s, w) ==
    /\ k.pc \in {"idle", "refresh", "block", "open", "connect", "invoke"} => s.state = "none"
    /\ k.pc \in {"read", "send", "recv"} => s.state # "none"
    /\ s.state = "none" => s.got = <<>> /\ w = <<>> /\ k.number = 1 /\ k.pos = 0
    /\ k.pc \in {"refresh", "open", "connect", "read", "send"} => k.op = "upload"
    /\ k.pc \in {"idle", "invoke"} => k.op # "upload"
    /\ k.result # "none" <=> k.pc = "done"
    /\ k.broken => k.result = "error"
    /\ k.result = "ok" => s.state = "accepted"
    /\ k.number > 0

\* The client has closed the stream and the daemon has not met with an error.
Closed(state, w) == state \in {"ended", "accepted"} \/ (w # <<>> /\ w[Len(w)] = End)

\* The i-th message of an open stream.
Sent(got, w, i) == IF i <= Len(got) THEN got[i] ELSE w[i - Len(got)]

\* It is batch i, right behind the one before.
Follows(got, w, i) ==
    /\ Sent(got, w, i).number = i
    /\ Sent(got, w, i).from = IF i = 1 THEN 0 ELSE Sent(got, w, i - 1).to

\* The batches, some at the daemon and some on their way, are all the client has
\* made: they are in order and reach as far as the client has read.
Stream(k, state, got, w) ==
    /\ state = "serving" =>
         /\ Len(got) + Len(w) = IF Closed(state, w) THEN k.number ELSE k.number - 1
         /\ \A i \in 1..(k.number - 1) : Follows(got, w, i)
         /\ k.pos = IF k.number = 1 THEN 0 ELSE Sent(got, w, k.number - 1).to
         /\ k.pc \in {"read", "send"} => ~Closed(state, w)
    /\ state # "serving" => w = <<>> /\ InOrder(got) /\ Len(got) < k.number
    /\ state \in {"ended", "accepted"} =>
         /\ Len(got) = k.number - 1
         /\ k.pos = IF k.number = 1 THEN 0 ELSE got[k.number - 1].to
         /\ k.pc \in {"recv", "done"}

\* The batches lie where their number says, and there are as many as announced
\* when the client is at the end of the file.
Progress(k, f) ==
    /\ k.pc \in {"connect", "read", "send"} => f = k.size
    /\ k.pos <= k.size
    /\ k.pos < k.size => k.pos = (k.number - 1) * k.batch /\ k.number - 1 < k.count
    /\ k.pos = k.size => k.number - 1 = k.count
    /\ k.pc = "send" => k.pos < k.size /\ k.read = Least(k.batch, k.size - k.pos)

Sizing(k, state, w, f) ==
    /\ k.pc # "idle" => k.batch > 0
    /\ k.pc \in {"refresh", "block", "open"} => k.size = 0 /\ k.count = 0
    /\ k.pc \in {"connect", "read", "send", "recv"} =>
         k.size > 0 /\ k.count = BatchCount(k.size, k.batch)
    /\ ~k.touched /\ k.batch <= MaxRead =>
         /\ Progress(k, f)
         /\ Closed(state, w) /\ ~k.broken => k.pos = k.size

Upload(k, s, w, f) ==
    k.op = "upload" => Stream(k, s.state, s.got, w) /\ Sizing(k, s.state, w, f)

\* A deadline runs out at least as fast as a signature ages.
Timeout(k) == IF k.op = "upload" THEN StreamTimeout ELSE UnaryTimeout

\* What NewSDK makes of timeouts that are absent (sdk/sdk.go, WithDefaults).
Deadlined ==
    UnaryTimeout > 0 /\ StreamTimeout > 0

Clock(k, s) ==
    /\ k.oldest <= Timeout(k)
    /\ k.pc \in {"refresh", "block", "open", "connect", "read", "send", "invoke", "recv"} =>
         /\ k.left <= Timeout(k)
         /\ (k.pc = "block" /\ k.op = "late") \/ k.left # Forever
    /\ k.pc \in {"open", "connect", "read", "send", "invoke"} =>
         k.left = 0 \/ k.age + k.left <= Timeout(k)
    /\ k.pc = "done" => s.state = "none" \/ k.cancelled

CallInv(k, s, w, f) == Places(k, s, w) /\ Upload(k, s, w, f) /\ (Deadlined => Clock(k, s))

IInv == TypeOK /\ \A c \in Calls : CallInv(call[c], service[c], wire[c], fileSize)

-----------------------------------------------------------------------------
(* The batches of a file. *)

\* Quotient and remainder.
LEMMA Division ==
    ASSUME NEW a \in Nat, NEW b \in Nat \ {0}
    PROVE  /\ a \div b \in Nat /\ a % b \in Nat
           /\ a = b * (a \div b) + (a % b) /\ (a % b) < b
  OBVIOUS

\* n full batches that end before the file does are not all of its batches.
LEMMA MoreBatches ==
    ASSUME NEW size \in Nat, NEW batch \in Nat \ {0}, NEW n \in Nat, n * batch < size
    PROVE  BatchCount(size, batch) \in Nat /\ n < BatchCount(size, batch)
  <1> DEFINE q == size \div batch
             r == size % batch
  <1>1. q \in Nat /\ r \in Nat /\ size = batch * q + r /\ r < batch
    BY Division
  <1>2. BatchCount(size, batch) = q + (IF r = 0 THEN 0 ELSE 1)
    BY DEF BatchCount
  <1> HIDE DEF q, r
  <1>3. ASSUME n >= q + 1 PROVE FALSE
    <2>1. n * batch >= (q + 1) * batch
      BY <1>1, <1>3
    <2>2. QED BY <1>1, <2>1
  <1>4. ASSUME r = 0, n >= q PROVE FALSE
    <2>1. n * batch >= q * batch
      BY <1>1, <1>4
    <2>2. QED BY <1>1, <1>4, <2>1
  <1>5. QED BY <1>1, <1>2, <1>3, <1>4

\* The batch that reaches the end of the file is the last of its batches.
LEMMA LastBatch ==
    ASSUME NEW size \in Nat, NEW batch \in Nat \ {0}, NEW n \in Nat,
           n * batch < size, (n + 1) * batch >= size
    PROVE  n + 1 = BatchCount(size, batch)
  <1> DEFINE q == size \div batch
             r == size % batch
             m == n + 1
  <1>1. q \in Nat /\ r \in Nat /\ size = batch * q + r /\ r < batch
    BY Division
  <1>2. BatchCount(size, batch) = q + (IF r = 0 THEN 0 ELSE 1)
    BY DEF BatchCount
  <1>3. n < BatchCount(size, batch)
    BY MoreBatches
  <1>4. m \in Nat /\ m * batch >= size /\ m = n + 1
    OBVIOUS
  <1> HIDE DEF q, r, m
  <1>5. ASSUME m <= q - 1 PROVE FALSE
    <2>1. m * batch <= (q - 1) * batch
      BY <1>1, <1>4, <1>5
    <2>2. QED BY <1>1, <1>4, <2>1
  <1>6. ASSUME r > 0, m <= q PROVE FALSE
    <2>1. m * batch <= q * batch
      BY <1>1, <1>4, <1>6
    <2>2. QED BY <1>1, <1>4, <1>6, <2>1
  <1>7. QED BY <1>1, <1>2, <1>3, <1>4, <1>5, <1>6

-----------------------------------------------------------------------------
(* A stream, step by step. *)

\* Types of the fields that count.
LEMMA CallTypes ==
    ASSUME NEW k \in Call
    PROVE  /\ {k.age, k.oldest, k.batch, k.size, k.count, k.number, k.pos, k.read} \subseteq Nat
           /\ k.left \in Nat \cup {Forever}
  BY DEF Call

LEMMA HandlerTypes ==
    ASSUME NEW s \in Handler
    PROVE  /\ s.state \in {"none", "serving", "ended", "accepted", "errored", "failed"}
           /\ s.got \in Seq(Message) /\ Len(s.got) \in Nat
  BY DEF Handler

\* What the client does between two messages leaves the stream as it is.
LEMMA StreamKept ==
    ASSUME NEW k \in Call, NEW state, NEW got \in Seq(Message), NEW w \in Seq(Message), Stream(k, state, got, w),
           NEW kk \in Call, kk.number = k.number, kk.pos = k.pos,
           kk.pc \in {"read", "send"} => k.pc \in {"read", "send"},
           k.pc \in {"recv", "done"} => kk.pc \in {"recv", "done"}
    PROVE  Stream(kk, state, got, w)
  BY DEF Stream

\* A message behind the others leaves them where they are.
LEMMA SentBefore ==
    ASSUME NEW got \in Seq(Message), NEW w \in Seq(Message), NEW ww \in Seq(Message),
           \A i \in 1..Len(w) : ww[i] = w[i],
           NEW n \in Int, Len(got) + Len(w) = n
    PROVE  \A i \in 1..n : Sent(got, ww, i) = Sent(got, w, i)
  <1> SUFFICES ASSUME NEW i \in 1..n PROVE Sent(got, ww, i) = Sent(got, w, i)
    OBVIOUS
  <1>1. Len(got) \in Nat /\ Len(w) \in Nat
    OBVIOUS
  <1>2. CASE i <= Len(got)
    BY <1>2 DEF Sent
  <1>3. CASE ~(i <= Len(got))
    <2>1. i - Len(got) \in 1..Len(w)
      BY <1>1, <1>3
    <2>2. QED BY <1>3, <2>1 DEF Sent
  <1>4. QED BY <1>2, <1>3

\* A batch that is on its way is not the end of the stream.
LEMMA BatchNotEnd ==
    ASSUME NEW k \in Call, NEW state, NEW got \in Seq(Message), NEW w \in Seq(Message), Stream(k, state, got, w),
           state = "serving", w # <<>>, Len(got) + 1 < k.number
    PROVE  w[1] # End
  <1>1. Len(got) \in Nat /\ k.number \in Nat
    BY CallTypes
  <1>2. Follows(got, w, Len(got) + 1)
    BY <1>1 DEF Stream
  <1>3. w[1].number = Len(got) + 1
    BY <1>1, <1>2 DEF Follows, Sent
  <1>4. QED BY <1>1, <1>3 DEF End

\* On an open stream the messages behind the batches are the end and no more.
LEMMA StreamLengths ==
    ASSUME NEW k \in Call, NEW state, NEW got \in Seq(Message), NEW w \in Seq(Message), Stream(k, state, got, w),
           state = "serving", w # <<>>
    PROVE  w[1] = End <=> Len(got) + 1 = k.number /\ Len(w) = 1
  <1>1. Len(got) \in Nat /\ k.number \in Nat /\ Len(w) \in Nat
        /\ Len(w) > 0
    BY CallTypes
  <1>2. Len(got) + Len(w) = IF Closed(state, w) THEN k.number ELSE k.number - 1
    BY DEF Stream
  <1>3. CASE w[1] = End
    <2>1. ~(Len(got) + 1 < k.number)
      BY <1>3, BatchNotEnd, Zenon
    <2>2. CASE Closed(state, w)
      <3>1. Len(got) + Len(w) = k.number
        BY <1>2, <2>2
      <3>2. \A a, b, n \in Nat : ~(a + 1 < n) /\ a + b = n /\ b > 0 => a + 1 = n /\ b = 1
        OBVIOUS
      <3>3. Len(got) + 1 = k.number /\ Len(w) = 1
        BY <1>1, <2>1, <3>1, <3>2, Zenon
      <3>4. QED BY <1>3, <3>3
    <2>3. CASE ~Closed(state, w)
      BY <1>1, <1>2, <2>1, <2>3
    <2>4. QED BY <2>2, <2>3
  <1>4. CASE Len(got) + 1 = k.number /\ Len(w) = 1
    <2>1. Closed(state, w)
      BY <1>1, <1>2, <1>4
    <2>2. QED BY <1>1, <1>4, <2>1 DEF Closed
  <1>5. QED BY <1>3, <1>4

\* The client sends the next batch.
LEMMA StreamSends ==
    ASSUME NEW k \in Call, NEW state, NEW got \in Seq(Message), NEW w \in Seq(Message),
           Stream(k, state, got, w), state = "serving", k.pc \in {"read", "send"}, k.number > 0,
           NEW m \in Message, m.number = k.number, m.from = k.pos,
           NEW kk \in Call, kk.number = k.number + 1, kk.pos = m.to
    PROVE  Stream(kk, state, got, Append(w, m))
  <1> DEFINE ww == Append(w, m)
  <1>1. Len(got) \in Nat /\ k.number \in Nat /\ Len(w) \in Nat
    BY CallTypes
  <1>2. ww \in Seq(Message) /\ Len(ww) = Len(w) + 1 /\ ww[Len(w) + 1] = m
        /\ \A i \in 1..Len(w) : ww[i] = w[i]
    OBVIOUS
  <1> HIDE DEF ww
  <1>3. ~Closed(state, w) /\ Len(got) + Len(w) = k.number - 1
    BY DEF Stream
  <1>4. ~Closed(state, ww)
    BY <1>1, <1>2 DEF Closed, End
  <1>5. \A i \in 1..(k.number - 1) : Sent(got, ww, i) = Sent(got, w, i)
    BY <1>1, <1>2, <1>3, SentBefore
  <1>6. Sent(got, ww, k.number) = m
    BY <1>1, <1>2, <1>3 DEF Sent
  <1>7. \A i \in 1..k.number : Follows(got, ww, i)
    <2> SUFFICES ASSUME NEW i \in 1..k.number PROVE Follows(got, ww, i)
      OBVIOUS
    <2>1. CASE i < k.number
      <3>1. Follows(got, w, i)
        BY <1>1, <2>1 DEF Stream
      <3>2. Sent(got, ww, i) = Sent(got, w, i)
        BY <1>1, <1>5, <2>1
      <3>3. i # 1 => Sent(got, ww, i - 1) = Sent(got, w, i - 1)
        BY <1>1, <1>5, <2>1
      <3>4. QED BY <3>1, <3>2, <3>3 DEF Follows
    <2>2. CASE i = k.number
      <3>1. m.from = IF i = 1 THEN 0 ELSE Sent(got, w, i - 1).to
        BY <2>2 DEF Stream
      <3>2. i # 1 => Sent(got, ww, i - 1) = Sent(got, w, i - 1)
        BY <1>1, <1>5, <2>2
      <3>3. QED BY <1>6, <2>2, <3>1, <3>2 DEF Follows
    <2>3. QED BY <1>1, <2>1, <2>2
  <1>8. kk.number - 1 = k.number /\ kk.number # 1
    BY <1>1
  <1>9. kk.pos = Sent(got, ww, kk.number - 1).to
    BY <1>6, <1>8
  <1>10. Len(got) + Len(ww) = kk.number - 1
    BY <1>1, <1>2, <1>3
  <1>11. Stream(kk, state, got, ww)
    BY <1>4, <1>7, <1>8, <1>9, <1>10 DEF Stream
  <1>12. QED BY <1>11 DEF ww

\* The client closes the stream.
LEMMA StreamCloses ==
    ASSUME NEW k \in Call, NEW state, NEW got \in Seq(Message), NEW w \in Seq(Message),
           Stream(k, state, got, w), state = "serving", k.pc \in {"read", "send"}, k.number > 0,
           NEW kk \in Call, kk.number = k.number, kk.pos = k.pos, kk.pc \in {"recv", "done"}
    PROVE  Stream(kk, state, got, Append(w, End)) /\ Closed(state, Append(w, End))
  <1> DEFINE ww == Append(w, End)
  <1>1. Len(got) \in Nat /\ k.number \in Nat /\ Len(w) \in Nat
        /\ End \in Message
    BY CallTypes DEF Message, End
  <1>2. ww \in Seq(Message) /\ Len(ww) = Len(w) + 1 /\ ww[Len(w) + 1] = End
        /\ \A i \in 1..Len(w) : ww[i] = w[i]
    BY <1>1
  <1> HIDE DEF ww
  <1>3. Len(got) + Len(w) = k.number - 1
    BY DEF Stream
  <1>4. Closed(state, ww)
    BY <1>1, <1>2 DEF Closed
  <1>5. \A i \in 1..(k.number - 1) : Sent(got, ww, i) = Sent(got, w, i)
    BY <1>1, <1>2, <1>3, SentBefore
  <1>6. \A i \in 1..(k.number - 1) : Follows(got, ww, i)
    BY <1>1, <1>5 DEF Stream, Follows
  <1>7. kk.pos = IF k.number = 1 THEN 0 ELSE Sent(got, ww, k.number - 1).to
    BY <1>1, <1>5 DEF Stream
  <1>8. Len(got) + Len(ww) = kk.number
    <2>1. Len(ww) = Len(w) + 1
      BY <1>2
    <2>2. QED BY <1>1, <1>3, <2>1
  <1>9. Stream(kk, state, got, ww)
    BY <1>4, <1>6, <1>7, <1>8 DEF Stream
  <1>10. QED BY <1>4, <1>9 DEF ww

\* A handler that is not serving, before or after, has nothing on its way.
LEMMA StreamOver ==
    ASSUME NEW k \in Call, NEW state, NEW got \in Seq(Message), NEW w \in Seq(Message),
           Stream(k, state, got, w), k.number > 0,
           NEW next \in {"accepted", "errored", "failed"},
           state \in {"serving", "ended"}, next = "accepted" => state = "ended"
    PROVE  Stream(k, next, got, <<>>)
  <1>1. Len(got) \in Nat /\ Len(w) \in Nat /\ k.number \in Nat
    BY CallTypes
  <1>2. CASE state = "ended"
    BY <1>2 DEF Stream
  <1>3. CASE state = "serving"
    <2>1. Len(got) + Len(w) = IF Closed(state, w) THEN k.number ELSE k.number - 1
      BY <1>3 DEF Stream
    <2>2. Closed(state, w) => Len(w) > 0
      BY <1>1, <1>3 DEF Closed
    <2>3. Len(got) < k.number
      <3>1. CASE Closed(state, w)
        BY <1>1, <2>1, <2>2, <3>1
      <3>2. CASE ~Closed(state, w)
        BY <1>1, <2>1, <3>2
      <3>3. QED BY <3>1, <3>2
    <2>4. \A i \in 1..Len(got) : Sent(got, w, i) = got[i]
      BY <1>1 DEF Sent
    <2>5. \A i \in 1..Len(got) : Follows(got, w, i)
      BY <1>1, <1>3, <2>3 DEF Stream
    <2>6. InOrder(got)
      <3> SUFFICES ASSUME NEW i \in 1..Len(got)
                   PROVE  /\ got[i].number = i
                          /\ got[i].from = IF i = 1 THEN 0 ELSE got[i - 1].to
        BY DEF InOrder
      <3>1. i # 1 => Sent(got, w, i - 1) = got[i - 1]
        BY <1>1, <2>4
      <3>2. QED BY <2>4, <2>5, <3>1 DEF Follows
    <2>7. QED BY <1>3, <2>3, <2>6 DEF Stream
  <1>4. QED BY <1>2, <1>3

\* The daemon takes a batch off the wire.
LEMMA StreamTakes ==
    ASSUME NEW k \in Call, NEW got \in Seq(Message), NEW w \in Seq(Message),
           Stream(k, "serving", got, w), w # <<>>, w[1] # End, k.number > 0
    PROVE  /\ Stream(k, "serving", Append(got, w[1]), Tail(w))
           /\ Closed("serving", Tail(w)) => Closed("serving", w)
  <1> DEFINE m == w[1]
             g == Append(got, m)
             t == Tail(w)
  <1>1. /\ Len(got) \in Nat /\ Len(w) \in Nat /\ Len(w) > 0 /\ k.number \in Nat
        /\ m \in Message
    BY CallTypes
  <1>2. /\ g \in Seq(Message) /\ Len(g) = Len(got) + 1 /\ g[Len(got) + 1] = m
        /\ \A i \in 1..Len(got) : g[i] = got[i]
    BY <1>1
  <1>3. /\ t \in Seq(Message) /\ Len(t) = Len(w) - 1
        /\ \A i \in 1..Len(t) : t[i] = w[i + 1]
    BY <1>1, HeadTailProperties
  <1>4. m = w[1] /\ m # End
    OBVIOUS
  <1> HIDE DEF m, g, t
  <1>5. Closed("serving", t) <=> Closed("serving", w)
    <2>1. CASE Len(w) = 1
      <3>1. t = <<>>
        BY <1>3, <2>1, EmptySeq
      <3>2. QED BY <1>4, <2>1, <3>1 DEF Closed
    <2>2. CASE Len(w) > 1
      <3>1. t[Len(t)] = w[Len(w)]
        BY <1>1, <1>3, <2>2
      <3>2. t # <<>>
        BY <1>1, <1>3, <2>2
      <3>3. QED BY <3>1, <3>2, Zenon DEF Closed
    <2>3. Len(w) = 1 \/ Len(w) > 1
      <3>1. \A n \in Nat : n > 0 => n = 1 \/ n > 1
        OBVIOUS
      <3>2. QED BY <1>1, <3>1, Zenon
    <2>4. QED BY <2>1, <2>2, <2>3, Zenon
  <1>6. Len(g) + Len(t) = Len(got) + Len(w)
    BY <1>1, <1>2, <1>3
  <1>7. ASSUME NEW i \in 1..(Len(got) + Len(w)) PROVE Sent(g, t, i) = Sent(got, w, i)
    <2>1. CASE i <= Len(got)
      BY <1>1, <1>2, <2>1 DEF Sent
    <2>2. CASE i = Len(got) + 1
      BY <1>1, <1>2, <1>4, <2>2 DEF Sent
    <2>3. CASE i > Len(got) + 1
      <3>1. t[i - (Len(got) + 1)] = w[i - (Len(got) + 1) + 1]
        BY <1>1, <1>3, <2>3
      <3>2. i - (Len(got) + 1) + 1 = i - Len(got)
        BY <1>1
      <3>3. QED BY <1>1, <1>2, <2>3, <3>1, <3>2 DEF Sent
    <2>4. QED BY <1>1, <2>1, <2>2, <2>3
  <1>8. Len(got) + Len(w) = IF Closed("serving", w) THEN k.number ELSE k.number - 1
    BY DEF Stream
  <1>9. k.number - 1 <= Len(got) + Len(w)
    <2>1. CASE Closed("serving", w)
      BY <1>1, <1>8, <2>1
    <2>2. CASE ~Closed("serving", w)
      BY <1>1, <1>8, <2>2
    <2>3. QED BY <2>1, <2>2
  <1>10. \A i \in 1..(k.number - 1) : Sent(g, t, i) = Sent(got, w, i)
    BY <1>1, <1>7, <1>9
  <1>11. ASSUME NEW i \in 1..(k.number - 1) PROVE Follows(g, t, i)
    <2>1. Follows(got, w, i)
      BY DEF Stream
    <2>2. i # 1 => Sent(g, t, i - 1) = Sent(got, w, i - 1)
      BY <1>1, <1>10
    <2>3. QED BY <1>10, <2>1, <2>2 DEF Follows
  <1>12. k.pos = IF k.number = 1 THEN 0 ELSE Sent(g, t, k.number - 1).to
    BY <1>1, <1>10 DEF Stream
  <1>13. Len(g) + Len(t) = IF Closed("serving", t) THEN k.number ELSE k.number - 1
    BY <1>5, <1>6, <1>8
  <1>14. k.pc \in {"read", "send"} => ~Closed("serving", t)
    BY <1>5 DEF Stream
  <1>15. Stream(k, "serving", g, t)
    BY <1>11, <1>12, <1>13, <1>14 DEF Stream
  <1>16. QED BY <1>5, <1>15 DEF m, g, t

\* The daemon takes the end of the stream off the wire.
LEMMA StreamEnds ==
    ASSUME NEW k \in Call, NEW got \in Seq(Message), NEW w \in Seq(Message),
           Stream(k, "serving", got, w), w # <<>>, w[1] = End, k.number > 0,
           k.pc \in {"read", "send", "recv", "done"}
    PROVE  /\ Stream(k, "ended", got, Tail(w))
           /\ Closed("serving", w)
  <1>1. Len(got) \in Nat /\ Len(w) \in Nat /\ k.number \in Nat
    BY CallTypes
  <1>2. Len(got) + 1 = k.number /\ Len(w) = 1
    BY StreamLengths
  <1>3. Closed("serving", w)
    BY <1>2 DEF Closed
  <1>4. Tail(w) = <<>>
    <2>1. Tail(w) \in Seq(Message) /\ Len(Tail(w)) = 0
      BY <1>2, HeadTailProperties
    <2>2. QED BY <2>1, EmptySeq
  <1>5. k.pc \in {"recv", "done"}
    BY <1>3 DEF Stream
  <1>6. \A i \in 1..Len(got) : Sent(got, w, i) = got[i]
    BY <1>1 DEF Sent
  <1>7. \A i \in 1..Len(got) : Follows(got, w, i)
    BY <1>1, <1>2 DEF Stream
  <1>8. InOrder(got)
    <2> SUFFICES ASSUME NEW i \in 1..Len(got)
                 PROVE  /\ got[i].number = i
                        /\ got[i].from = IF i = 1 THEN 0 ELSE got[i - 1].to
      BY DEF InOrder
    <2>1. i # 1 => Sent(got, w, i - 1) = got[i - 1]
      BY <1>1, <1>6
    <2>2. QED BY <1>6, <1>7, <2>1 DEF Follows
  <1>9. k.pos = IF k.number = 1 THEN 0 ELSE got[k.number - 1].to
    BY <1>1, <1>2, <1>6 DEF Stream
  <1>10. Len(got) < k.number /\ Len(got) = k.number - 1
    BY <1>1, <1>2
  <1>11. QED BY <1>3, <1>4, <1>5, <1>8, <1>9, <1>10 DEF Stream

-----------------------------------------------------------------------------
(* A step of one call leaves the others alone. *)

LEMMA CallState ==
    ASSUME IInv, NEW c \in Calls
    PROVE  /\ call[c] \in Call /\ service[c] \in Handler /\ wire[c] \in Seq(Message)
           /\ fileSize \in Nat
           /\ Places(call[c], service[c], wire[c])
           /\ Upload(call[c], service[c], wire[c], fileSize)
           /\ Deadlined => Clock(call[c], service[c])
  BY DEF IInv, TypeOK, CallInv

LEMMA CallMoves ==
    ASSUME IInv, NEW c \in Calls,
           NEW k \in Call, NEW s \in Handler, NEW w \in Seq(Message),
           call' = [call EXCEPT ![c] = k], service' = [service EXCEPT ![c] = s],
           wire' = [wire EXCEPT ![c] = w], fileSize' = fileSize,
           CallInv(k, s, w, fileSize)
    PROVE  IInv'
  <1>1. TypeOK'
    BY DEF IInv, TypeOK
  <1>2. ASSUME NEW d \in Calls PROVE CallInv(call[d], service[d], wire[d], fileSize)'
    <2>1. CASE d = c
      <3>1. call'[d] = k /\ service'[d] = s /\ wire'[d] = w
        BY <2>1 DEF IInv, TypeOK
      <3>2. QED BY <3>1 DEF CallInv
    <2>2. CASE d # c
      <3>1. call'[d] = call[d] /\ service'[d] = service[d] /\ wire'[d] = wire[d]
        BY <2>2 DEF IInv, TypeOK
      <3>2. CallInv(call[d], service[d], wire[d], fileSize)
        BY DEF IInv
      <3>3. QED BY <3>1, <3>2
    <2>3. QED BY <2>1, <2>2
  <1>3. QED BY <1>1, <1>2 DEF IInv

\* The client moves, and nothing else.
LEMMA ClientMoves ==
    ASSUME IInv, NEW c \in Calls, NEW k \in Call,
           Set(c, k), UNCHANGED <<service, wire, fileSize>>,
           CallInv(k, service[c], wire[c], fileSize)
    PROVE  IInv'
  <1>1. /\ service' = [service EXCEPT ![c] = service[c]]
        /\ wire' = [wire EXCEPT ![c] = wire[c]]
    BY DEF IInv, TypeOK
  <1>2. QED BY <1>1, CallState, CallMoves DEF Set

\* The daemon moves, and nothing else.
LEMMA DaemonMoves ==
    ASSUME IInv, NEW c \in Calls, NEW s \in Handler, NEW w \in Seq(Message),
           service' = [service EXCEPT ![c] = s], wire' = [wire EXCEPT ![c] = w],
           UNCHANGED <<call, fileSize>>,
           CallInv(call[c], s, w, fileSize)
    PROVE  IInv'
  <1>1. call' = [call EXCEPT ![c] = call[c]]
    BY DEF IInv, TypeOK
  <1>2. QED BY <1>1, CallState, CallMoves

-----------------------------------------------------------------------------
(* The start of a call, and single requests. *)

LEMMA ConstantTypes ==
    /\ Ops \subseteq Operation /\ BatchSizes \subseteq Nat /\ Sizes \subseteq Nat
    /\ DefaultBatch \in Nat /\ DefaultBatch > 0 /\ MaxRead \in Nat /\ MaxRead > 0
    /\ UnaryTimeout \in Nat /\ StreamTimeout \in Nat /\ MaxAge \in Nat
  BY TrainingAssumption

\* A context's time is its timeout at first.
LEMMA Timeouts ==
    /\ \A k \in Call : Timeout(k) \in Nat
    /\ \A d \in Nat : WithTimeout(d) \in Nat \cup {Forever}
    /\ \A d \in Nat : d > 0 => WithTimeout(d) = d
  BY ConstantTypes DEF Timeout, WithTimeout, Forever

LEMMA BeginsStep ==
    ASSUME IInv, NEW c \in Calls, NEW op \in Operation, NEW pc \in PC,
           NEW left \in Nat \cup {Forever}, NEW batch \in Nat,
           Begins(c, op, pc, left, batch),
           op = "upload" => pc = "refresh" /\ batch > 0,
           op # "upload" => pc \in {"block", "invoke"},
           op = "upload" => left = WithTimeout(StreamTimeout),
           op # "upload" => \/ left = WithTimeout(UnaryTimeout)
                            \/ left = Forever /\ op = "late" /\ pc = "block"
    PROVE  IInv'
  <1> DEFINE s == service[c]
             k == [NoCall EXCEPT !.op = op, !.pc = pc, !.left = left, !.batch = batch]
  <1>1. k \in Call
    BY DEF Call, NoCall, Operation, PC, Forever
  <1>2. /\ k.op = op /\ k.pc = pc /\ k.left = left /\ k.batch = batch /\ k.age = 0
        /\ k.oldest = 0 /\ k.size = 0 /\ k.count = 0 /\ k.number = 1 /\ k.pos = 0
        /\ k.result = "none" /\ ~k.broken /\ ~k.touched
    BY DEF NoCall
  <1>3. s.state = "none" /\ s.got = <<>> /\ wire[c] = <<>>
    BY CallState DEF Begins, Places
  <1>4. Set(c, k) /\ UNCHANGED <<service, wire, fileSize>>
    BY DEF Begins
  <1> HIDE DEF k, s
  <1>5. Places(k, s, wire[c])
    BY <1>2, <1>3 DEF Places
  <1>6. Upload(k, s, wire[c], fileSize)
    <2>1. ASSUME op = "upload" PROVE Stream(k, s.state, s.got, wire[c])
      BY <1>2, <1>3, <2>1 DEF Stream, InOrder
    <2>2. ASSUME op = "upload" PROVE Sizing(k, s.state, wire[c], fileSize)
      BY <1>2, <1>3, <2>2 DEF Sizing, Progress, Closed
    <2>3. QED BY <1>2, <2>1, <2>2 DEF Upload
  <1>7. Deadlined => Clock(k, s)
    <2> SUFFICES ASSUME Deadlined PROVE Clock(k, s)
      OBVIOUS
    <2>1. WithTimeout(StreamTimeout) = StreamTimeout /\ WithTimeout(UnaryTimeout) = UnaryTimeout
      BY ConstantTypes, Timeouts DEF Deadlined
    <2>2. Timeout(k) = IF op = "upload" THEN StreamTimeout ELSE UnaryTimeout
      BY <1>2 DEF Timeout
    <2>3. QED BY <1>2, <1>3, <2>1, <2>2, ConstantTypes DEF Clock, Forever
  <1>8. QED BY <1>1, <1>4, <1>5, <1>6, <1>7, ClientMoves DEF CallInv, s

LEMMA BeginStep ==
    ASSUME IInv, NEW c \in Calls, Begin(c)
    PROVE  IInv'
  <1>1. CASE BeginUpload(c)
    <2>1. PICK batch \in BatchSizes :
            Begins(c, "upload", "refresh", WithTimeout(StreamTimeout),
                   IF batch = 0 THEN DefaultBatch ELSE batch)
      BY <1>1 DEF BeginUpload
    <2> DEFINE b == IF batch = 0 THEN DefaultBatch ELSE batch
    <2>2. b \in Nat /\ b > 0
      BY ConstantTypes
    <2> HIDE DEF b
    <2>3. Begins(c, "upload", "refresh", WithTimeout(StreamTimeout), b)
      BY <2>1 DEF b
    <2>4. QED BY <2>2, <2>3, BeginsStep, ConstantTypes, Timeouts DEF Operation, PC
  <1>2. CASE BeginEarly(c)
    BY <1>2, BeginsStep, ConstantTypes, Timeouts DEF BeginEarly, Operation, PC
  <1>3. CASE BeginLate(c)
    BY <1>3, BeginsStep, ConstantTypes, Timeouts DEF BeginLate, Operation, PC
  <1>4. CASE BeginPlain(c)
    BY <1>4, BeginsStep, ConstantTypes, Timeouts DEF BeginPlain, Operation, PC
  <1>5. QED BY <1>1, <1>2, <1>3, <1>4 DEF Begin

\* A call returns.
LEMMA ReturnsStep ==
    ASSUME IInv, NEW c \in Calls, call[c].pc \notin {"idle", "done"},
           NEW result \in {"ok", "errored", "error"},
           result = "ok" => service[c].state = "accepted",
           Set(c, Returned(call[c], result)), UNCHANGED <<service, wire, fileSize>>
    PROVE  IInv'
  <1> DEFINE k == call[c]
             s == service[c]
             kk == Returned(k, result)
  <1>1. /\ k \in Call /\ s \in Handler /\ wire[c] \in Seq(Message)
        /\ Places(k, s, wire[c]) /\ Upload(k, s, wire[c], fileSize)
        /\ Deadlined => Clock(k, s)
    BY CallState
  <1>2. kk \in Call
    BY <1>1 DEF Call, Returned, PC
  <1>3. /\ kk.pc = "done" /\ kk.result = result /\ kk.cancelled = (k.left # Forever)
        /\ kk.op = k.op /\ kk.oldest = k.oldest /\ kk.batch = k.batch /\ kk.size = k.size
        /\ kk.count = k.count /\ kk.number = k.number /\ kk.pos = k.pos
        /\ kk.touched = k.touched /\ kk.broken = k.broken
    BY <1>1 DEF Call, Returned
  <1>4. k.pc \notin {"idle", "done"} /\ Set(c, kk) /\ (result = "ok" => s.state = "accepted")
    OBVIOUS
  <1> HIDE DEF k, s, kk
  <1>5. Places(kk, s, wire[c])
    BY <1>1, <1>3, <1>4 DEF Places
  <1>6. Upload(kk, s, wire[c], fileSize)
    <2>1. ASSUME k.op = "upload" PROVE Stream(kk, s.state, s.got, wire[c])
      BY <1>1, <1>2, <1>3, <1>4, <2>1, StreamKept, HandlerTypes DEF Upload
    <2>2. ASSUME k.op = "upload" PROVE Sizing(kk, s.state, wire[c], fileSize)
      BY <1>1, <1>3, <1>4, <2>2 DEF Upload, Sizing, Progress
    <2>3. QED BY <1>3, <2>1, <2>2 DEF Upload
  <1>7. Deadlined => Clock(kk, s)
    <2>1. Timeout(kk) = Timeout(k)
      BY <1>3 DEF Timeout
    <2>2. k.pc \in {"refresh", "block", "open", "connect", "read", "send", "invoke", "recv"}
      BY <1>1, <1>4 DEF Call, PC
    <2>3. QED BY <1>1, <1>3, <2>1, <2>2 DEF Clock, Places
  <1>8. QED BY <1>1, <1>2, <1>4, <1>5, <1>6, <1>7, ClientMoves DEF CallInv, s

LEMMA ReadBlockStep ==
    ASSUME IInv, NEW c \in Calls, ReadBlock(c)
    PROVE  IInv'
  <1> DEFINE k == call[c]
             s == service[c]
             kk == [Signed(k) EXCEPT
                      !.left = IF k.op = "late" THEN WithTimeout(UnaryTimeout) ELSE @,
                      !.pc = IF k.op = "upload" THEN "open" ELSE "invoke"]
  <1>1. /\ k \in Call /\ s \in Handler /\ wire[c] \in Seq(Message)
        /\ Places(k, s, wire[c]) /\ Upload(k, s, wire[c], fileSize)
        /\ Deadlined => Clock(k, s)
    BY CallState
  <1>2. WithTimeout(UnaryTimeout) \in Nat \cup {Forever}
    BY ConstantTypes, Timeouts
  <1>3. kk \in Call
    BY <1>1, <1>2 DEF Call, Signed, PC
  <1>4. /\ kk.pc = IF k.op = "upload" THEN "open" ELSE "invoke"
        /\ kk.left = IF k.op = "late" THEN WithTimeout(UnaryTimeout) ELSE k.left
        /\ kk.age = 0 /\ kk.result = k.result
        /\ kk.op = k.op /\ kk.oldest = k.oldest /\ kk.batch = k.batch /\ kk.size = k.size
        /\ kk.count = k.count /\ kk.number = k.number /\ kk.pos = k.pos
        /\ kk.touched = k.touched /\ kk.broken = k.broken
    BY <1>1 DEF Call, Signed
  <1>5. k.pc = "block" /\ Set(c, kk) /\ UNCHANGED <<service, wire, fileSize>>
    BY DEF ReadBlock
  <1> HIDE DEF k, s, kk
  <1>6. Places(kk, s, wire[c])
    BY <1>1, <1>4, <1>5 DEF Places
  <1>7. Upload(kk, s, wire[c], fileSize)
    <2>1. ASSUME k.op = "upload" PROVE Stream(kk, s.state, s.got, wire[c])
      BY <1>1, <1>3, <1>4, <1>5, <2>1, StreamKept, HandlerTypes DEF Upload
    <2>2. ASSUME k.op = "upload" PROVE Sizing(kk, s.state, wire[c], fileSize)
      BY <1>1, <1>4, <1>5, <2>2 DEF Upload, Sizing, Progress
    <2>3. QED BY <1>4, <2>1, <2>2 DEF Upload
  <1>8. Deadlined => Clock(kk, s)
    <2> SUFFICES ASSUME Deadlined PROVE Clock(kk, s)
      OBVIOUS
    <2>1. Timeout(kk) = Timeout(k) /\ (k.op = "late" => Timeout(k) = UnaryTimeout)
          /\ Timeout(k) \in Nat
      BY <1>1, <1>4, Timeouts DEF Timeout
    <2>2. WithTimeout(UnaryTimeout) = UnaryTimeout
      BY ConstantTypes, Timeouts DEF Deadlined
    <2>3. k.left \in Nat \cup {Forever}
      BY <1>1, CallTypes
    <2>4. QED BY <1>1, <1>4, <1>5, <2>1, <2>2, <2>3, ConstantTypes DEF Clock, Forever
  <1>9. QED BY <1>1, <1>3, <1>5, <1>6, <1>7, <1>8, ClientMoves DEF CallInv, s

LEMMA InvokeStep ==
    ASSUME IInv, NEW c \in Calls, Invoke(c)
    PROVE  IInv'
  <1> DEFINE k == call[c]
             s == service[c]
             kk == [k EXCEPT !.pc = "recv", !.oldest = k.age]
             ss == [s EXCEPT !.state = "serving"]
  <1>1. /\ k \in Call /\ s \in Handler /\ wire[c] \in Seq(Message)
        /\ Places(k, s, wire[c]) /\ (Deadlined => Clock(k, s))
    BY CallState
  <1>2. kk \in Call /\ ss \in Handler /\ <<End>> \in Seq(Message)
    <2>1. kk \in Call
      BY <1>1 DEF Call, PC
    <2>2. ss \in Handler
      BY <1>1 DEF Handler
    <2>3. End \in Message
      BY DEF Message, End
    <2>4. QED BY <2>1, <2>2, <2>3
  <1>3. /\ kk.pc = "recv" /\ kk.oldest = k.age /\ kk.left = k.left /\ kk.result = k.result
        /\ kk.op = k.op /\ kk.number = k.number /\ kk.broken = k.broken
        /\ ss.state = "serving"
    BY <1>1 DEF Call, Handler
  <1>4. /\ call' = [call EXCEPT ![c] = kk] /\ service' = [service EXCEPT ![c] = ss]
        /\ wire' = [wire EXCEPT ![c] = <<End>>] /\ fileSize' = fileSize
        /\ k.pc = "invoke" /\ k.left # 0
    BY DEF Invoke, Set, Expired
  <1> HIDE DEF k, s, kk, ss
  <1>5. Places(kk, ss, <<End>>)
    BY <1>1, <1>3, <1>4 DEF Places
  <1>6. Upload(kk, ss, <<End>>, fileSize)
    BY <1>1, <1>3, <1>4 DEF Upload, Places
  <1>7. Deadlined => Clock(kk, ss)
    <2> SUFFICES ASSUME Deadlined PROVE Clock(kk, ss)
      OBVIOUS
    <2>1. Timeout(kk) = Timeout(k) /\ Timeout(k) \in Nat /\ k.age \in Nat
          /\ k.left \in Nat \cup {Forever}
      BY <1>1, <1>3, Timeouts, CallTypes DEF Timeout
    <2>2. QED BY <1>1, <1>3, <1>4, <2>1 DEF Clock, Forever
  <1>8. QED BY <1>2, <1>4, <1>5, <1>6, <1>7, CallMoves DEF CallInv

\* What a single request and an upload have in common.
LEMMA CommonStep ==
    ASSUME IInv, NEW c \in Calls,
           \/ ReadBlock(c) \/ Fails(c) \/ Invoke(c)
           \/ Receive(c) \/ ReceiveExpires(c) \/ ReceiveLost(c)
    PROVE  IInv'
  <1>1. CASE ReadBlock(c)
    BY <1>1, ReadBlockStep
  <1>2. CASE Fails(c)
    <2>1. Set(c, Returned(call[c], "error"))
      BY <1>2 DEF Fails, Errors
    <2>2. QED BY <1>2, <2>1, ReturnsStep DEF Fails
  <1>3. CASE Invoke(c)
    BY <1>3, InvokeStep
  <1>4. CASE Receive(c)
    <2> DEFINE state == service[c].state
               result == CASE state = "accepted" -> "ok"
                           [] state = "errored"  -> IF call[c].op = "upload" THEN "error" ELSE "errored"
                           [] OTHER              -> "error"
    <2>1. Set(c, Returned(call[c], result)) /\ call[c].pc = "recv"
          /\ UNCHANGED <<service, wire, fileSize>>
      BY <1>4 DEF Receive
    <2>2. result \in {"ok", "errored", "error"} /\ (result = "ok" => service[c].state = "accepted")
      OBVIOUS
    <2> HIDE DEF result, state
    <2>3. QED BY <2>1, <2>2, ReturnsStep
  <1>5. CASE ReceiveExpires(c) \/ ReceiveLost(c)
    <2>1. Set(c, Returned(call[c], "error")) /\ call[c].pc = "recv"
          /\ UNCHANGED <<service, wire, fileSize>>
      BY <1>5 DEF ReceiveExpires, ReceiveLost, Errors
    <2>2. QED BY <2>1, ReturnsStep
  <1>6. QED BY <1>1, <1>2, <1>3, <1>4, <1>5

-----------------------------------------------------------------------------
(* UploadAndValidate. *)

LEMMA RefreshedStep ==
    ASSUME IInv, NEW c \in Calls, Refreshed(c)
    PROVE  IInv'
  <1> DEFINE k == call[c]
             s == service[c]
             kk == [k EXCEPT !.pc = "block"]
  <1>1. /\ k \in Call /\ s \in Handler /\ wire[c] \in Seq(Message)
        /\ Places(k, s, wire[c]) /\ Upload(k, s, wire[c], fileSize)
        /\ Deadlined => Clock(k, s)
    BY CallState
  <1>2. kk \in Call
    BY <1>1 DEF Call, PC
  <1>3. /\ kk.pc = "block" /\ kk.left = k.left /\ kk.age = k.age /\ kk.result = k.result
        /\ kk.op = k.op /\ kk.oldest = k.oldest /\ kk.batch = k.batch /\ kk.size = k.size
        /\ kk.count = k.count /\ kk.number = k.number /\ kk.pos = k.pos
        /\ kk.touched = k.touched /\ kk.broken = k.broken
    BY <1>1 DEF Call
  <1>4. k.pc = "refresh" /\ Set(c, kk) /\ UNCHANGED <<service, wire, fileSize>>
    BY DEF Refreshed
  <1> HIDE DEF k, s, kk
  <1>5. Places(kk, s, wire[c])
    BY <1>1, <1>3, <1>4 DEF Places
  <1>6. Upload(kk, s, wire[c], fileSize)
    <2>1. ASSUME k.op = "upload" PROVE Stream(kk, s.state, s.got, wire[c])
      BY <1>1, <1>2, <1>3, <1>4, <2>1, StreamKept, HandlerTypes DEF Upload
    <2>2. ASSUME k.op = "upload" PROVE Sizing(kk, s.state, wire[c], fileSize)
      BY <1>1, <1>3, <1>4, <2>2 DEF Upload, Sizing, Progress
    <2>3. QED BY <1>3, <2>1, <2>2 DEF Upload
  <1>7. Deadlined => Clock(kk, s)
    <2>1. Timeout(kk) = Timeout(k)
      BY <1>3 DEF Timeout
    <2>2. QED BY <1>1, <1>3, <1>4, <2>1 DEF Clock
  <1>8. QED BY <1>1, <1>2, <1>4, <1>5, <1>6, <1>7, ClientMoves DEF CallInv, s

LEMMA OpenFileStep ==
    ASSUME IInv, NEW c \in Calls, OpenFile(c)
    PROVE  IInv'
  <1> DEFINE k == call[c]
             s == service[c]
             kk == [k EXCEPT !.pc = "connect", !.size = fileSize, !.touched = FALSE,
                             !.count = BatchCount(fileSize, k.batch)]
  <1>1. /\ k \in Call /\ s \in Handler /\ wire[c] \in Seq(Message) /\ fileSize \in Nat
        /\ Places(k, s, wire[c]) /\ Upload(k, s, wire[c], fileSize)
        /\ Deadlined => Clock(k, s)
    BY CallState
  <1>2. k.pc = "open" /\ Set(c, kk) /\ UNCHANGED <<service, wire, fileSize>> /\ fileSize > 0
    BY DEF OpenFile
  <1>3. /\ k.op = "upload" /\ s.state = "none" /\ wire[c] = <<>> /\ k.number = 1 /\ k.pos = 0
        /\ k.batch \in Nat /\ k.batch > 0
    BY <1>1, <1>2, CallTypes DEF Places, Upload, Sizing
  <1>4. BatchCount(fileSize, k.batch) \in Nat /\ 0 < BatchCount(fileSize, k.batch)
    <2> DEFINE b == k.batch
    <2>1. b \in Nat \ {0} /\ 0 \in Nat
      BY <1>3
    <2> HIDE DEF b
    <2>2. 0 * b < fileSize
      BY <1>1, <1>2, <2>1
    <2>3. BatchCount(fileSize, b) \in Nat /\ 0 < BatchCount(fileSize, b)
      BY <1>1, <2>1, <2>2, MoreBatches
    <2>4. QED BY <2>3 DEF b
  <1>5. kk \in Call
    BY <1>1, <1>4 DEF Call, PC
  <1>6. /\ kk.pc = "connect" /\ kk.size = fileSize /\ kk.count = BatchCount(fileSize, k.batch)
        /\ kk.left = k.left /\ kk.age = k.age /\ kk.result = k.result
        /\ kk.op = k.op /\ kk.oldest = k.oldest /\ kk.batch = k.batch
        /\ kk.number = k.number /\ kk.pos = k.pos /\ kk.broken = k.broken
    BY <1>1 DEF Call
  <1> HIDE DEF k, s, kk
  <1>7. Places(kk, s, wire[c])
    BY <1>1, <1>2, <1>3, <1>6 DEF Places
  <1>8. Upload(kk, s, wire[c], fileSize)
    <2>1. Stream(kk, s.state, s.got, wire[c])
      BY <1>1, <1>2, <1>3, <1>5, <1>6, StreamKept, HandlerTypes DEF Upload
    <2>2. ~Closed(s.state, wire[c])
      BY <1>3 DEF Closed
    <2>3. Sizing(kk, s.state, wire[c], fileSize)
      BY <1>1, <1>2, <1>3, <1>4, <1>6, <2>2 DEF Sizing, Progress
    <2>4. QED BY <2>1, <2>3 DEF Upload
  <1>9. Deadlined => Clock(kk, s)
    <2>1. Timeout(kk) = Timeout(k)
      BY <1>6 DEF Timeout
    <2>2. QED BY <1>1, <1>2, <1>6, <2>1 DEF Clock
  <1>10. QED BY <1>1, <1>2, <1>5, <1>7, <1>8, <1>9, ClientMoves DEF CallInv, s

LEMMA ConnectStep ==
    ASSUME IInv, NEW c \in Calls, Connect(c)
    PROVE  IInv'
  <1> DEFINE k == call[c]
             s == service[c]
             w == wire[c]
             kk == [k EXCEPT !.pc = "read"]
             ss == [s EXCEPT !.state = "serving"]
  <1>1. /\ k \in Call /\ s \in Handler /\ w \in Seq(Message)
        /\ Places(k, s, w) /\ Upload(k, s, w, fileSize) /\ (Deadlined => Clock(k, s))
    BY CallState
  <1>2. kk \in Call /\ ss \in Handler
    BY <1>1 DEF Call, PC, Handler
  <1>3. /\ kk.pc = "read" /\ kk.left = k.left /\ kk.age = k.age /\ kk.result = k.result
        /\ kk.op = k.op /\ kk.oldest = k.oldest /\ kk.batch = k.batch /\ kk.size = k.size
        /\ kk.count = k.count /\ kk.number = k.number /\ kk.pos = k.pos
        /\ kk.touched = k.touched /\ kk.broken = k.broken
        /\ ss.state = "serving" /\ ss.got = s.got
    BY <1>1 DEF Call, Handler
  <1>4. /\ call' = [call EXCEPT ![c] = kk] /\ service' = [service EXCEPT ![c] = ss]
        /\ wire' = [wire EXCEPT ![c] = w] /\ fileSize' = fileSize
        /\ k.pc = "connect" /\ k.left # 0
    BY DEF Connect, Set, Expired, IInv, TypeOK
  <1> HIDE DEF k, s, w, kk, ss
  <1>5. /\ k.op = "upload" /\ s.state = "none" /\ w = <<>> /\ s.got = <<>>
        /\ k.number = 1 /\ k.pos = 0
    BY <1>1, <1>4 DEF Places
  <1>6. Places(kk, ss, w)
    BY <1>1, <1>3, <1>4, <1>5 DEF Places
  <1>7. Upload(kk, ss, w, fileSize)
    <2>1. ~Closed(ss.state, w)
      BY <1>3, <1>5 DEF Closed
    <2>2. Len(ss.got) + Len(w) = kk.number - 1
      BY <1>3, <1>5
    <2>3. Stream(kk, ss.state, ss.got, w)
      BY <1>3, <1>5, <2>1, <2>2 DEF Stream
    <2>4. Sizing(kk, ss.state, w, fileSize)
      BY <1>1, <1>3, <1>4, <1>5, <2>1 DEF Upload, Sizing, Progress
    <2>5. QED BY <2>3, <2>4 DEF Upload
  <1>8. Deadlined => Clock(kk, ss)
    <2>1. Timeout(kk) = Timeout(k)
      BY <1>3 DEF Timeout
    <2>2. QED BY <1>1, <1>3, <1>4, <2>1 DEF Clock
  <1>9. QED BY <1>1, <1>2, <1>4, <1>6, <1>7, <1>8, CallMoves DEF CallInv

\* While the client reads and sends, the stream is open as far as it knows.
LEMMA NotClosed ==
    ASSUME NEW k \in Call, NEW s \in Handler, NEW w \in Seq(Message),
           Places(k, s, w), k.pc \in {"read", "send"}, Stream(k, s.state, s.got, w)
    PROVE  /\ k.op = "upload" /\ s.state \notin {"none", "ended", "accepted"}
           /\ ~Closed(s.state, w)
  <1>1. k.op = "upload" /\ s.state # "none"
    BY DEF Places
  <1>2. s.state \notin {"ended", "accepted"}
    BY DEF Stream
  <1>3. CASE s.state = "serving"
    BY <1>1, <1>2, <1>3 DEF Stream
  <1>4. CASE s.state # "serving"
    BY <1>1, <1>2, <1>4 DEF Stream, Closed
  <1>5. QED BY <1>3, <1>4

\* The client closes the stream, if it is still open, at the end of the file or
\* because of an error.
LEMMA ClosesStep ==
    ASSUME IInv, NEW c \in Calls, CloseSend(c), NEW kk \in Call, Set(c, kk),
           UNCHANGED <<service, fileSize>>,
           call[c].pc \in {"read", "send"},
           \/ kk.pc = "recv" /\ kk.result = "none" /\ kk.broken = call[c].broken
           \/ kk.pc = "done" /\ kk.result = "error" /\ kk.cancelled = (call[c].left # Forever),
           kk.broken \/ UNCHANGED wire \/ (call[c].pos >= fileSize /\ call[c].pc = "read"),
           kk.left = call[c].left, kk.oldest = call[c].oldest, kk.op = call[c].op,
           kk.batch = call[c].batch, kk.size = call[c].size, kk.count = call[c].count,
           kk.number = call[c].number, kk.pos = call[c].pos, kk.touched = call[c].touched
    PROVE  IInv'
  <1> DEFINE k == call[c]
             s == service[c]
             w == wire[c]
  <1>1. /\ k \in Call /\ s \in Handler /\ w \in Seq(Message) /\ fileSize \in Nat
        /\ Places(k, s, w) /\ Upload(k, s, w, fileSize) /\ (Deadlined => Clock(k, s))
    BY CallState
  <1>2. /\ k.pc \in {"read", "send"} /\ Set(c, kk) /\ UNCHANGED <<service, fileSize>>
        /\ \/ kk.pc = "recv" /\ kk.result = "none" /\ kk.broken = k.broken
           \/ kk.pc = "done" /\ kk.result = "error" /\ kk.cancelled = (k.left # Forever)
        /\ kk.broken \/ UNCHANGED wire \/ (k.pos >= fileSize /\ k.pc = "read")
        /\ kk.left = k.left /\ kk.oldest = k.oldest /\ kk.op = k.op
        /\ kk.batch = k.batch /\ kk.size = k.size /\ kk.count = k.count
        /\ kk.number = k.number /\ kk.pos = k.pos /\ kk.touched = k.touched
    OBVIOUS
  <1>3. PICK ww \in {w, Append(w, End)} :
          /\ wire' = [wire EXCEPT ![c] = ww]
          /\ ww # w => s.state = "serving" \/ s.state = "none" \/ s.state = "ended"
          /\ kk.broken \/ ww = w \/ (k.pos >= fileSize /\ k.pc = "read")
    <2>1. CASE UNCHANGED wire
      <3>1. wire' = [wire EXCEPT ![c] = w]
        BY <2>1 DEF IInv, TypeOK
      <3>2. QED BY <3>1
    <2>2. CASE ~UNCHANGED wire
      <3>1. wire' = [wire EXCEPT ![c] = Append(w, End)] /\ ~Terminated(c)
        BY <2>2 DEF CloseSend
      <3>2. s.state \in {"serving", "none", "ended"}
        BY <1>1, <3>1, HandlerTypes DEF Terminated
      <3>3. kk.broken \/ (k.pos >= fileSize /\ k.pc = "read")
        BY <1>2, <2>2
      <3>4. QED BY <3>1, <3>2, <3>3
    <2>3. QED BY <2>1, <2>2
  <1> HIDE DEF k, s, w
  <1>4. ww \in Seq(Message)
    <2>1. End \in Message
      BY DEF Message, End
    <2>2. QED BY <1>1, <2>1
  <1>5. k.op = "upload" /\ Stream(k, s.state, s.got, w) /\ Sizing(k, s.state, w, fileSize)
    BY <1>1, <1>2 DEF Upload, Places
  <1>6. s.state \notin {"none", "ended", "accepted"} /\ ~Closed(s.state, w)
    BY <1>1, <1>2, <1>5, NotClosed
  <1>7. Places(kk, s, ww)
    BY <1>1, <1>2, <1>6 DEF Places
  <1>8. Stream(kk, s.state, s.got, ww)
    <2>1. CASE ww = w
      BY <1>1, <1>2, <1>5, <1>6, <2>1, StreamKept, HandlerTypes
    <2>2. CASE ww # w
      <3>1. s.state = "serving" /\ ww = Append(w, End)
        BY <1>3, <1>6, <2>2
      <3>2. k.number > 0 /\ kk.pc \in {"recv", "done"}
        BY <1>1, <1>2 DEF Places
      <3>3. QED BY <1>1, <1>2, <1>5, <3>1, <3>2, StreamCloses, HandlerTypes
    <2>3. QED BY <2>1, <2>2
  <1>9. Sizing(kk, s.state, ww, fileSize)
    <2>1. ASSUME ~k.touched, k.batch <= MaxRead, Closed(s.state, ww), ~kk.broken
          PROVE  k.pos = k.size
      <3>1. k.pos >= fileSize
        BY <1>3, <1>6, <2>1
      <3>2. Progress(k, fileSize)
        BY <1>5, <2>1 DEF Sizing
      <3>3. fileSize = k.size /\ k.pos <= k.size
        BY <1>2, <3>2 DEF Progress
      <3>4. k.pos \in Nat /\ k.size \in Nat
        BY <1>1, CallTypes
      <3>5. QED BY <3>1, <3>3, <3>4
    <2>2. QED BY <1>2, <1>5, <2>1 DEF Sizing, Progress
  <1>10. Deadlined => Clock(kk, s)
    <2>1. Timeout(kk) = Timeout(k)
      BY <1>2 DEF Timeout
    <2>2. QED BY <1>1, <1>2, <2>1 DEF Clock
  <1>11. Upload(kk, s, ww, fileSize)
    BY <1>8, <1>9 DEF Upload
  <1>12. /\ call' = [call EXCEPT ![c] = kk] /\ service' = [service EXCEPT ![c] = s]
         /\ fileSize' = fileSize
    BY <1>2 DEF Set, IInv, TypeOK, s
  <1>13. QED BY <1>1, <1>3, <1>4, <1>7, <1>10, <1>11, <1>12, CallMoves DEF CallInv

LEMMA EndOfFileStep ==
    ASSUME IInv, NEW c \in Calls, EndOfFile(c)
    PROVE  IInv'
  <1> DEFINE kk == [call[c] EXCEPT !.pc = "recv"]
  <1>1. call[c] \in Call /\ Places(call[c], service[c], wire[c])
    BY CallState
  <1>2. kk \in Call
    BY <1>1 DEF Call, PC
  <1>3. /\ kk.pc = "recv" /\ kk.result = "none" /\ kk.broken = call[c].broken
        /\ kk.left = call[c].left /\ kk.oldest = call[c].oldest /\ kk.op = call[c].op
        /\ kk.batch = call[c].batch /\ kk.size = call[c].size /\ kk.count = call[c].count
        /\ kk.number = call[c].number /\ kk.pos = call[c].pos /\ kk.touched = call[c].touched
    BY <1>1 DEF Call, Places, EndOfFile
  <1>4. /\ call[c].pc = "read" /\ call[c].pos >= fileSize /\ CloseSend(c) /\ Set(c, kk)
        /\ UNCHANGED <<service, fileSize>>
    BY DEF EndOfFile
  <1> HIDE DEF kk
  <1>5. QED BY <1>2, <1>3, <1>4, ClosesStep

LEMMA ReadFailsStep ==
    ASSUME IInv, NEW c \in Calls, ReadFails(c)
    PROVE  IInv'
  <1> DEFINE kk == Returned([call[c] EXCEPT !.broken = TRUE], "error")
  <1>1. call[c] \in Call /\ Places(call[c], service[c], wire[c])
    BY CallState
  <1>2. kk \in Call
    BY <1>1 DEF Call, PC, Returned
  <1>3. /\ kk.pc = "done" /\ kk.result = "error" /\ kk.cancelled = (call[c].left # Forever)
        /\ kk.broken
        /\ kk.left = call[c].left /\ kk.oldest = call[c].oldest /\ kk.op = call[c].op
        /\ kk.batch = call[c].batch /\ kk.size = call[c].size /\ kk.count = call[c].count
        /\ kk.number = call[c].number /\ kk.pos = call[c].pos /\ kk.touched = call[c].touched
    BY <1>1 DEF Call, Returned
  <1>4. /\ call[c].pc = "read" /\ CloseSend(c) /\ Set(c, kk)
        /\ UNCHANGED <<service, fileSize>>
    BY DEF ReadFails
  <1> HIDE DEF kk
  <1>5. QED BY <1>2, <1>3, <1>4, ClosesStep

LEMMA SendFailsStep ==
    ASSUME IInv, NEW c \in Calls, SendFails(c)
    PROVE  IInv'
  <1> DEFINE kk == Returned(call[c], "error")
  <1>1. call[c] \in Call /\ Places(call[c], service[c], wire[c])
    BY CallState
  <1>2. kk \in Call
    BY <1>1 DEF Call, PC, Returned
  <1>3. /\ kk.pc = "done" /\ kk.result = "error" /\ kk.cancelled = (call[c].left # Forever)
        /\ kk.left = call[c].left /\ kk.oldest = call[c].oldest /\ kk.op = call[c].op
        /\ kk.batch = call[c].batch /\ kk.size = call[c].size /\ kk.count = call[c].count
        /\ kk.number = call[c].number /\ kk.pos = call[c].pos /\ kk.touched = call[c].touched
    BY <1>1 DEF Call, Returned
  <1>4. /\ call[c].pc = "send" /\ CloseSend(c) /\ Set(c, kk)
        /\ UNCHANGED <<service, fileSize>> /\ UNCHANGED wire
    BY DEF SendFails, Errors, CloseSend
  <1> HIDE DEF kk
  <1>5. QED BY <1>2, <1>3, <1>4, ClosesStep

LEMMA ReadFileStep ==
    ASSUME IInv, NEW c \in Calls, ReadFile(c)
    PROVE  IInv'
  <1> DEFINE k == call[c]
             s == service[c]
             w == wire[c]
             n == Least(Least(k.batch, MaxRead), fileSize - k.pos)
             kk == [k EXCEPT !.pc = "send", !.read = n]
  <1>1. /\ k \in Call /\ s \in Handler /\ w \in Seq(Message) /\ fileSize \in Nat
        /\ Places(k, s, w) /\ Upload(k, s, w, fileSize) /\ (Deadlined => Clock(k, s))
    BY CallState
  <1>2. k.pc = "read" /\ Set(c, kk) /\ UNCHANGED <<service, wire, fileSize>>
        /\ k.pos < fileSize
    BY DEF ReadFile
  <1>3. k.pos \in Nat /\ k.batch \in Nat
    BY <1>1, CallTypes
  <1> HIDE DEF k, s, w
  <1>4. n \in Nat
    BY <1>1, <1>2, <1>3, ConstantTypes DEF Least
  <1>5. k.batch <= MaxRead => n = Least(k.batch, fileSize - k.pos)
    BY <1>1, <1>2, <1>3, ConstantTypes DEF Least
  <1> HIDE DEF n
  <1>6. kk \in Call
    BY <1>1, <1>4 DEF Call, PC
  <1>7. /\ kk.pc = "send" /\ kk.read = n /\ kk.left = k.left /\ kk.age = k.age
        /\ kk.op = k.op /\ kk.oldest = k.oldest /\ kk.batch = k.batch /\ kk.size = k.size
        /\ kk.count = k.count /\ kk.number = k.number /\ kk.pos = k.pos
        /\ kk.touched = k.touched /\ kk.broken = k.broken /\ kk.result = k.result
    BY <1>1 DEF Call
  <1> HIDE DEF kk
  <1>8. k.op = "upload" /\ Stream(k, s.state, s.got, w) /\ Sizing(k, s.state, w, fileSize)
    BY <1>1, <1>2 DEF Upload, Places
  <1>9. s.state \notin {"none", "ended", "accepted"} /\ ~Closed(s.state, w)
    BY <1>1, <1>2, <1>8, NotClosed
  <1>10. Places(kk, s, w)
    BY <1>1, <1>2, <1>7 DEF Places
  <1>11. Stream(kk, s.state, s.got, w)
    BY <1>1, <1>2, <1>6, <1>7, <1>8, StreamKept, HandlerTypes
  <1>12. Sizing(kk, s.state, w, fileSize)
    BY <1>2, <1>5, <1>7, <1>8, <1>9 DEF Sizing, Progress
  <1>13. Deadlined => Clock(kk, s)
    <2>1. Timeout(kk) = Timeout(k)
      BY <1>7 DEF Timeout
    <2>2. QED BY <1>1, <1>2, <1>7, <2>1 DEF Clock
  <1>14. Upload(kk, s, w, fileSize)
    BY <1>11, <1>12 DEF Upload
  <1>15. QED BY <1>2, <1>6, <1>10, <1>13, <1>14, ClientMoves DEF CallInv, s, w

\* How far a batch takes the client.
LEMMA BatchSent ==
    ASSUME NEW k \in Call, NEW kk \in Call, NEW f \in Nat, Progress(k, f),
           k.pc = "send", k.batch > 0, k.number > 0, k.count = BatchCount(k.size, k.batch),
           kk.pc = "read", kk.pos = k.pos + k.read, kk.number = k.number + 1,
           kk.size = k.size, kk.count = k.count, kk.batch = k.batch
    PROVE  Progress(kk, f)
  <1> DEFINE n == k.number - 1
             b == k.batch
             e == k.size
  <1>1. /\ n \in Nat /\ b \in Nat \ {0} /\ e \in Nat /\ k.pos \in Nat /\ k.number = n + 1
        /\ k.read \in Nat /\ k.count = BatchCount(e, b)
    BY CallTypes
  <1>2. /\ k.pos < e /\ k.read = Least(b, e - k.pos) /\ k.pos = n * b /\ f = e
    BY DEF Progress
  <1>3. kk.number = n + 2 /\ kk.size = e /\ kk.batch = b /\ kk.pos = k.pos + k.read
        /\ kk.count = k.count
    BY <1>1
  <1> HIDE DEF n, b, e
  <1>4. (n + 1) * b = n * b + b
    BY <1>1
  <1>5. CASE b < e - k.pos
    <2>1. kk.pos = (n + 1) * b /\ kk.pos < e
      BY <1>1, <1>2, <1>3, <1>4, <1>5 DEF Least
    <2>2. n + 1 \in Nat
      BY <1>1
    <2>3. n + 1 < BatchCount(e, b)
      BY <1>1, <2>1, <2>2, MoreBatches
    <2>4. kk.number - 1 = n + 1
      BY <1>1, <1>3
    <2>5. kk.pos <= e /\ kk.pos # e
      BY <1>1, <1>2, <1>3, <2>1
    <2>6. QED BY <1>1, <1>2, <1>3, <2>1, <2>3, <2>4, <2>5 DEF Progress
  <1>6. CASE ~(b < e - k.pos)
    <2>1. kk.pos = e
      BY <1>1, <1>2, <1>3, <1>6 DEF Least
    <2>2. n * b < e /\ (n + 1) * b >= e
      BY <1>1, <1>2, <1>4, <1>6
    <2>3. n + 1 = BatchCount(e, b)
      BY <1>1, <2>2, LastBatch
    <2>4. kk.number - 1 = n + 1
      BY <1>1, <1>3
    <2>5. kk.pos <= e /\ ~(kk.pos < e)
      BY <1>1, <2>1
    <2>6. QED BY <1>1, <1>2, <1>3, <2>1, <2>3, <2>4, <2>5 DEF Progress
  <1>7. QED BY <1>5, <1>6

LEMMA SendStep ==
    ASSUME IInv, NEW c \in Calls, Send(c)
    PROVE  IInv'
  <1> DEFINE k == call[c]
             s == service[c]
             w == wire[c]
             m == [number |-> k.number, from |-> k.pos, to |-> k.pos + k.read]
             kk == [k EXCEPT !.pc = "read", !.pos = k.pos + k.read, !.number = k.number + 1,
                             !.oldest = k.age]
  <1>1. /\ k \in Call /\ s \in Handler /\ w \in Seq(Message) /\ fileSize \in Nat
        /\ Places(k, s, w) /\ Upload(k, s, w, fileSize) /\ (Deadlined => Clock(k, s))
    BY CallState
  <1>2. /\ call' = [call EXCEPT ![c] = kk] /\ service' = [service EXCEPT ![c] = s]
        /\ wire' = [wire EXCEPT ![c] = Append(w, m)] /\ fileSize' = fileSize
        /\ k.pc = "send" /\ k.left # 0
        /\ s.state \notin {"accepted", "errored", "failed"}
    BY DEF Send, Set, Expired, Terminated, IInv, TypeOK
  <1>3. k.pos \in Nat /\ k.read \in Nat /\ k.number \in Nat /\ k.age \in Nat
        /\ k.left \in Nat \cup {Forever}
    BY <1>1, CallTypes
  <1> HIDE DEF k, s, w
  <1>4. m \in Message /\ m.number = k.number /\ m.from = k.pos /\ m.to = k.pos + k.read
    BY <1>3 DEF Message
  <1>5. kk \in Call
    <2>1. \A to, next, age \in Nat :
            [k EXCEPT !.pc = "read", !.pos = to, !.number = next, !.oldest = age] \in Call
      BY <1>1 DEF Call, PC
    <2>2. k.pos + k.read \in Nat /\ k.number + 1 \in Nat
      BY <1>3
    <2>3. QED BY <1>3, <2>1, <2>2
  <1>6. /\ kk.pc = "read" /\ kk.pos = k.pos + k.read /\ kk.number = k.number + 1
        /\ kk.oldest = k.age /\ kk.left = k.left /\ kk.age = k.age /\ kk.op = k.op
        /\ kk.batch = k.batch /\ kk.size = k.size /\ kk.count = k.count
        /\ kk.touched = k.touched /\ kk.broken = k.broken /\ kk.result = k.result
    BY <1>1 DEF Call
  <1> HIDE DEF m, kk
  <1>7. k.op = "upload" /\ Stream(k, s.state, s.got, w) /\ Sizing(k, s.state, w, fileSize)
    BY <1>1, <1>2 DEF Upload, Places
  <1>8. s.state = "serving" /\ ~Closed(s.state, w)
    BY <1>1, <1>2, <1>7, NotClosed, HandlerTypes
  <1>9. Append(w, m) \in Seq(Message)
    BY <1>1, <1>4
  <1>10. k.number > 0 /\ kk.number > 0
    BY <1>1, <1>3, <1>6 DEF Places
  <1>11. Places(kk, s, Append(w, m))
    BY <1>1, <1>2, <1>6, <1>8, <1>10 DEF Places
  <1>12. Stream(kk, s.state, s.got, Append(w, m))
    BY <1>1, <1>2, <1>4, <1>5, <1>6, <1>7, <1>8, <1>10, StreamSends, HandlerTypes
  <1>13. Sizing(kk, s.state, Append(w, m), fileSize)
    <2>1. ~Closed(s.state, Append(w, m))
      BY <1>6, <1>8, <1>12 DEF Stream
    <2>2. /\ k.batch > 0 /\ k.size > 0 /\ k.count = BatchCount(k.size, k.batch)
          /\ ~k.touched /\ k.batch <= MaxRead => Progress(k, fileSize)
      BY <1>2, <1>7 DEF Sizing
    <2>3. ~k.touched /\ k.batch <= MaxRead => Progress(kk, fileSize)
      BY <1>1, <1>2, <1>5, <1>6, <1>10, <2>2, BatchSent
    <2>4. QED BY <1>6, <2>1, <2>2, <2>3 DEF Sizing
  <1>14. Deadlined => Clock(kk, s)
    <2> SUFFICES ASSUME Deadlined PROVE Clock(kk, s)
      OBVIOUS
    <2>1. Timeout(kk) = Timeout(k) /\ Timeout(k) \in Nat
      BY <1>1, <1>6, Timeouts DEF Timeout
    <2>2. QED BY <1>1, <1>2, <1>3, <1>6, <2>1 DEF Clock, Forever
  <1>15. Upload(kk, s, Append(w, m), fileSize)
    BY <1>12, <1>13 DEF Upload
  <1>16. QED BY <1>1, <1>2, <1>5, <1>9, <1>11, <1>14, <1>15, CallMoves DEF CallInv

\* What only an upload does.
LEMMA UploadStep ==
    ASSUME IInv, NEW c \in Calls,
           \/ Refreshed(c) \/ OpenFile(c) \/ Connect(c)
           \/ ReadFile(c) \/ EndOfFile(c) \/ ReadFails(c) \/ Send(c) \/ SendFails(c)
    PROVE  IInv'
  BY RefreshedStep, OpenFileStep, ConnectStep, ReadFileStep, EndOfFileStep, ReadFailsStep,
     SendStep, SendFailsStep

-----------------------------------------------------------------------------
(* The daemon. *)

LEMMA TakeStep ==
    ASSUME IInv, NEW c \in Calls, Take(c)
    PROVE  IInv'
  <1> DEFINE k == call[c]
             s == service[c]
             w == wire[c]
             ss == [s EXCEPT !.state = IF Head(w) = End THEN "ended" ELSE @,
                             !.got = IF Head(w) = End THEN @ ELSE Append(@, Head(w))]
  <1>1. /\ k \in Call /\ s \in Handler /\ w \in Seq(Message)
        /\ Places(k, s, w) /\ Upload(k, s, w, fileSize) /\ (Deadlined => Clock(k, s))
    BY CallState
  <1>2. /\ service' = [service EXCEPT ![c] = ss] /\ wire' = [wire EXCEPT ![c] = Tail(w)]
        /\ UNCHANGED <<call, fileSize>>
        /\ s.state = "serving" /\ w # <<>>
    BY DEF Take, IInv, TypeOK, Handler
  <1>3. Head(w) = w[1] /\ Head(w) \in Message /\ Tail(w) \in Seq(Message)
    BY <1>1, <1>2, HeadTailProperties
  <1>4. ss \in Handler
    <2>1. s.got \in Seq(Message) /\ s.state \in {"none", "serving", "ended", "accepted", "errored", "failed"}
      BY <1>1, HandlerTypes
    <2>2. Append(s.got, Head(w)) \in Seq(Message)
      BY <1>3, <2>1, AppendProperties
    <2>3. CASE Head(w) = End
      BY <1>1, <2>1, <2>3 DEF Handler
    <2>4. CASE Head(w) # End
      BY <1>1, <2>1, <2>2, <2>4 DEF Handler
    <2>5. QED BY <2>3, <2>4
  <1>5. /\ ss.state = IF Head(w) = End THEN "ended" ELSE s.state
        /\ ss.got = IF Head(w) = End THEN s.got ELSE Append(s.got, Head(w))
    BY <1>1 DEF Handler
  <1> HIDE DEF k, s, w, ss
  <1>6. Places(k, ss, Tail(w))
    BY <1>1, <1>2, <1>5 DEF Places
  <1>7. ASSUME k.op = "upload"
        PROVE  /\ Stream(k, ss.state, ss.got, Tail(w))
               /\ Closed(ss.state, Tail(w)) => Closed(s.state, w)
    <2>1. Stream(k, "serving", s.got, w) /\ k.number > 0 /\ s.got \in Seq(Message)
      BY <1>1, <1>2, <1>7, HandlerTypes DEF Upload, Places
    <2>2. CASE w[1] = End
      <3>1. k.pc \in {"read", "send", "recv", "done"}
        BY <1>1, <1>2, <1>7 DEF Places, Call, PC
      <3>2. QED BY <1>1, <1>2, <1>3, <1>5, <2>1, <2>2, <3>1, StreamEnds
    <2>3. CASE w[1] # End
      BY <1>1, <1>2, <1>3, <1>5, <2>1, <2>3, StreamTakes
    <2>4. QED BY <2>2, <2>3
  <1>8. Upload(k, ss, Tail(w), fileSize)
    BY <1>1, <1>7 DEF Upload, Sizing
  <1>9. Deadlined => Clock(k, ss)
    BY <1>1, <1>2 DEF Clock
  <1>10. QED BY <1>2, <1>3, <1>4, <1>6, <1>8, <1>9, DaemonMoves DEF CallInv, k

\* The handler is over.
LEMMA EndsStep ==
    ASSUME IInv, NEW c \in Calls, NEW states, NEW next \in {"accepted", "errored", "failed"},
           Ends(c, states, next),
           states \subseteq {"serving", "ended"}, next = "accepted" => states = {"ended"}
    PROVE  IInv'
  <1> DEFINE k == call[c]
             s == service[c]
             w == wire[c]
             ss == [s EXCEPT !.state = next]
  <1>1. /\ k \in Call /\ s \in Handler /\ w \in Seq(Message)
        /\ Places(k, s, w) /\ Upload(k, s, w, fileSize) /\ (Deadlined => Clock(k, s))
    BY CallState
  <1>2. /\ service' = [service EXCEPT ![c] = ss] /\ wire' = [wire EXCEPT ![c] = <<>>]
        /\ UNCHANGED <<call, fileSize>>
        /\ s.state \in {"serving", "ended"} /\ (next = "accepted" => s.state = "ended")
    BY DEF Ends
  <1>3. ss \in Handler /\ <<>> \in Seq(Message)
    BY <1>1 DEF Handler
  <1>4. ss.state = next /\ ss.got = s.got
    BY <1>1 DEF Handler
  <1> HIDE DEF k, s, w, ss
  <1>5. Places(k, ss, <<>>)
    BY <1>1, <1>2, <1>4 DEF Places
  <1>6. ASSUME k.op = "upload"
        PROVE  /\ Stream(k, ss.state, ss.got, <<>>)
               /\ Closed(ss.state, <<>>) => Closed(s.state, w)
    <2>1. Stream(k, s.state, s.got, w) /\ k.number > 0 /\ s.got \in Seq(Message)
      BY <1>1, <1>6, HandlerTypes DEF Upload, Places
    <2>2. Stream(k, next, s.got, <<>>)
      BY <1>1, <1>2, <2>1, StreamOver
    <2>3. Closed(next, <<>>) => Closed(s.state, w)
      BY <1>2 DEF Closed
    <2>4. QED BY <1>4, <2>2, <2>3
  <1>7. Upload(k, ss, <<>>, fileSize)
    BY <1>1, <1>6 DEF Upload, Sizing
  <1>8. Deadlined => Clock(k, ss)
    BY <1>1, <1>2 DEF Clock
  <1>9. QED BY <1>2, <1>3, <1>5, <1>7, <1>8, DaemonMoves DEF CallInv, k

LEMMA DaemonStep ==
    ASSUME IInv, NEW c \in Calls, Daemon(c)
    PROVE  IInv'
  <1>1. CASE Take(c)
    BY <1>1, TakeStep
  <1>2. CASE Accept(c)
    BY <1>2, EndsStep DEF Accept
  <1>3. CASE Refuse(c) \/ Break(c)
    BY <1>3, EndsStep DEF Refuse, Break
  <1>4. QED BY <1>1, <1>2, <1>3 DEF Daemon

-----------------------------------------------------------------------------
(* Other programs and the clock. *)

LEMMA ChangeFileStep ==
    ASSUME IInv, ChangeFile
    PROVE  IInv'
  <1>1. /\ call' = [c \in Calls |-> [call[c] EXCEPT
              !.touched = @ \/ call[c].pc \in {"connect", "read", "send"}]]
        /\ UNCHANGED <<wire, service>> /\ fileSize' \in Nat
    BY ConstantTypes DEF ChangeFile
  <1>2. ASSUME NEW c \in Calls
        PROVE  /\ call'[c] \in Call
               /\ CallInv(call'[c], service[c], wire[c], fileSize')
    <2> DEFINE k == call[c]
               s == service[c]
               kk == [k EXCEPT !.touched = @ \/ k.pc \in {"connect", "read", "send"}]
    <2>1. /\ k \in Call /\ s \in Handler /\ wire[c] \in Seq(Message)
          /\ Places(k, s, wire[c]) /\ Upload(k, s, wire[c], fileSize)
          /\ Deadlined => Clock(k, s)
      BY CallState
    <2>2. call'[c] = kk
      BY <1>1
    <2>3. kk \in Call
      BY <2>1 DEF Call
    <2>4. /\ kk.touched <=> k.touched \/ k.pc \in {"connect", "read", "send"}
          /\ kk.pc = k.pc /\ kk.left = k.left /\ kk.age = k.age /\ kk.op = k.op
          /\ kk.oldest = k.oldest /\ kk.batch = k.batch /\ kk.size = k.size
          /\ kk.count = k.count /\ kk.number = k.number /\ kk.pos = k.pos /\ kk.read = k.read
          /\ kk.broken = k.broken /\ kk.result = k.result /\ kk.cancelled = k.cancelled
      BY <2>1 DEF Call
    <2> HIDE DEF k, s, kk
    <2>5. Places(kk, s, wire[c])
      BY <2>1, <2>4 DEF Places
    <2>6. k.op = "upload" => Stream(kk, s.state, s.got, wire[c])
      BY <2>1, <2>3, <2>4, StreamKept, HandlerTypes DEF Upload
    <2>7. k.op = "upload" => Sizing(kk, s.state, wire[c], fileSize')
      BY <2>1, <2>4 DEF Upload, Sizing, Progress
    <2>8. Upload(kk, s, wire[c], fileSize')
      BY <2>4, <2>6, <2>7 DEF Upload
    <2>9. Deadlined => Clock(kk, s)
      <3>1. Timeout(kk) = Timeout(k)
        BY <2>4 DEF Timeout
      <3>2. QED BY <2>1, <2>4, <3>1 DEF Clock
    <2>10. QED BY <2>2, <2>3, <2>5, <2>8, <2>9 DEF CallInv, s
  <1>3. TypeOK'
    BY <1>1, <1>2 DEF IInv, TypeOK
  <1>4. QED BY <1>1, <1>2, <1>3 DEF IInv, CallInv

LEMMA TickStep ==
    ASSUME IInv, Tick
    PROVE  IInv'
  <1>1. /\ call' = [c \in Calls |->
              IF Active(c)
              THEN [call[c] EXCEPT !.left = IF @ > 0 THEN @ - 1 ELSE @,
                                   !.age = Least(@ + 1, MaxAge)]
              ELSE call[c]]
        /\ UNCHANGED <<wire, service, fileSize>>
    BY DEF Tick
  <1>2. ASSUME NEW c \in Calls
        PROVE  /\ call'[c] \in Call
               /\ CallInv(call'[c], service[c], wire[c], fileSize)
    <2> DEFINE k == call[c]
               s == service[c]
               left == IF k.left > 0 THEN k.left - 1 ELSE k.left
               age == Least(k.age + 1, MaxAge)
               kk == [k EXCEPT !.left = left, !.age = age]
    <2>1. /\ k \in Call /\ s \in Handler /\ wire[c] \in Seq(Message)
          /\ Places(k, s, wire[c]) /\ Upload(k, s, wire[c], fileSize)
          /\ Deadlined => Clock(k, s)
      BY CallState
    <2>2. CASE ~Active(c)
      <3>1. call'[c] = k
        BY <1>1, <2>2
      <3>2. QED BY <2>1, <3>1 DEF CallInv
    <2>3. CASE Active(c)
      <3>1. call'[c] = kk
        BY <1>1, <2>3
      <3>2. k.left \in Nat \cup {Forever} /\ k.age \in Nat
        BY <2>1, CallTypes
      <3> HIDE DEF k, s
      <3>3. /\ left \in Nat \cup {Forever} /\ age \in Nat /\ age <= k.age + 1
            /\ k.left = 0 => left = 0
            /\ left = Forever <=> k.left = Forever
            /\ k.left # 0 /\ k.left # Forever => left + 1 = k.left
        BY <3>2, ConstantTypes DEF Least, Forever
      <3> HIDE DEF left, age
      <3>4. kk \in Call
        BY <2>1, <3>3 DEF Call
      <3>5. /\ kk.left = left /\ kk.age = age
            /\ kk.touched = k.touched /\ kk.pc = k.pc /\ kk.op = k.op
            /\ kk.oldest = k.oldest /\ kk.batch = k.batch /\ kk.size = k.size
            /\ kk.count = k.count /\ kk.number = k.number /\ kk.pos = k.pos /\ kk.read = k.read
            /\ kk.broken = k.broken /\ kk.result = k.result /\ kk.cancelled = k.cancelled
        BY <2>1 DEF Call
      <3> HIDE DEF kk
      <3>6. Places(kk, s, wire[c])
        BY <2>1, <3>5 DEF Places
      <3>7. k.op = "upload" => Stream(kk, s.state, s.got, wire[c])
        BY <2>1, <3>4, <3>5, StreamKept, HandlerTypes DEF Upload
      <3>8. k.op = "upload" => Sizing(kk, s.state, wire[c], fileSize)
        BY <2>1, <3>5 DEF Upload, Sizing, Progress
      <3>9. Upload(kk, s, wire[c], fileSize)
        BY <3>5, <3>7, <3>8 DEF Upload
      <3>10. Deadlined => Clock(kk, s)
        <4> SUFFICES ASSUME Deadlined PROVE Clock(kk, s)
          OBVIOUS
        <4>1. Timeout(kk) = Timeout(k) /\ Timeout(k) \in Nat
          BY <2>1, <3>5, Timeouts DEF Timeout
        <4>2. Clock(k, s)
          BY <2>1
        <4>3. QED BY <3>2, <3>3, <3>5, <4>1, <4>2 DEF Clock, Forever
      <3>11. QED BY <3>1, <3>4, <3>6, <3>9, <3>10 DEF CallInv, s
    <2>4. QED BY <2>2, <2>3
  <1>3. TypeOK'
    BY <1>1, <1>2 DEF IInv, TypeOK
  <1>4. QED BY <1>1, <1>2, <1>3 DEF IInv, CallInv

-----------------------------------------------------------------------------
(* The invariant holds. *)

LEMMA InitInv == Init => IInv
  <1> SUFFICES ASSUME Init PROVE IInv
    OBVIOUS
  <1>1. NoCall \in Call
    BY DEF NoCall, Call, Operation, PC, Forever
  <1>2. [state |-> "none", got |-> <<>>] \in Handler
    BY DEF Handler
  <1>3. TypeOK
    BY <1>1, <1>2, ConstantTypes DEF Init, TypeOK
  <1>4. ASSUME NEW c \in Calls PROVE CallInv(call[c], service[c], wire[c], fileSize)
    <2>1. /\ call[c] = NoCall /\ service[c].state = "none" /\ service[c].got = <<>>
          /\ wire[c] = <<>>
      BY DEF Init
    <2>2. /\ NoCall.op = "plain" /\ NoCall.pc = "idle" /\ NoCall.oldest = 0
          /\ NoCall.number = 1 /\ NoCall.pos = 0 /\ ~NoCall.broken
          /\ NoCall.result = "none"
      BY DEF NoCall
    <2>3. Places(call[c], service[c], wire[c])
      BY <2>1, <2>2 DEF Places
    <2>4. Upload(call[c], service[c], wire[c], fileSize)
      BY <2>1, <2>2 DEF Upload
    <2>5. Clock(call[c], service[c])
      BY <1>1, <2>1, <2>2, Timeouts DEF Clock
    <2>6. QED BY <2>3, <2>4, <2>5 DEF CallInv
  <1>5. QED BY <1>3, <1>4 DEF IInv

LEMMA NextInv == IInv /\ [Next]_vars => IInv'
  <1> SUFFICES ASSUME IInv, [Next]_vars PROVE IInv'
    OBVIOUS
  <1>1. ASSUME NEW c \in Calls, Begin(c) PROVE IInv'
    BY <1>1, BeginStep
  <1>2. ASSUME NEW c \in Calls, Step(c) PROVE IInv'
    BY <1>2, CommonStep, UploadStep DEF Step
  <1>3. ASSUME NEW c \in Calls, Daemon(c) PROVE IInv'
    BY <1>3, DaemonStep
  <1>4. CASE ChangeFile
    BY <1>4, ChangeFileStep
  <1>5. CASE Tick
    BY <1>5, TickStep
  <1>6. CASE UNCHANGED vars
    BY <1>6 DEF IInv, TypeOK, CallInv, vars
  <1>7. QED BY <1>1, <1>2, <1>3, <1>4, <1>5, <1>6 DEF Next

LEMMA Invariant == Spec => []IInv
  BY InitInv, NextInv, PTL DEF Spec

-----------------------------------------------------------------------------
(* The theorems. *)

\* What a closed stream says of the file.
LEMMA ClosedWhole ==
    ASSUME IInv, NEW c \in Calls, call[c].op = "upload",
           service[c].state \in {"ended", "accepted"}
    PROVE  /\ InOrder(service[c].got)
           /\ Extent(c) = call[c].pos
           /\ Whole(c) \/ Misannounced(c) \/ call[c].broken
  <1> DEFINE k == call[c]
             got == service[c].got
             state == service[c].state
  <1>1. /\ k \in Call /\ got \in Seq(Message) /\ k.number \in Nat /\ k.number > 0
        /\ k.batch \in Nat
        /\ Stream(k, state, got, wire[c]) /\ Sizing(k, state, wire[c], fileSize)
    BY CallState, HandlerTypes, CallTypes DEF Upload, Places
  <1>2. state \in {"ended", "accepted"}
    OBVIOUS
  <1>3. Extent(c) = IF got = <<>> THEN 0 ELSE got[Len(got)].to
    BY DEF Extent
  <1>4. Whole(c) <=> Len(got) = k.count /\ Extent(c) = k.size
    BY DEF Whole
  <1>5. Misannounced(c) <=> k.touched \/ k.batch > MaxRead
    BY DEF Misannounced
  <1> HIDE DEF k, got, state
  <1>6. /\ InOrder(got) /\ Len(got) = k.number - 1
        /\ k.pos = IF k.number = 1 THEN 0 ELSE got[k.number - 1].to
    BY <1>1, <1>2 DEF Stream
  <1>7. got = <<>> <=> k.number = 1
    <2>1. got = <<>> <=> Len(got) = 0
      BY <1>1, EmptySeq
    <2>2. k.number - 1 = 0 <=> k.number = 1
      BY <1>1
    <2>3. QED BY <1>6, <2>1, <2>2
  <1>8. Extent(c) = k.pos
    BY <1>3, <1>6, <1>7
  <1>9. ASSUME ~Misannounced(c), ~k.broken PROVE Whole(c)
    <2>1. ~k.touched /\ k.batch <= MaxRead
      BY <1>1, <1>5, <1>9, ConstantTypes
    <2>2. Closed(state, wire[c])
      BY <1>2 DEF Closed
    <2>3. Progress(k, fileSize) /\ k.pos = k.size
      BY <1>1, <1>9, <2>1, <2>2 DEF Sizing
    <2>4. k.number - 1 = k.count
      BY <2>3 DEF Progress
    <2>5. QED BY <1>4, <1>6, <1>8, <2>3, <2>4
  <1>10. QED BY <1>6, <1>8, <1>9 DEF got, k

\* UploadAndValidate returns nil only if the daemon has accepted, in order, all
\* that was read, and that is the whole announced file unless it changed or its
\* batches are longer than a read: for any file and batch size, however the
\* handler, the window, the deadline and other programs interleave.
THEOREM UploadReturnsComplete == Spec => []UploadComplete
  <1>1. IInv => UploadComplete
    <2> SUFFICES ASSUME IInv, NEW c \in Calls, call[c].op = "upload", call[c].result = "ok"
                 PROVE  /\ service[c].state = "accepted"
                        /\ InOrder(service[c].got)
                        /\ Extent(c) = call[c].pos
                        /\ Whole(c) \/ Misannounced(c)
      BY DEF UploadComplete
    <2>1. service[c].state = "accepted" /\ ~call[c].broken
      BY CallState DEF Places
    <2>2. QED BY <2>1, ClosedWhole
  <1>2. QED BY <1>1, Invariant, PTL

\* The daemon takes an upload for finished only if it has the whole file, unless
\* the file changed, its batches are too long or a read failed; and it never
\* gets more batches than were announced.
THEOREM AcceptedIsWhole == Spec => []AcceptedWhole
  <1>1. IInv => AcceptedWhole
    <2> SUFFICES ASSUME IInv, NEW c \in Calls, call[c].op = "upload"
                 PROVE  /\ service[c].state \in {"ended", "accepted"} =>
                             Whole(c) \/ Misannounced(c) \/ call[c].broken
                        /\ Len(service[c].got) <= call[c].count \/ Misannounced(c)
      BY DEF AcceptedWhole
    <2> DEFINE k == call[c]
               s == service[c]
               got == s.got
               n == Len(got)
    <2>1. /\ k \in Call /\ got \in Seq(Message) /\ k.number \in Nat /\ k.number > 0
          /\ k.batch \in Nat /\ k.count \in Nat /\ n \in Nat /\ k.pos \in Nat /\ k.size \in Nat
          /\ Stream(k, s.state, got, wire[c]) /\ Sizing(k, s.state, wire[c], fileSize)
          /\ Places(k, s, wire[c])
      BY CallState, HandlerTypes, CallTypes DEF Upload, Places
    <2>2. wire[c] \in Seq(Message)
      BY CallState
    <2>3. n < k.number
      <3>1. CASE s.state # "serving"
        BY <2>1, <3>1 DEF Stream
      <3>2. CASE s.state = "serving"
        <4> DEFINE l == Len(wire[c])
        <4>1. l \in Nat /\ (Closed(s.state, wire[c]) => l > 0)
          BY <2>2, <3>2, EmptySeq DEF Closed
        <4>2. n + l = IF Closed(s.state, wire[c]) THEN k.number ELSE k.number - 1
          BY <2>1, <3>2 DEF Stream
        <4>3. n \in Nat /\ k.number \in Nat
          BY <2>1
        <4> HIDE DEF l, n
        <4>4. CASE Closed(s.state, wire[c])
          BY <4>1, <4>2, <4>3, <4>4
        <4>5. CASE ~Closed(s.state, wire[c])
          BY <4>1, <4>2, <4>3, <4>5
        <4>6. QED BY <4>4, <4>5
      <3>3. QED BY <3>1, <3>2
    <2>4. ASSUME ~Misannounced(c) PROVE n <= k.count
      <3>1. Progress(k, fileSize)
        BY <2>1, <2>4, ConstantTypes DEF Misannounced, Sizing
      <3>2. k.number - 1 <= k.count
        BY <2>1, <3>1 DEF Progress
      <3>3. n \in Nat /\ k.number \in Nat /\ k.count \in Nat
        BY <2>1
      <3> HIDE DEF n
      <3>4. QED BY <2>3, <3>2, <3>3
    <2>5. QED BY <2>4, ClosedWhole
  <1>2. QED BY <1>1, Invariant, PTL

\* With both timeouts set, as the SDK sets them by default, no request or batch
\* carries a signature older than its call's timeout, whatever the timeouts are:
\* what is left of the deadline and the age of the signature never add up to more.
THEOREM SignaturesAreFresh == Deadlined => (Spec => []SignatureFresh)
  <1> SUFFICES ASSUME Deadlined PROVE Spec => []SignatureFresh
    OBVIOUS
  <1>1. IInv => SignatureFresh
    BY CallState DEF SignatureFresh, Clock, Timeout
  <1>2. QED BY <1>1, Invariant, PTL

\* With both timeouts set, a call that has returned was answered or has
\* cancelled its stream, on every path of return.
THEOREM NoStreamIsLeft == Deadlined => (Spec => []NoStreamLeft)
  <1> SUFFICES ASSUME Deadlined PROVE Spec => []NoStreamLeft
    OBVIOUS
  <1>1. IInv => NoStreamLeft
    BY CallState DEF NoStreamLeft, Clock
  <1>2. QED BY <1>1, Invariant, PTL
================================================================================
