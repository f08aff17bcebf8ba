-------------------------- MODULE ServiceClientsProofs --------------------------
(***************************************************************************)
(* The invariants of ServiceClients, for any number of goroutines and      *)
(* connections and whatever archives are in storage.                       *)
(*                                                                         *)
(* What the loops compute comes first: the status a health check makes of  *)
(* its frames, the last text under each name of an archive, the first      *)
(* place of a method in files in any order.  Then the inductive invariant  *)
(* IInv, with ConnectionsAccounted in it: a client that was closed has no  *)
(* open connection, so that the one that replaces it loses none.  Last     *)
(* what operations give: every step sets it, so that the properties of     *)
(* results follow from the state the step begins in.                       *)
(***************************************************************************)
EXTENDS ServiceClients, Integers, FiniteSetTheorems, WellFoundedInduction, TLAPS

-----------------------------------------------------------------------------
(* Induction, as a fact about sets of numbers. *)

Smaller == {p \in Nat \X Nat : p[1] < p[2]}

\* A set of naturals that is not empty has a least element.
LEMMA Least ==
    ASSUME NEW T \in SUBSET Nat, T # {}
    PROVE  \E x \in T : \A y \in T : x <= y
  <1>1. OpToRel(<, Nat) = Smaller
    BY DEF OpToRel, Smaller
  <1>2. IsWellFoundedOn(Smaller, Nat)
    BY <1>1, NatLessThanWellFounded
  <1>3. PICK x \in T : \A y \in T : ~(<<y, x>> \in Smaller)
    BY <1>2, WFMin
  <1>4. ASSUME NEW y \in T PROVE x <= y
    <2>1. x \in Nat /\ y \in Nat
      OBVIOUS
    <2>2. y < x => <<y, x>> \in Smaller
      BY <2>1 DEF Smaller
    <2>3. QED
      BY <1>3, <2>1, <2>2
  <1>5. QED
    BY <1>4

\* So has one that is bounded a greatest.
LEMMA Greatest ==
    ASSUME NEW n \in Nat, NEW T \in SUBSET (1..n), T # {}
    PROVE  \E x \in T : \A y \in T : y <= x
  <1> DEFINE U == {n - y : y \in T}
  <1>1. U \in SUBSET Nat /\ U # {}
    <2>1. \A y \in 1..n : n - y \in Nat
      OBVIOUS
    <2>2. PICK y \in T : TRUE
      OBVIOUS
    <2>3. QED
      BY <2>1, <2>2
  <1> HIDE DEF U
  <1>2. PICK u \in U : \A v \in U : u <= v
    BY <1>1, Least
  <1>3. PICK x \in T : u = n - x
    BY DEF U
  <1>4. ASSUME NEW y \in T PROVE y <= x
    <2>1. n - y \in U
      BY DEF U
    <2>2. QED
      BY <1>2, <1>3, <2>1
  <1>5. QED
    BY <1>4

\* What holds of 0 and of the successor of each number it holds of.
LEMMA Induction ==
    ASSUME NEW S, 0 \in S, \A n \in Nat : n \in S => n + 1 \in S
    PROVE  \A n \in Nat : n \in S
  <1> DEFINE T == {n \in Nat : n \notin S}
  <1> SUFFICES ASSUME T # {} PROVE FALSE
    OBVIOUS
  <1>1. PICK x \in T : \A y \in T : x <= y
    BY Least
  <1>2. x \in Nat /\ x \notin S /\ x # 0
    OBVIOUS
  <1>3. x - 1 \in Nat /\ x - 1 \notin T
    BY <1>1, <1>2
  <1>4. x - 1 \in S
    BY <1>3
  <1>5. QED
    BY <1>2, <1>3, <1>4

-----------------------------------------------------------------------------
(* The status in a gRPC-Web answer. *)

\* The loop of WebGRPC is what its recursion says it is.
LEMMA StatusUnfolds ==
    ASSUME NEW frames \in Seq(Frame)
    PROVE  \A k \in 0..Len(frames) :
               StatusAfter(frames)[k] =
                   IF k = 0 THEN "UNKNOWN"
                   ELSE TakeFrame(StatusAfter(frames)[k - 1], frames[k])
  <1> DEFINE n == Len(frames)
             Loop(g, m) == g = [k \in 0..m |-> IF k = 0 THEN "UNKNOWN"
                                               ELSE TakeFrame(g[k - 1], frames[k])]
             S == {m \in Nat : \E g : Loop(g, m)}
  <1>1. n \in Nat
    OBVIOUS
  <1>2. 0 \in S
    <2> DEFINE g == [k \in 0..0 |-> "UNKNOWN"]
    <2>1. Loop(g, 0)
      OBVIOUS
    <2>2. QED
      BY <2>1
  <1>3. ASSUME NEW m \in Nat, m \in S PROVE m + 1 \in S
    <2>1. PICK g : Loop(g, m)
      BY <1>3
    <2> DEFINE h == [k \in 0..(m + 1) |-> IF k = m + 1 THEN TakeFrame(g[m], frames[m + 1])
                                           ELSE g[k]]
    <2>2. \A k \in 0..m : g[k] = IF k = 0 THEN "UNKNOWN" ELSE TakeFrame(g[k - 1], frames[k])
      BY <2>1
    <2>3. \A k \in 0..(m + 1) :
             h[k] = IF k = 0 THEN "UNKNOWN" ELSE TakeFrame(h[k - 1], frames[k])
      <3> SUFFICES ASSUME NEW k \in 0..(m + 1)
                   PROVE  h[k] = IF k = 0 THEN "UNKNOWN" ELSE TakeFrame(h[k - 1], frames[k])
        OBVIOUS
      <3>1. CASE k = m + 1
        <4>1. h[k] = TakeFrame(g[m], frames[m + 1]) /\ h[k - 1] = g[m] /\ k # 0
          BY <3>1
        <4>2. QED
          BY <3>1, <4>1
      <3>2. CASE k \in 0..m
        <4>1. h[k] = g[k] /\ (k # 0 => h[k - 1] = g[k - 1])
          BY <3>2
        <4>2. QED
          BY <2>2, <3>2, <4>1
      <3>3. QED
        BY <3>1, <3>2
    <2>4. Loop(h, m + 1)
      BY <2>3
    <2>5. m + 1 \in Nat
      OBVIOUS
    <2> HIDE DEF h, Loop
    <2>6. QED
      BY <2>4, <2>5
  <1>4. \A m \in Nat : m \in S
    <2> HIDE DEF S
    <2>1. QED
      BY <1>2, <1>3, Induction
  <1>5. \E g : Loop(g, n)
    BY <1>1, <1>4
  <1>6. Loop(StatusAfter(frames), n)
    BY <1>5 DEF StatusAfter
  <1>7. QED
    BY <1>6

Readable(frame) == frame.trailers \/ frame.payload # Garbled

\* After k frames it is the payload of the last message, or an error if one of
\* the messages cannot be decoded.
StatusOf(frames, k, status) ==
    IF \E i \in 1..k : ~Readable(frames[i]) THEN status = "error"
    ELSE \/ status = "UNKNOWN" /\ \A j \in 1..k : frames[j].trailers
         \/ \E i \in 1..k : /\ ~frames[i].trailers /\ status = frames[i].payload
                            /\ \A j \in 1..k : ~frames[j].trailers => j <= i

LEMMA StatusIsLast ==
    ASSUME NEW frames \in Seq(Frame)
    PROVE  \A k \in 0..Len(frames) : StatusOf(frames, k, StatusAfter(frames)[k])
  <1> DEFINE after == StatusAfter(frames)
             n == Len(frames)
             S == {k \in Nat : k <= n => StatusOf(frames, k, after[k])}
  <1>1. n \in Nat /\ \A i \in 1..n : frames[i] \in Frame
    OBVIOUS
  <1>2. /\ after[0] = "UNKNOWN"
        /\ \A k \in Nat : k + 1 <= n => after[k + 1] = TakeFrame(after[k], frames[k + 1])
    BY <1>1, StatusUnfolds
  <1> HIDE DEF after, n
  <1>3. 0 \in S
    BY <1>2 DEF StatusOf
  <1>4. ASSUME NEW k \in Nat, k \in S PROVE k + 1 \in S
    <2> SUFFICES ASSUME k + 1 <= n PROVE StatusOf(frames, k + 1, after[k + 1])
      OBVIOUS
    <2> DEFINE frame == frames[k + 1]
               before == after[k]
    <2>1. StatusOf(frames, k, before) /\ after[k + 1] = TakeFrame(before, frame)
      BY <1>1, <1>2, <1>4
    <2>2. \A i : i \in 1..(k + 1) <=> i \in 1..k \/ i = k + 1
      OBVIOUS
    <2>3. /\ frame.trailers \in BOOLEAN /\ frame.payload \in Status \cup {Garbled}
          /\ \A i \in 1..k : frames[i].payload \in Status \cup {Garbled}
                             /\ frames[i].trailers \in BOOLEAN /\ i < k + 1
      BY <1>1 DEF Frame
    <2>4. /\ Garbled \notin Status /\ "error" \notin Status /\ "error" # Garbled
      BY DEF Status, Garbled
    <2>5. (\E i \in 1..k : ~Readable(frames[i])) <=> before = "error"
      BY <2>1, <2>3, <2>4 DEF StatusOf, Readable
    <2> HIDE DEF frame, before
    <2>6. CASE \E i \in 1..k : ~Readable(frames[i])
      BY <2>1, <2>2, <2>5, <2>6 DEF StatusOf, TakeFrame
    <2>7. CASE (\A i \in 1..k : Readable(frames[i])) /\ frame.trailers
      <3>1. after[k + 1] = before /\ \A i \in 1..(k + 1) : Readable(frames[i])
        BY <2>1, <2>2, <2>5, <2>7 DEF TakeFrame, Readable, frame
      <3>2. \/ before = "UNKNOWN" /\ \A j \in 1..k : frames[j].trailers
            \/ \E i \in 1..k : /\ ~frames[i].trailers /\ before = frames[i].payload
                               /\ \A j \in 1..k : ~frames[j].trailers => j <= i
        BY <2>1, <2>7 DEF StatusOf
      <3>3. QED
        BY <2>2, <2>7, <3>1, <3>2 DEF StatusOf, frame
    <2>8. CASE (\A i \in 1..k : Readable(frames[i])) /\ ~frame.trailers
      <3>1. after[k + 1] = IF frame.payload = Garbled THEN "error" ELSE frame.payload
        BY <2>1, <2>5, <2>8 DEF TakeFrame
      <3>2. CASE frame.payload = Garbled
        <4>1. ~Readable(frames[k + 1]) /\ k + 1 \in 1..(k + 1)
          BY <2>8, <3>2 DEF Readable, frame
        <4>2. QED
          BY <3>1, <3>2, <4>1 DEF StatusOf
      <3>3. CASE frame.payload # Garbled
        <4>1. \A i \in 1..(k + 1) : Readable(frames[i])
          BY <2>2, <2>8, <3>3 DEF Readable, frame
        <4>2. \A j \in 1..(k + 1) : j <= k + 1
          OBVIOUS
        <4>3. QED
          BY <2>8, <3>1, <3>3, <4>1, <4>2 DEF StatusOf, frame
      <3>4. QED
        BY <3>2, <3>3
    <2>9. QED
      BY <2>3, <2>6, <2>7, <2>8
  <1>5. \A k \in Nat : k \in S
    <2> HIDE DEF S
    <2>1. QED
      BY <1>3, <1>4, Induction
  <1>6. QED
    BY <1>1, <1>5 DEF after, n

\* What a health check over gRPC-Web can report, by reference to its answer.
LEMMA WebIsHonest ==
    ASSUME NEW body \in [frames : Seq(Frame), rest : Rest], NEW got \in WebGRPC(body)
    PROVE  CASE got = "error" -> ~Decodable(body)
             [] got = "panic" -> body.rest = "header"
             [] OTHER -> Decodable(body) /\ got = LastMessage(body)
  <1> DEFINE frames == body.frames
             n == Len(frames)
             parsed == StatusAfter(frames)[n]
  <1>1. frames \in Seq(Frame) /\ n \in Nat /\ \A i \in 1..n : frames[i] \in Frame
    OBVIOUS
  <1>2. StatusOf(frames, n, parsed)
    BY <1>1, StatusIsLast
  <1>3. \/ got = parsed
        \/ got = "panic" /\ body.rest = "header" /\ parsed # "error"
    BY DEF WebGRPC
  <1>4. Messages(body) = {i \in 1..n : ~frames[i].trailers}
    BY DEF Messages
  <1>5. Decodable(body) <=> \A i \in 1..n : Readable(frames[i])
    BY <1>4 DEF Decodable, Readable
  <1>6. LastMessage(body) =
          IF Messages(body) = {} THEN "UNKNOWN"
          ELSE frames[CHOOSE i \in Messages(body) : \A j \in Messages(body) : j <= i].payload
    BY DEF LastMessage
  <1>7. \A i \in 1..n : frames[i].payload \in Status \cup {Garbled}
    BY <1>1 DEF Frame
  <1> HIDE DEF frames, n, parsed
  <1>8. CASE ~Decodable(body)
    <2>1. parsed = "error"
      BY <1>2, <1>5, <1>8 DEF StatusOf
    <2>2. QED
      BY <1>3, <1>8, <2>1
  <1>9. CASE Decodable(body)
    <2>1. parsed = LastMessage(body) /\ parsed \in Status
      <3>1. CASE Messages(body) = {}
        <4>1. parsed = "UNKNOWN"
          BY <1>2, <1>4, <1>5, <1>9, <3>1 DEF StatusOf
        <4>2. QED
          BY <1>6, <3>1, <4>1 DEF Status
      <3>2. CASE Messages(body) # {}
        <4>1. PICK i \in Messages(body) : parsed = frames[i].payload
                                          /\ \A j \in Messages(body) : j <= i
          BY <1>2, <1>4, <1>5, <1>9, <3>2 DEF StatusOf
        <4>2. \A i1, i2 \in Messages(body) : i1 <= i2 /\ i2 <= i1 => i1 = i2
          <5>1. \A i1, i2 \in Int : i1 <= i2 /\ i2 <= i1 => i1 = i2
            OBVIOUS
          <5>2. QED
            BY <1>4, <5>1
        <4>3. (CHOOSE i1 \in Messages(body) : \A j \in Messages(body) : j <= i1) = i
          BY <4>1, <4>2
        <4>4. parsed \in Status
          BY <1>4, <1>5, <1>7, <1>9, <4>1 DEF Readable
        <4>5. QED
          BY <1>6, <3>2, <4>1, <4>3, <4>4
      <3>3. QED
        BY <3>1, <3>2
    <2>2. "error" \notin Status /\ "panic" \notin Status
      BY DEF Status
    <2>3. QED
      BY <1>3, <1>9, <2>1, <2>2
  <1>10. QED
    BY <1>8, <1>9

-----------------------------------------------------------------------------
(* The files of a service. *)

\* What is in the map of files has a text.
IsBundle(protos) == \A name \in DOMAIN protos : protos[name] \in Text

LEMMA TextFacts ==
    ASSUME NEW text \in Text
    PROVE  /\ Len(text.services) \in Nat
           /\ \A i \in 1..Len(text.services) : text.services[i].name \in STRING
           /\ text.package \in STRING
  <1> DEFINE Service == [name : STRING, methods : SUBSET STRING]
  <1>1. text.services \in Seq(Service) /\ text.package \in STRING
    BY DEF Text
  <1>2. \A s \in Service : s.name \in STRING
    OBVIOUS
  <1> HIDE DEF Service
  <1>3. \A i \in 1..Len(text.services) : text.services[i] \in Service
    BY <1>1
  <1>4. Len(text.services) \in Nat
    BY <1>1
  <1>5. QED
    BY <1>1, <1>2, <1>3, <1>4

\* An archive gives each name the last text it has there.
LEMMA LastWins ==
    ASSUME NEW archive \in Archive, NEW name,
           name \in {archive.entries[i].name : i \in ProtoEntries(archive)}
    PROVE  /\ Latest(archive, name) \in ProtoEntries(archive)
           /\ archive.entries[Latest(archive, name)].name = name
           /\ \A j \in ProtoEntries(archive) :
                  archive.entries[j].name = name => j <= Latest(archive, name)
  <1> DEFINE n == Len(archive.entries)
             T == {i \in ProtoEntries(archive) : archive.entries[i].name = name}
  <1>1. n \in Nat
    BY DEF Archive
  <1>2. T \subseteq 1..n /\ T # {}
    BY DEF ProtoEntries
  <1> HIDE DEF n
  <1>3. PICK x \in T : \A y \in T : y <= x
    <2> HIDE DEF T
    <2>1. QED
      BY <1>1, <1>2, Greatest
  <1>4. QED
    BY <1>3 DEF Latest

LEMMA EntryFacts ==
    ASSUME NEW archive \in Archive, NEW i \in ProtoEntries(archive)
    PROVE  /\ i \in 1..Len(archive.entries)
           /\ archive.entries[i] \in Entry
           /\ archive.entries[i].name \in STRING /\ archive.entries[i].text \in Text
  <1>1. archive.entries \in Seq(Entry)
    BY DEF Archive
  <1>2. i \in 1..Len(archive.entries)
    BY DEF ProtoEntries
  <1>3. archive.entries[i] \in Entry
    BY <1>1, <1>2
  <1>4. QED
    BY <1>2, <1>3 DEF Entry

\* The files an archive holds are what the properties say the service registered.
LEMMA FilesAreRegistered ==
    ASSUME NEW hash \in Hashes
    PROVE  /\ IsBundle(ParseProtoFiles(Stored[hash]))
           /\ \A e \in Registered[hash] :
                 /\ e.name \in DOMAIN ParseProtoFiles(Stored[hash])
                 /\ ParseProtoFiles(Stored[hash])[e.name] = e.text
           /\ \A name \in DOMAIN ParseProtoFiles(Stored[hash]) :
                 /\ name # ""
                 /\ \E e \in Registered[hash] :
                       e.name = name /\ e.text = ParseProtoFiles(Stored[hash])[name]
  <1> DEFINE archive == Stored[hash]
             E == ProtoEntries(archive)
             names == {archive.entries[i].name : i \in E}
             files == ParseProtoFiles(archive)
  <1>1. archive \in Archive /\ \A i \in E : archive.entries[i].name # ""
    BY ClientsAssumption
  <1>2. /\ DOMAIN files = names
        /\ \A name \in names : files[name] = archive.entries[Latest(archive, name)].text
    BY DEF ParseProtoFiles
  <1>3. \A i \in E : archive.entries[i].text \in Text
    BY <1>1, EntryFacts
  <1>4. \A name \in names :
            /\ Latest(archive, name) \in E
            /\ archive.entries[Latest(archive, name)].name = name
            /\ \A j \in E : archive.entries[j].name = name => j <= Latest(archive, name)
    BY <1>1, LastWins
  <1>5. Registered[hash] =
          {archive.entries[i] : i \in {j \in E : \A k \in E :
              archive.entries[k].name = archive.entries[j].name => k <= j}}
    BY DEF Registered
  <1>6. \A i \in E : i \in Int
    BY DEF ProtoEntries
  <1> HIDE DEF archive, E, files
  <1>7. IsBundle(files)
    BY <1>2, <1>3, <1>4 DEF IsBundle
  <1>8. ASSUME NEW e \in Registered[hash]
        PROVE  e.name \in DOMAIN files /\ files[e.name] = e.text
    <2>1. PICK j \in E : /\ e = archive.entries[j]
                         /\ \A k \in E : archive.entries[k].name = archive.entries[j].name => k <= j
      BY <1>5
    <2>2. e.name \in names
      BY <2>1
    <2>3. Latest(archive, e.name) = j
      <3>1. Latest(archive, e.name) <= j /\ j <= Latest(archive, e.name)
        BY <1>4, <2>1, <2>2
      <3>2. Latest(archive, e.name) \in Int /\ j \in Int
        BY <1>4, <1>6, <2>2
      <3>3. QED
        BY <3>1, <3>2
    <2>4. QED
      BY <1>2, <2>1, <2>2, <2>3
  <1>9. ASSUME NEW name \in DOMAIN files
        PROVE  name # "" /\ \E e \in Registered[hash] : e.name = name /\ e.text = files[name]
    <2>1. name \in names
      BY <1>2
    <2> DEFINE i == Latest(archive, name)
    <2>2. archive.entries[i] \in Registered[hash]
      BY <1>4, <1>5, <2>1
    <2>3. QED
      BY <1>1, <1>2, <1>4, <2>1, <2>2
  <1>10. QED
    BY <1>7, <1>8, <1>9 DEF files, archive

\* There are finitely many of them.
LEMMA FilesFinite ==
    ASSUME NEW hash \in Hashes
    PROVE  IsFiniteSet(DOMAIN ParseProtoFiles(Stored[hash]))
  <1> DEFINE archive == Stored[hash]
             E == ProtoEntries(archive)
             names == {archive.entries[i].name : i \in E}
             f == [i \in E |-> archive.entries[i].name]
  <1>1. archive \in Archive
    BY ClientsAssumption
  <1>2. E \subseteq 1..Len(archive.entries) /\ Len(archive.entries) \in Nat
    BY <1>1 DEF ProtoEntries, Archive
  <1>3. IsFiniteSet(E)
    <2> HIDE DEF E
    <2>1. E \in SUBSET (1..Len(archive.entries)) /\ 1 \in Int /\ Len(archive.entries) \in Int
      BY <1>2
    <2> HIDE DEF archive
    <2>2. QED
      BY <2>1, FS_Interval, FS_Subset
  <1>4. f \in Surjection(E, names)
    BY DEF Surjection
  <1>5. DOMAIN ParseProtoFiles(archive) = names
    BY DEF ParseProtoFiles
  <1> HIDE DEF f, names, E
  <1>6. IsFiniteSet(names)
    BY <1>3, <1>4, FS_Surjection
  <1>7. QED
    BY <1>5, <1>6

-----------------------------------------------------------------------------
(* Where a method is found. *)

\* Pairs of numbers have a first one in the order in which FindMethod searches.
LEMMA FirstPlace ==
    ASSUME NEW P \in SUBSET (Nat \X Nat), P # {}
    PROVE  (CHOOSE p \in P : \A q \in P : p[1] < q[1] \/ (p[1] = q[1] /\ p[2] <= q[2])) \in P
  <1> DEFINE I == {p[1] : p \in P}
  <1>1. I \in SUBSET Nat /\ I # {}
    OBVIOUS
  <1>2. PICK i \in I : \A i1 \in I : i <= i1
    <2> HIDE DEF I
    <2>1. QED
      BY <1>1, Least
  <1> DEFINE J == {p[2] : p \in {q \in P : q[1] = i}}
  <1>3. J \in SUBSET Nat /\ J # {}
    OBVIOUS
  <1>4. PICK j \in J : \A j1 \in J : j <= j1
    <2> HIDE DEF J
    <2>1. QED
      BY <1>3, Least
  <1>5. PICK p \in P : p[1] = i /\ p[2] = j
    BY <1>4
  <1>6. ASSUME NEW q \in P PROVE p[1] < q[1] \/ (p[1] = q[1] /\ p[2] <= q[2])
    <2>1. q[1] \in I /\ q[1] \in Nat /\ i \in Nat
      BY <1>1
    <2>2. i <= q[1]
      BY <1>2, <2>1
    <2>3. CASE i = q[1]
      BY <1>4, <1>5, <2>3
    <2>4. QED
      BY <1>5, <2>1, <2>2, <2>3
  <1>7. QED
    BY <1>5, <1>6

\* The map gives every file, whatever the order.
LEMMA OrderIsOnto ==
    ASSUME NEW protos, IsFiniteSet(DOMAIN protos), NEW order \in Orders(protos)
    PROVE  /\ Cardinality(DOMAIN protos) \in Nat
           /\ order \in [1..Cardinality(DOMAIN protos) -> DOMAIN protos]
           /\ \A name \in DOMAIN protos :
                  \E i \in 1..Cardinality(DOMAIN protos) : order[i] = name
  <1> DEFINE D == DOMAIN protos
             n == Cardinality(D)
  <1>1. n \in Nat
    BY FS_CardinalityType
  <1>2. order \in [1..n -> D] /\ \A i, j \in 1..n : order[i] = order[j] => i = j
    BY DEF Orders
  <1> HIDE DEF D, n
  <1>3. order \in Injection(1..n, D)
    BY <1>2 DEF Injection, IsInjective
  <1>4. Cardinality(1..n) = n
    <2>1. 1 \in Int /\ n \in Int /\ n - 1 + 1 = n /\ (1 > n => n = 0)
      BY <1>1
    <2>2. QED
      BY <2>1, FS_Interval
  <1>5. IsFiniteSet(D)
    BY DEF D
  <1>6. order \in Surjection(1..n, D)
    BY <1>3, <1>4, <1>5, FS_Injection DEF n
  <1>7. \A name \in D : \E i \in 1..n : order[i] = name
    BY <1>6 DEF Surjection
  <1>8. QED
    BY <1>1, <1>2, <1>7 DEF n, D

\* The places of a method in a list of n files are where the files declare it.
LEMMA PlacesDeclare ==
    ASSUME NEW n \in Nat, NEW D, NEW order \in [1..n -> D], NEW protos,
           \A name \in D : protos[name] \in Text, NEW method
    PROVE  /\ Places(protos, order, method) \in SUBSET (Nat \X Nat)
           /\ \A p \in Places(protos, order, method) :
                  p[1] \in 1..n /\ Offers(protos[order[p[1]]], method)
           /\ \A i \in 1..n : Offers(protos[order[i]], method) =>
                  Places(protos, order, method) # {}
  <1> DEFINE J(i) == {k \in 1..Len(protos[order[i]].services) :
                         method \in protos[order[i]].services[k].methods}
             P == UNION {{<<i, j>> : j \in J(i)} : i \in 1..n}
  <1>1. Len(order) = n
    OBVIOUS
  <1>2. Places(protos, order, method) = P
    BY <1>1 DEF Places
  <1>3. \A i \in 1..n : i \in Nat /\ order[i] \in D /\ J(i) \subseteq Nat
    <2>1. ASSUME NEW i \in 1..n PROVE i \in Nat /\ order[i] \in D
      OBVIOUS
    <2>2. ASSUME NEW i \in 1..n PROVE J(i) \subseteq Nat
      <3>1. Len(protos[order[i]].services) \in Nat
        BY <2>1, TextFacts
      <3> DEFINE l == Len(protos[order[i]].services)
                 T == {k \in 1..l : method \in protos[order[i]].services[k].methods}
      <3> HIDE DEF l
      <3>2. T \subseteq Nat
        BY <3>1 DEF l
      <3>3. QED
        BY <3>2 DEF l
    <2>3. QED
      BY <2>1, <2>2
  <1>4. \A i : J(i) # {} <=> Offers(protos[order[i]], method)
    BY DEF Offers
  <1> HIDE DEF J
  <1>5. \A p : p \in P <=> \E i \in 1..n : \E j \in J(i) : p = <<i, j>>
    OBVIOUS
  <1> HIDE DEF P
  <1>6. P \in SUBSET (Nat \X Nat)
    BY <1>3, <1>5
  <1>7. \A p \in P : p[1] \in 1..n /\ Offers(protos[order[p[1]]], method)
    BY <1>4, <1>5
  <1>8. \A i \in 1..n : Offers(protos[order[i]], method) => P # {}
    BY <1>4, <1>5
  <1>9. QED
    BY <1>2, <1>6, <1>7, <1>8

\* FindMethod finds a method if a file declares it, in a file that does.
Found(protos, method, place) ==
    IF \E name \in DOMAIN protos : Offers(protos[name], method)
    THEN /\ place.file \in DOMAIN protos
         /\ Offers(protos[place.file], method)
         /\ place # NoMethod
    ELSE place = NoMethod

LEMMA MethodIsFound ==
    ASSUME NEW protos, IsBundle(protos), IsFiniteSet(DOMAIN protos), "" \notin DOMAIN protos,
           NEW order \in Orders(protos), NEW method
    PROVE  Found(protos, method, FindMethod(protos, order, method))
  <1> DEFINE D == DOMAIN protos
             n == Cardinality(D)
             P == Places(protos, order, method)
             first == CHOOSE p \in P : \A q \in P : p[1] < q[1] \/ (p[1] = q[1] /\ p[2] <= q[2])
  <1>1. /\ n \in Nat /\ order \in [1..n -> D]
        /\ \A name \in D : \E i \in 1..n : order[i] = name
    BY OrderIsOnto
  <1>2. FindMethod(protos, order, method) =
           IF P = {} THEN NoMethod
           ELSE [file    |-> order[first[1]],
                 service |-> protos[order[first[1]]].services[first[2]].name]
    BY DEF FindMethod
  <1>3. \A name \in D : protos[name] \in Text
    BY DEF IsBundle
  <1> HIDE DEF n, D
  <1>4. /\ P \in SUBSET (Nat \X Nat)
        /\ \A p \in P : p[1] \in 1..n /\ Offers(protos[order[p[1]]], method)
        /\ \A i \in 1..n : Offers(protos[order[i]], method) => P # {}
    BY <1>1, <1>3, PlacesDeclare
  <1> HIDE DEF P
  <1>5. CASE P = {}
    <2>1. ~ \E name \in D : Offers(protos[name], method)
      BY <1>1, <1>4, <1>5
    <2>2. QED
      BY <1>2, <1>5, <2>1 DEF Found, D
  <1>6. CASE P # {}
    <2>1. first \in P
      BY <1>4, <1>6, FirstPlace
    <2> DEFINE file == order[first[1]]
               service == protos[file].services[first[2]].name
               place == FindMethod(protos, order, method)
    <2>2. place = [file |-> file, service |-> service]
      BY <1>2, <1>6
    <2>3. file \in D /\ Offers(protos[file], method)
      BY <1>1, <1>4, <2>1
    <2> HIDE DEF first, file, service, place
    <2>4. place.file = file /\ NoMethod.file = ""
      BY <2>2 DEF NoMethod
    <2>5. place # NoMethod
      BY <2>3, <2>4 DEF D
    <2>6. Found(protos, method, place)
      BY <2>3, <2>4, <2>5 DEF Found, D
    <2>7. QED
      BY <2>6 DEF place
  <1>7. QED
    BY <1>5, <1>6

\* The files of a client: training.proto is there with the embedded text, and
\* each other one as it was registered; without an archive there is no other.
LEMMA TrainedFiles ==
    ASSUME NEW hash \in Hashes, NEW lossy \in BOOLEAN
    PROVE  LET protos == Protos[hash][lossy][TRUE] IN
           /\ protos = WithTraining(FilesOf(hash, lossy))
           /\ IsBundle(protos) /\ IsFiniteSet(DOMAIN protos) /\ "" \notin DOMAIN protos
           /\ TrainingName \in DOMAIN protos /\ protos[TrainingName] = TrainingText
           /\ ~lossy => \A e \in Registered[hash] :
                 /\ e.name \in DOMAIN protos
                 /\ e.name # TrainingName => protos[e.name] = e.text
           /\ \A name \in DOMAIN protos : name # TrainingName =>
                 \E e \in Registered[hash] : e.name = name /\ e.text = protos[name]
  <1> DEFINE files == FilesOf(hash, lossy)
             protos == WithTraining(files)
  <1>1. Protos[hash][lossy][TRUE] = protos
    BY DEF Protos
  <1>2. /\ IsFiniteSet(DOMAIN files) /\ IsBundle(files) /\ "" \notin DOMAIN files
        /\ lossy => DOMAIN files = {}
        /\ ~lossy => \A e \in Registered[hash] :
                 e.name \in DOMAIN files /\ files[e.name] = e.text
        /\ \A name \in DOMAIN files :
                 \E e \in Registered[hash] : e.name = name /\ e.text = files[name]
    <2>1. CASE lossy
      <3>1. files = <<>> /\ DOMAIN files = {}
        BY <2>1 DEF FilesOf
      <3> HIDE DEF files
      <3>2. QED
        BY <2>1, <3>1, FS_EmptySet DEF IsBundle
    <2>2. CASE ~lossy
      <3>1. files = ParseProtoFiles(Stored[hash])
        BY <2>2 DEF FilesOf
      <3> HIDE DEF files
      <3>2. QED
        BY <2>2, <3>1, FilesAreRegistered, FilesFinite
    <2>3. QED
      BY <2>1, <2>2
  <1> HIDE DEF files
  <1>3. /\ DOMAIN protos = DOMAIN files \cup {TrainingName}
        /\ \A name \in DOMAIN protos :
              protos[name] = IF name = TrainingName THEN TrainingText ELSE files[name]
    BY DEF WithTraining
  <1> HIDE DEF protos
  <1>4. IsFiniteSet(DOMAIN protos)
    <2>1. IsFiniteSet(DOMAIN files \cup {TrainingName})
      BY <1>2, FS_AddElement
    <2>2. QED
      BY <1>3, <2>1
  <1>5. IsBundle(protos)
    BY <1>2, <1>3, BundleAssumption DEF IsBundle
  <1>6. "" \notin DOMAIN protos
    BY <1>2, <1>3 DEF TrainingName
  <1>7. TrainingName \in DOMAIN protos /\ protos[TrainingName] = TrainingText
    BY <1>3
  <1>8. ~lossy => \A e \in Registered[hash] :
                 /\ e.name \in DOMAIN protos
                 /\ e.name # TrainingName => protos[e.name] = e.text
    BY <1>2, <1>3
  <1>9. \A name \in DOMAIN protos : name # TrainingName =>
                 \E e \in Registered[hash] : e.name = name /\ e.text = protos[name]
    BY <1>2, <1>3
  <1>10. QED
    BY <1>1, <1>4, <1>5, <1>6, <1>7, <1>8, <1>9 DEF protos, files

\* The embedded file compiles alone.
LEMMA TrainingCompiles ==
    ASSUME NEW hash \in Hashes
    PROVE  Compiled[hash][TRUE]
  <1>1. Compiled[hash][TRUE] = Compiles(Protos[hash][TRUE][TRUE])
    BY DEF Compiled
  <1>2. Protos[hash][TRUE][TRUE] = WithTraining(<<>>)
    BY TrainedFiles DEF FilesOf
  <1>3. DOMAIN WithTraining(<<>>) = {TrainingName} /\ WithTraining(<<>>)[TrainingName] = TrainingText
    <2>1. DOMAIN <<>> = {}
      OBVIOUS
    <2>2. QED
      BY <2>1 DEF WithTraining
  <1>4. Compiles(WithTraining(<<>>))
    BY <1>3, BundleAssumption DEF Compiles
  <1>5. QED
    BY <1>1, <1>2, <1>4

-----------------------------------------------------------------------------
(* The inductive invariant. *)

\* What FindMethod can have given for the names, and the values of the variables.
Finds == {Unknown} \cup UNION {UNION {Findings[h][l] : l \in BOOLEAN} : h \in Hashes}

Client == [conn : Nat, lossy : BOOLEAN, trained : BOOLEAN, finds : Finds,
           state : {"none", "open", "closed"}, pays : BOOLEAN]

Dialling == [step : {"dial", "redial"}, via : {"core", "organization"}, lossy : BOOLEAN]
Asking   == [step : {"rpc"}, op : {"free", "health"}]
Calling  == [step : {"rpc"}, op : {"call"}, method : Methods,
             place : UNION {{finds[m] : m \in Methods} : finds \in Finds}]
Work     == {Idle} \cup Dialling \cup Asking \cup Calling \cup [step : {"http", "closeEvm"}]

TypeOK ==
    /\ conf \in Conf
    /\ core \in {"none", "ready", "exited"} /\ evm \in {"open", "closed"}
    /\ conns \in Seq({"open", "closed"})
    /\ client \in [Threads -> Client]
    /\ work \in [Threads -> Work]
    /\ built \in Nat /\ faults \in Nat

\* A client that was closed has a closed connection; one that has no connection
\* has a reason; one that has a connection finds the methods of its own files.
ClientOK(c, cs, cf) ==
    /\ c.conn <= Len(cs)
    /\ c.conn # NoConn => /\ c.trained /\ Compiled[cf.archive][c.lossy]
                          /\ c.finds \in Findings[cf.archive][c.lossy]
    /\ c.state = "none" => c.conn = NoConn
    /\ c.state = "closed" /\ c.conn # NoConn => cs[c.conn] = "closed"
    /\ c.state # "none" /\ c.conn = NoConn =>
           ~cf.endpoint.valid \/ ~Compiled[cf.archive][c.lossy]
    /\ c.pays => c.conn # NoConn

\* A client is built where none is open, and a call goes where the client found
\* its method.
WorkOK(w, c) ==
    /\ w \in Dialling => c.state # "open"
    /\ w \in Calling => /\ c.conn # NoConn
                        /\ w.place = c.finds[w.method] /\ w.place # NoMethod

IInv ==
    /\ TypeOK
    /\ \A t \in Threads : ClientOK(client[t], conns, conf)
    /\ \A t \in Threads : WorkOK(work[t], client[t])
    /\ ConnectionsAccounted

-----------------------------------------------------------------------------
(* Facts about the values. *)

LEMMA WorkFacts ==
    ASSUME NEW w \in Work
    PROVE  /\ w.step = "idle" <=> w = Idle
           /\ w.step \in {"dial", "redial"} <=> w \in Dialling
           /\ w.step = "rpc" <=> w \in Asking \cup Calling
           /\ w.step = "rpc" => w \in Calling <=> w.op = "call"
  BY DEF Work, Idle, Dialling, Asking, Calling

\* The connections that are open and that no client holds.
Lost(cs, held) == {c \in DOMAIN cs : cs[c] = "open"} \ held
Held(cl)       == {cl[t].conn : t \in Threads}
Redialling(wk) == {t \in Threads : wk[t].step = "redial"}

LEMMA Accounted ==
    ConnectionsAccounted <=>
        Cardinality(Lost(conns, Held(client))) <= built + Cardinality(Redialling(work))
  BY DEF ConnectionsAccounted, Lost, Held, Redialling

LEMMA AccountedNext ==
    ConnectionsAccounted' <=>
        Cardinality(Lost(conns', Held(client'))) <= built' + Cardinality(Redialling(work'))
  BY DEF ConnectionsAccounted, Lost, Held, Redialling

LEMMA LostFinite ==
    ASSUME NEW cs \in Seq({"open", "closed"}), NEW held
    PROVE  IsFiniteSet(Lost(cs, held)) /\ Cardinality(Lost(cs, held)) \in Nat
  <1> DEFINE n == Len(cs)
  <1>1. n \in Nat /\ Lost(cs, held) \in SUBSET (1..n)
    BY DEF Lost
  <1> HIDE DEF n
  <1>2. 1 \in Int /\ n \in Int
    BY <1>1
  <1>3. IsFiniteSet(1..n)
    BY <1>2, FS_Interval
  <1>4. IsFiniteSet(Lost(cs, held))
    BY <1>1, <1>3, FS_Subset
  <1>5. QED
    BY <1>4, FS_CardinalityType

\* Fewer lost is better.
LEMMA LostLess ==
    ASSUME NEW cs \in Seq({"open", "closed"}), NEW held, NEW ds \in Seq({"open", "closed"}),
           NEW kept, Lost(ds, kept) \subseteq Lost(cs, held)
    PROVE  Cardinality(Lost(ds, kept)) <= Cardinality(Lost(cs, held))
  <1> DEFINE A == Lost(cs, held)
             B == Lost(ds, kept)
  <1>1. IsFiniteSet(A) /\ B \in SUBSET A
    BY LostFinite
  <1> HIDE DEF A, B
  <1>2. Cardinality(B) <= Cardinality(A)
    BY <1>1, FS_Subset
  <1>3. QED
    BY <1>2 DEF A, B

LEMMA RediallingFinite ==
    ASSUME NEW wk
    PROVE  IsFiniteSet(Redialling(wk)) /\ Cardinality(Redialling(wk)) \in Nat
  <1>1. IsFiniteSet(Threads)
    BY ClientsAssumption
  <1>2. Redialling(wk) \in SUBSET Threads
    BY DEF Redialling
  <1>3. IsFiniteSet(Redialling(wk))
    BY <1>1, <1>2, FS_Subset
  <1>4. QED
    BY <1>3, FS_CardinalityType

\* A connection at the end of the list.
LEMMA Appended ==
    ASSUME NEW cs \in Seq({"open", "closed"}), NEW state \in {"open", "closed"}
    PROVE  /\ Append(cs, state) \in Seq({"open", "closed"})
           /\ Len(cs) \in Nat /\ Len(Append(cs, state)) = Len(cs) + 1
           /\ \A c \in 1..Len(cs) : Append(cs, state)[c] = cs[c]
           /\ Append(cs, state)[Len(cs) + 1] = state
           /\ DOMAIN cs = 1..Len(cs)
           /\ DOMAIN Append(cs, state) = 1..(Len(cs) + 1)
           /\ \A c \in 1..(Len(cs) + 1) : c \in 1..Len(cs) \/ c = Len(cs) + 1
  OBVIOUS

\* As connections are made and closed a client that was well stays well.
Grows(cs, ds) ==
    /\ Len(cs) <= Len(ds)
    /\ \A c \in 1..Len(cs) : cs[c] = "closed" => ds[c] = "closed"

LEMMA ClientKeeps ==
    ASSUME NEW c \in Client, NEW cs \in Seq({"open", "closed"}), NEW ds \in Seq({"open", "closed"}),
           NEW cf, ClientOK(c, cs, cf), Grows(cs, ds)
    PROVE  ClientOK(c, ds, cf)
  <1>1. c.conn \in Nat /\ Len(cs) \in Nat /\ Len(ds) \in Nat
    BY DEF Client
  <1>2. c.conn <= Len(cs) /\ Len(cs) <= Len(ds)
    BY DEF ClientOK, Grows
  <1>3. c.conn <= Len(ds) /\ (c.conn # NoConn => c.conn \in 1..Len(cs))
    BY <1>1, <1>2 DEF NoConn
  <1>4. c.state = "closed" /\ c.conn # NoConn => ds[c.conn] = "closed"
    BY <1>3 DEF ClientOK, Grows
  <1>5. QED
    BY <1>3, <1>4 DEF ClientOK

LEMMA GrowsAppend ==
    ASSUME NEW cs \in Seq({"open", "closed"}), NEW state \in {"open", "closed"}
    PROVE  Grows(cs, Append(cs, state))
  BY Appended DEF Grows

\* Without a connection for lack of files: the archive was not lost, for the
\* embedded file compiles alone.
LEMMA FilesClash ==
    ASSUME NEW hash \in Hashes, NEW lossy \in BOOLEAN, ~Compiled[hash][lossy]
    PROVE  ~Compiled[hash][FALSE]
  BY TrainingCompiles

LEMMA FindsFacts ==
    ASSUME NEW hash \in Hashes, NEW lossy \in BOOLEAN
    PROVE  /\ Findings[hash][lossy] \subseteq Finds /\ Unknown \in Finds
           /\ \A finds \in Finds, m \in Methods :
                 finds[m] \in UNION {{f[n] : n \in Methods} : f \in Finds}
           /\ Compiled[hash][lossy] =>
                 Findings[hash][lossy] = FindAll(Protos[hash][lossy][TRUE])
  <1>1. Findings[hash][lossy] \subseteq Finds /\ Unknown \in Finds
    BY DEF Finds
  <1>2. \A finds \in Finds, m \in Methods :
           finds[m] \in UNION {{f[n] : n \in Methods} : f \in Finds}
    OBVIOUS
  <1>3. Compiled[hash][lossy] => Findings[hash][lossy] = FindAll(Protos[hash][lossy][TRUE])
    BY DEF Findings
  <1>4. QED
    BY <1>1, <1>2, <1>3

\* The functions client finds in compiled files find each method where it is.
LEMMA FindingsFind ==
    ASSUME NEW hash \in Hashes, NEW lossy \in BOOLEAN, Compiled[hash][lossy],
           NEW finds \in Findings[hash][lossy], NEW method \in Methods
    PROVE  Found(Protos[hash][lossy][TRUE], method, finds[method])
  <1> DEFINE protos == Protos[hash][lossy][TRUE]
  <1>1. /\ IsBundle(protos) /\ IsFiniteSet(DOMAIN protos) /\ "" \notin DOMAIN protos
    BY TrainedFiles
  <1>2. Findings[hash][lossy] = FindAll(protos)
    BY FindsFacts
  <1> HIDE DEF protos
  <1>3. PICK order \in Orders(protos) : finds = [m \in Methods |-> FindMethod(protos, order, m)]
    BY <1>2 DEF FindAll
  <1>4. finds[method] = FindMethod(protos, order, method)
    BY <1>3
  <1>5. QED
    BY <1>1, <1>4, MethodIsFound DEF protos

-----------------------------------------------------------------------------
(* The initial states. *)

LEMMA InitIInv ==
    ASSUME Init
    PROVE  IInv
  <1>1. conf \in Conf
    BY ClientsAssumption DEF Init
  <1>2. NoClient \in Client /\ Idle \in Work
    BY DEF NoClient, Client, NoConn, Finds, Work
  <1>3. \A t \in Threads : client[t] = NoClient /\ work[t] = Idle
    BY DEF Init
  <1>4. conns = <<>> /\ conns \in Seq({"open", "closed"}) /\ Len(conns) = 0
    BY DEF Init
  <1>5. TypeOK
    <2>1. client \in [Threads -> Client] /\ work \in [Threads -> Work]
      BY <1>2 DEF Init
    <2>2. QED
      BY <1>1, <1>4, <2>1 DEF Init, TypeOK
  <1>6. \A t \in Threads : ClientOK(client[t], conns, conf)
    <2>1. ClientOK(NoClient, conns, conf)
      BY <1>4 DEF ClientOK, NoClient, NoConn
    <2>2. QED
      BY <1>3, <2>1
  <1>7. \A t \in Threads : WorkOK(work[t], client[t])
    <2>1. Idle \notin Dialling /\ Idle \notin Calling
      BY DEF Idle, Dialling, Calling
    <2>2. QED
      BY <1>3, <2>1 DEF WorkOK
  <1>8. ConnectionsAccounted
    <2>1. Lost(conns, Held(client)) = {}
      BY <1>4 DEF Lost
    <2>2. Cardinality(Lost(conns, Held(client))) = 0
      BY <2>1, FS_EmptySet
    <2>3. Cardinality(Redialling(work)) \in Nat /\ built = 0
      BY RediallingFinite DEF Init
    <2>4. QED
      BY <2>2, <2>3, Accounted
  <1>9. QED
    BY <1>5, <1>6, <1>7, <1>8 DEF IInv

-----------------------------------------------------------------------------
(* The steps. *)

\* A step of one goroutine that leaves its client and what it does well, closes
\* or makes connections and keeps them accounted for.
LEMMA ClientStep ==
    ASSUME IInv, NEW t \in Threads, NEW c \in Client, NEW w \in Work,
           client' = [client EXCEPT ![t] = c], work' = [work EXCEPT ![t] = w],
           conns' \in Seq({"open", "closed"}), Grows(conns, conns'),
           ClientOK(c, conns', conf), WorkOK(w, c),
           conf' = conf, core' = core, evm' \in {"open", "closed"},
           built' \in Nat, faults' \in Nat,
           ConnectionsAccounted'
    PROVE  IInv'
  <1>1. TypeOK
    BY DEF IInv
  <1>2. /\ conns \in Seq({"open", "closed"})
        /\ client \in [Threads -> Client] /\ work \in [Threads -> Work]
    BY <1>1 DEF TypeOK
  <1>3. /\ client' \in [Threads -> Client] /\ client'[t] = c
        /\ \A u \in Threads : u # t => client'[u] = client[u]
    BY <1>2
  <1>4. /\ work' \in [Threads -> Work] /\ work'[t] = w
        /\ \A u \in Threads : u # t => work'[u] = work[u]
    BY <1>2
  <1>5. TypeOK'
    BY <1>1, <1>3, <1>4 DEF TypeOK
  <1>6. \A u \in Threads : ClientOK(client'[u], conns', conf')
    <2> SUFFICES ASSUME NEW u \in Threads, u # t PROVE ClientOK(client'[u], conns', conf')
      BY <1>3
    <2>1. client[u] \in Client /\ ClientOK(client[u], conns, conf)
      BY <1>2 DEF IInv
    <2>2. ClientOK(client[u], conns', conf)
      BY <1>2, <2>1, ClientKeeps
    <2>3. QED
      BY <1>3, <2>2
  <1>7. \A u \in Threads : WorkOK(work'[u], client'[u])
    <2>1. \A u \in Threads : WorkOK(work[u], client[u])
      BY DEF IInv
    <2>2. QED
      BY <1>3, <1>4, <2>1
  <1>8. QED
    BY <1>5, <1>6, <1>7 DEF IInv

\* Nothing more is lost, and no less may be.
LEMMA FewerLost ==
    ASSUME IInv, conns' \in Seq({"open", "closed"}),
           Lost(conns', Held(client')) \subseteq Lost(conns, Held(client)),
           built' \in Nat,
           built + Cardinality(Redialling(work)) <= built' + Cardinality(Redialling(work'))
    PROVE  ConnectionsAccounted'
  <1>1. conns \in Seq({"open", "closed"}) /\ built \in Nat
    BY DEF IInv, TypeOK
  <1> DEFINE a == Cardinality(Lost(conns, Held(client)))
             b == Cardinality(Lost(conns', Held(client')))
             r == Cardinality(Redialling(work))
             s == Cardinality(Redialling(work'))
  <1>2. a \in Nat /\ b \in Nat /\ b <= a
    BY <1>1, LostFinite, LostLess
  <1>3. r \in Nat /\ s \in Nat
    BY RediallingFinite
  <1>4. a <= built + r
    BY Accounted DEF IInv
  <1> HIDE DEF a, b, r, s
  <1>5. built + r <= built' + s
    BY DEF r, s
  <1>6. b <= built' + s
    <2>1. \A i, j, k, l, m, n \in Nat : i <= j /\ j <= k + l /\ k + l <= m + n => i <= m + n
      OBVIOUS
    <2>2. built' \in Nat
      OBVIOUS
    <2>3. QED
      BY <1>1, <1>2, <1>3, <1>4, <1>5, <2>1, <2>2
  <1>7. QED
    BY <1>6, AccountedNext DEF b, s

\* A goroutine that was not between its two connections and is not after.
LEMMA RedialsKept ==
    ASSUME IInv, NEW t \in Threads, NEW w, work' = [work EXCEPT ![t] = w],
           work[t].step # "redial", w.step # "redial", built' = built
    PROVE  /\ built' \in Nat
           /\ built + Cardinality(Redialling(work)) <= built' + Cardinality(Redialling(work'))
  <1>1. work \in [Threads -> Work] /\ built \in Nat
    BY DEF IInv, TypeOK
  <1>2. \A u \in Threads : work'[u] = IF u = t THEN w ELSE work[u]
    BY <1>1
  <1>3. Redialling(work') = Redialling(work)
    BY <1>2 DEF Redialling
  <1>4. Cardinality(Redialling(work)) \in Nat
    BY RediallingFinite
  <1>5. QED
    BY <1>1, <1>3, <1>4

\* A step that is about neither connections nor clients.
LEMMA LocalStep ==
    ASSUME IInv, NEW t \in Threads, NEW w \in Work,
           work' = [work EXCEPT ![t] = w], WorkOK(w, client[t]),
           w.step # "redial", work[t].step # "redial",
           conf' = conf, core' = core, conns' = conns, client' = client, built' = built,
           evm' \in {"open", "closed"}, faults' \in Nat
    PROVE  IInv'
  <1>1. /\ conns \in Seq({"open", "closed"}) /\ client \in [Threads -> Client]
        /\ ClientOK(client[t], conns, conf)
    BY DEF IInv, TypeOK
  <1>2. client' = [client EXCEPT ![t] = client[t]] /\ client[t] \in Client
    BY <1>1
  <1>3. Grows(conns, conns')
    <2>1. Len(conns) \in Nat
      BY <1>1
    <2>2. QED
      BY <2>1 DEF Grows
  <1>4. ConnectionsAccounted'
    <2>1. /\ built' \in Nat
          /\ built + Cardinality(Redialling(work)) <= built' + Cardinality(Redialling(work'))
      BY RedialsKept
    <2>2. Lost(conns', Held(client')) = Lost(conns, Held(client))
      BY DEF Lost, Held
    <2>3. QED
      BY <1>1, <2>1, <2>2, FewerLost
  <1>5. built' \in Nat
    BY DEF IInv, TypeOK
  <1>6. QED
    BY <1>1, <1>2, <1>3, <1>4, <1>5, ClientStep

LEMMA RestingWork ==
    ASSUME NEW c
    PROVE  /\ Idle \in Work /\ Idle.step = "idle" /\ WorkOK(Idle, c)
           /\ \A step \in {"http", "closeEvm"} :
                 [step |-> step] \in Work /\ WorkOK([step |-> step], c)
           /\ \A op \in {"free", "health"} :
                 /\ [step |-> "rpc", op |-> op] \in Work
                 /\ WorkOK([step |-> "rpc", op |-> op], c)
  BY DEF Work, Idle, Dialling, Asking, Calling, WorkOK

\* An operation that is over.
LEMMA EndStep ==
    ASSUME IInv, NEW t \in Threads, NEW result, Ends(t, result), work[t].step # "redial",
           conf' = conf, core' = core, conns' = conns, client' = client, built' = built,
           evm' \in {"open", "closed"}, faults' \in Nat
    PROVE  IInv'
  <1>1. work' = [work EXCEPT ![t] = Idle]
    BY DEF Ends
  <1>2. Idle \in Work /\ Idle.step # "redial" /\ WorkOK(Idle, client[t])
    BY RestingWork
  <1>3. QED
    BY <1>1, <1>2, LocalStep

LEMMA ReadsFacts ==
    ASSUME IInv, NEW ok \in BOOLEAN, Reads(ok)
    PROVE  /\ faults' \in Nat
           /\ ~ok => faults' > 0 \/ (evm = "closed" /\ conf.rpc = "ws")
  BY DEF IInv, TypeOK, Reads

LEMMA StateFacts ==
    ASSUME IInv, NEW t \in Threads
    PROVE  /\ work \in [Threads -> Work] /\ client \in [Threads -> Client]
           /\ work[t] \in Work /\ client[t] \in Client
           /\ conns \in Seq({"open", "closed"})
           /\ ClientOK(client[t], conns, conf) /\ WorkOK(work[t], client[t])
           /\ faults \in Nat /\ built \in Nat /\ evm \in {"open", "closed"}
           /\ conf.archive \in Hashes
           /\ (work[t] = Idle => work[t].step # "redial")
           /\ client[t].lossy \in BOOLEAN /\ client[t].conn \in Nat
  <1>1. Idle.step # "redial"
    BY DEF Idle
  <1>2. TypeOK
    BY DEF IInv
  <1>3. conf.archive \in Hashes
    BY <1>2 DEF TypeOK, Conf
  <1>4. work \in [Threads -> Work] /\ client \in [Threads -> Client]
    BY <1>2 DEF TypeOK
  <1>5. work[t] \in Work /\ client[t] \in Client
    BY <1>4
  <1>6. client[t].lossy \in BOOLEAN /\ client[t].conn \in Nat
    BY <1>5 DEF Client
  <1>7. QED
    BY <1>1, <1>2, <1>3, <1>4, <1>5, <1>6 DEF TypeOK, IInv

LEMMA RegistryUnreadIInv ==
    ASSUME IInv, NEW t \in Threads, RegistryUnread(t)
    PROVE  IInv'
  <1>1. Reads(FALSE) /\ work[t].step # "redial" /\ evm' \in {"open", "closed"}
    BY StateFacts DEF RegistryUnread, Ready
  <1>2. faults' \in Nat
    BY <1>1, ReadsFacts
  <1>3. QED
    BY <1>1, <1>2, EndStep DEF RegistryUnread

LEMMA ServiceMissingIInv ==
    ASSUME IInv, NEW t \in Threads, ServiceMissing(t)
    PROVE  IInv'
  <1>1. work[t].step # "redial" /\ evm' \in {"open", "closed"} /\ faults' \in Nat
    BY StateFacts DEF ServiceMissing, Ready
  <1>2. QED
    BY <1>1, EndStep DEF ServiceMissing

LEMMA ReadServiceIInv ==
    ASSUME IInv, NEW t \in Threads, NEW via \in {"core", "organization"}, ReadService(t, via)
    PROVE  IInv'
  <1>1. /\ work[t].step # "redial" /\ evm' \in {"open", "closed"}
        /\ client[t].state # "open"
    BY StateFacts DEF ReadService, Ready
  <1>2. faults \in Nat
    BY StateFacts
  <1>3. /\ faults' \in Nat
        /\ \/ Ends(t, NoResult)
           \/ \E lossy \in BOOLEAN : Goes(t, [step |-> "dial", via |-> via, lossy |-> lossy])
    <2>1. PICK answer \in Answer :
             /\ faults' = IF answer = "body" THEN faults ELSE faults + 1
             /\ LET reading == ApiSource(answer) IN
                IF reading.err \/ (reading.content # Nothing /\ ~Parses(reading.content))
                THEN Ends(t, NoResult)
                ELSE Goes(t, [step |-> "dial", via |-> via, lossy |-> reading.content = Nothing])
      BY DEF ReadService
    <2> DEFINE bad == ApiSource(answer).err \/ (ApiSource(answer).content # Nothing
                                                 /\ ~Parses(ApiSource(answer).content))
               lossy == ApiSource(answer).content = Nothing
    <2>2. IF bad THEN Ends(t, NoResult)
          ELSE Goes(t, [step |-> "dial", via |-> via, lossy |-> lossy])
      BY <2>1
    <2>3. lossy \in BOOLEAN
      OBVIOUS
    <2> HIDE DEF bad, lossy
    <2>4. faults' \in Nat
      BY <1>2, <2>1
    <2>5. QED
      BY <2>2, <2>3, <2>4
  <1>4. conf' = conf /\ core' = core /\ conns' = conns /\ client' = client /\ built' = built
    BY DEF ReadService
  <1>5. CASE Ends(t, NoResult)
    BY <1>1, <1>3, <1>4, <1>5, EndStep
  <1>6. ASSUME NEW lossy \in BOOLEAN,
               Goes(t, [step |-> "dial", via |-> via, lossy |-> lossy])
        PROVE  IInv'
    <2> DEFINE w == [step |-> "dial", via |-> via, lossy |-> lossy]
    <2>1. w \in Dialling /\ w.step = "dial"
      BY DEF Dialling
    <2>2. w \in Work /\ w \notin Calling
      BY <2>1 DEF Work, Calling
    <2>3. WorkOK(w, client[t])
      BY <1>1, <2>2 DEF WorkOK
    <2>4. work' = [work EXCEPT ![t] = w]
      BY <1>6 DEF Goes
    <2> HIDE DEF w
    <2>5. QED
      BY <1>1, <1>3, <1>4, <2>1, <2>2, <2>3, <2>4, LocalStep
  <1>7. QED
    BY <1>3, <1>5, <1>6

\* A goroutine that waits for the daemon: about something else than a call ...
LEMMA AskStep ==
    ASSUME IInv, NEW t \in Threads, NEW op \in {"free", "health"},
           Goes(t, [step |-> "rpc", op |-> op]), work[t].step # "redial",
           conf' = conf, core' = core, conns' = conns, client' = client, built' = built,
           evm' \in {"open", "closed"}, faults' \in Nat
    PROVE  IInv'
  <1> DEFINE w == [step |-> "rpc", op |-> op]
  <1>1. work' = [work EXCEPT ![t] = w]
    BY DEF Goes
  <1>2. w \in Work /\ w.step # "redial" /\ WorkOK(w, client[t])
    BY RestingWork
  <1> HIDE DEF w
  <1>3. QED
    BY <1>1, <1>2, LocalStep

\* ... or about a call.
LEMMA CallStep ==
    ASSUME IInv, NEW t \in Threads, NEW method \in Methods,
           Goes(t, [step |-> "rpc", op |-> "call", place |-> client[t].finds[method],
                    method |-> method]),
           client[t].finds[method] # NoMethod, client[t].pays, work[t].step # "redial",
           conf' = conf, core' = core, conns' = conns, client' = client, built' = built,
           evm' \in {"open", "closed"}, faults' \in Nat
    PROVE  IInv'
  <1> DEFINE place == client[t].finds[method]
             w == [step |-> "rpc", op |-> "call", place |-> place, method |-> method]
  <1>1. client[t].finds \in Finds /\ client[t].conn # NoConn
    BY StateFacts DEF Client, ClientOK
  <1>2. place \in UNION {{finds[m] : m \in Methods} : finds \in Finds}
    BY <1>1
  <1>3. work' = [work EXCEPT ![t] = w]
    BY DEF Goes
  <1>4. w.step = "rpc" /\ w.place = client[t].finds[w.method] /\ w.place # NoMethod
    OBVIOUS
  <1> HIDE DEF place
  <1>5. w \in Calling
    BY <1>2 DEF Calling
  <1>6. w \in Work /\ w \notin Dialling
    BY <1>4, <1>5 DEF Work, Dialling
  <1> HIDE DEF w
  <1>7. WorkOK(w, client[t])
    BY <1>1, <1>4, <1>6 DEF WorkOK
  <1>8. QED
    BY <1>3, <1>4, <1>6, <1>7, LocalStep

LEMMA CallIInv ==
    ASSUME IInv, NEW t \in Threads, Call(t)
    PROVE  IInv'
  <1>1. /\ work[t].step # "redial" /\ evm' \in {"open", "closed"} /\ client[t].pays
        /\ conf' = conf /\ core' = core /\ conns' = conns /\ client' = client /\ built' = built
    BY StateFacts DEF Call, Holds
  <1>2. PICK method \in Methods, ok \in BOOLEAN :
          /\ Reads(ok)
          /\ LET place == client[t].finds[method] IN
             IF place = NoMethod
             THEN Ends(t, [op |-> "call", got |-> "no method", method |-> method, by |-> t])
             ELSE IF ok THEN Goes(t, [step |-> "rpc", op |-> "call", place |-> place,
                                      method |-> method])
             ELSE Ends(t, [op |-> "call", got |-> "panic"])
    BY DEF Call
  <1>3. faults' \in Nat
    BY <1>2, ReadsFacts
  <1>4. CASE client[t].finds[method] # NoMethod /\ ok
    BY <1>1, <1>2, <1>3, <1>4, CallStep
  <1>5. CASE client[t].finds[method] = NoMethod \/ ~ok
    <2>1. \E result : Ends(t, result)
      BY <1>2, <1>5
    <2>2. QED
      BY <1>1, <1>3, <2>1, EndStep
  <1>6. QED
    BY <1>4, <1>5

LEMMA GetFreeIInv ==
    ASSUME IInv, NEW t \in Threads, GetFreeCallsAvailable(t)
    PROVE  IInv'
  <1>1. /\ work[t].step # "redial" /\ evm' \in {"open", "closed"}
        /\ conf' = conf /\ core' = core /\ conns' = conns /\ client' = client /\ built' = built
    BY StateFacts DEF GetFreeCallsAvailable, Holds
  <1>2. faults' \in Nat
    BY ReadsFacts DEF GetFreeCallsAvailable
  <1>3. \/ Goes(t, [step |-> "rpc", op |-> "free"])
        \/ Ends(t, [op |-> "available", got |-> "zero"])
    BY DEF GetFreeCallsAvailable
  <1>4. QED
    BY <1>1, <1>2, <1>3, AskStep, EndStep

LEMMA CheckGRPCIInv ==
    ASSUME IInv, NEW t \in Threads, CheckGRPC(t)
    PROVE  IInv'
  <1>1. /\ work[t].step # "redial" /\ evm' \in {"open", "closed"} /\ faults' \in Nat
        /\ conf' = conf /\ core' = core /\ conns' = conns /\ client' = client /\ built' = built
    BY StateFacts DEF CheckGRPC, Holds
  <1>2. \/ Goes(t, [step |-> "rpc", op |-> "health"])
        \/ Ends(t, [op |-> "health", got |-> "panic"])
    BY DEF CheckGRPC
  <1>3. QED
    BY <1>1, <1>2, AskStep, EndStep

LEMMA AnsweredIInv ==
    ASSUME IInv, NEW t \in Threads, Answered(t)
    PROVE  IInv'
  <1>1. /\ work[t].step # "redial" /\ evm' \in {"open", "closed"} /\ faults' \in Nat
        /\ conf' = conf /\ core' = core /\ conns' = conns /\ client' = client /\ built' = built
    BY StateFacts DEF Answered
  <1>2. \E result : Ends(t, result)
    BY DEF Answered
  <1>3. QED
    BY <1>1, <1>2, EndStep

LEMMA RPCFailsIInv ==
    ASSUME IInv, NEW t \in Threads, RPCFails(t)
    PROVE  IInv'
  <1>1. /\ work[t].step # "redial" /\ evm' \in {"open", "closed"} /\ faults' \in Nat
        /\ conf' = conf /\ core' = core /\ conns' = conns /\ client' = client /\ built' = built
    BY StateFacts DEF RPCFails
  <1>2. QED
    BY <1>1, EndStep DEF RPCFails

LEMMA CheckHTTPIInv ==
    ASSUME IInv, NEW t \in Threads, CheckHTTP(t) \/ HTTPAnswers(t)
    PROVE  IInv'
  <1>1. /\ work[t].step # "redial" /\ evm' \in {"open", "closed"} /\ faults' \in Nat
        /\ conf' = conf /\ core' = core /\ conns' = conns /\ client' = client /\ built' = built
    BY StateFacts DEF CheckHTTP, HTTPAnswers, Holds
  <1>2. CASE \E result : Ends(t, result)
    BY <1>1, <1>2, EndStep
  <1>3. CASE Goes(t, [step |-> "http"])
    <2> DEFINE w == [step |-> "http"]
    <2>1. work' = [work EXCEPT ![t] = w] /\ w \in Work /\ WorkOK(w, client[t]) /\ w.step # "redial"
      BY <1>3, RestingWork DEF Goes
    <2> HIDE DEF w
    <2>2. QED
      BY <1>1, <2>1, LocalStep
  <1>4. QED
    BY <1>2, <1>3 DEF CheckHTTP, HTTPAnswers

LEMMA SaveIInv ==
    ASSUME IInv, NEW t \in Threads, Save(t) \/ SaveAsZip(t)
    PROVE  IInv'
  <1>1. /\ work[t].step # "redial" /\ evm' \in {"open", "closed"}
        /\ conf' = conf /\ core' = core /\ conns' = conns /\ client' = client /\ built' = built
    BY StateFacts DEF Save, SaveAsZip, Holds
  <1>2. faults' = faults \/ faults' = faults + 1
    BY DEF Save, SaveAsZip, NotSaved
  <1>3. faults' \in Nat
    BY <1>2, StateFacts
  <1>4. \E result : Ends(t, result)
    BY DEF Save, SaveAsZip, NotSaved
  <1>5. QED
    BY <1>1, <1>3, <1>4, EndStep

LEMMA CloseEVMIInv ==
    ASSUME IInv, NEW t \in Threads, CloseEVM(t)
    PROVE  IInv'
  <1>1. /\ work[t].step # "redial" /\ evm' \in {"open", "closed"} /\ faults' \in Nat
        /\ conf' = conf /\ core' = core /\ conns' = conns /\ client' = client /\ built' = built
    BY StateFacts DEF CloseEVM
  <1>2. QED
    BY <1>1, EndStep DEF CloseEVM

\* Steps of the Core: no client and no connection is in them.
LEMMA CoreIInv ==
    ASSUME IInv, NewSDK \/ CloseCore
    PROVE  IInv'
  <1>1. TypeOK
    BY DEF IInv
  <1>2. /\ conf' = conf /\ conns' = conns /\ client' = client /\ work' = work /\ built' = built
        /\ core' \in {"none", "ready", "exited"} /\ evm' \in {"open", "closed"} /\ faults' \in Nat
    BY <1>1 DEF TypeOK, NewSDK, CloseCore, InitEvm
  <1>3. TypeOK'
    BY <1>1, <1>2 DEF TypeOK
  <1>4. ConnectionsAccounted'
    BY <1>2 DEF IInv, ConnectionsAccounted
  <1>5. QED
    BY <1>2, <1>3, <1>4 DEF IInv

\* Installing the free strategy: the client has a connection.
LEMMA SetFreeIInv ==
    ASSUME IInv, NEW t \in Threads, SetFree(t)
    PROVE  IInv'
  <1>1. /\ work[t] = Idle /\ work[t].step # "redial" /\ client[t].state # "none"
        /\ evm' \in {"open", "closed"}
        /\ conf' = conf /\ core' = core /\ conns' = conns /\ built' = built
    BY StateFacts DEF SetFree, Holds
  <1>2. CASE ~conf.group \/ client[t].conn = NoConn
    <2>1. Ends(t, [op |-> "setFree", got |-> "panic"]) /\ client' = client /\ faults' \in Nat
      BY <1>2, StateFacts DEF SetFree
    <2>2. QED
      BY <1>1, <2>1, EndStep
  <1>3. CASE conf.group /\ client[t].conn # NoConn
    <2> DEFINE c == [client[t] EXCEPT !.pays = TRUE]
    <2>1. /\ client' = [client EXCEPT ![t].pays = TRUE]
          /\ \/ Reads(TRUE) /\ Goes(t, [step |-> "rpc", op |-> "free"])
             \/ Reads(FALSE) /\ Ends(t, NoResult)
      BY <1>3 DEF SetFree
    <2>2. faults' \in Nat
      BY <2>1, ReadsFacts
    <2>3. /\ client[t] \in Client /\ ClientOK(client[t], conns, conf)
          /\ client \in [Threads -> Client] /\ conns \in Seq({"open", "closed"}) /\ built \in Nat
      BY StateFacts
    <2>4. /\ c \in Client /\ c.conn = client[t].conn /\ c.trained = client[t].trained
          /\ c.lossy = client[t].lossy /\ c.finds = client[t].finds
          /\ c.state = client[t].state /\ c.pays
      BY <2>3 DEF Client
    <2>5. client' = [client EXCEPT ![t] = c]
      BY <2>1, <2>3
    <2>6. PICK w \in Work : work' = [work EXCEPT ![t] = w] /\ w.step # "redial" /\ WorkOK(w, c)
      <3>1. \/ work' = [work EXCEPT ![t] = [step |-> "rpc", op |-> "free"]]
            \/ work' = [work EXCEPT ![t] = Idle]
        BY <2>1 DEF Goes, Ends
      <3>2. /\ Idle \in Work /\ Idle.step # "redial" /\ WorkOK(Idle, c)
            /\ [step |-> "rpc", op |-> "free"] \in Work /\ WorkOK([step |-> "rpc", op |-> "free"], c)
            /\ [step |-> "rpc", op |-> "free"].step # "redial"
        BY RestingWork
      <3>3. QED
        BY <3>1, <3>2
    <2> HIDE DEF c
    <2>7. ClientOK(c, conns', conf)
      BY <1>1, <1>3, <2>3, <2>4 DEF ClientOK
    <2>8. Grows(conns, conns')
      <3>1. Len(conns) \in Nat
        BY <2>3
      <3>2. QED
        BY <1>1, <3>1 DEF Grows
    <2>9. ConnectionsAccounted'
      <3>1. /\ built' \in Nat
            /\ built + Cardinality(Redialling(work)) <= built' + Cardinality(Redialling(work'))
        BY <1>1, <2>6, RedialsKept
      <3>2. \A u \in Threads : client'[u].conn = client[u].conn
        BY <2>3, <2>4, <2>5
      <3>3. Held(client') = Held(client)
        BY <3>2 DEF Held
      <3>4. Lost(conns', Held(client')) = Lost(conns, Held(client))
        BY <1>1, <3>3
      <3>5. QED
        BY <1>1, <2>3, <3>1, <3>4, FewerLost
    <2>10. QED
      BY <1>1, <2>2, <2>3, <2>4, <2>5, <2>6, <2>7, <2>8, <2>9, ClientStep
  <1>4. QED
    BY <1>2, <1>3

\* Closing a client's connection: fewer are open, and the client refers to it still.
LEMMA CloseGRPCIInv ==
    ASSUME IInv, NEW t \in Threads, CloseGRPC(t)
    PROVE  IInv'
  <1> DEFINE c == [client[t] EXCEPT !.state = "closed"]
             w == [step |-> "closeEvm"]
             ds == [i \in DOMAIN conns |-> IF i = client[t].conn THEN "closed" ELSE conns[i]]
  <1>1. /\ work[t] = Idle /\ work[t].step # "redial" /\ client[t].state # "none"
        /\ evm' \in {"open", "closed"} /\ faults' \in Nat
        /\ conf' = conf /\ core' = core /\ built' = built
        /\ conns' = ds /\ client' = [client EXCEPT ![t].state = "closed"]
        /\ work' = [work EXCEPT ![t] = w]
    BY StateFacts DEF CloseGRPC, Holds, Goes
  <1>2. /\ client[t] \in Client /\ ClientOK(client[t], conns, conf)
        /\ client \in [Threads -> Client] /\ conns \in Seq({"open", "closed"}) /\ built \in Nat
    BY StateFacts
  <1>3. /\ c \in Client /\ c.conn = client[t].conn /\ c.trained = client[t].trained
        /\ c.lossy = client[t].lossy /\ c.finds = client[t].finds
        /\ c.state = "closed" /\ c.pays = client[t].pays
    BY <1>2 DEF Client
  <1>4. client' = [client EXCEPT ![t] = c]
    BY <1>1, <1>2
  <1>5. w \in Work /\ WorkOK(w, c) /\ w.step # "redial"
    BY RestingWork
  <1>6. /\ ds \in Seq({"open", "closed"}) /\ Len(ds) = Len(conns) /\ Len(conns) \in Nat
        /\ DOMAIN ds = 1..Len(conns) /\ DOMAIN conns = 1..Len(conns)
        /\ \A i \in 1..Len(conns) :
              ds[i] = IF i = client[t].conn THEN "closed" ELSE conns[i]
    BY <1>2
  <1> HIDE DEF c, w, ds
  <1>7. Grows(conns, ds)
    BY <1>6 DEF Grows
  <1>8. ClientOK(c, ds, conf)
    <2>1. c.conn # NoConn => ds[c.conn] = "closed"
      <3>1. c.conn \in Nat /\ c.conn <= Len(conns)
        BY <1>2, <1>3 DEF ClientOK, Client
      <3>2. c.conn # NoConn => c.conn \in 1..Len(conns)
        BY <1>6, <3>1 DEF NoConn
      <3>3. QED
        BY <1>3, <1>6, <3>2
    <2>2. QED
      BY <1>1, <1>2, <1>3, <1>6, <2>1 DEF ClientOK
  <1>9. ConnectionsAccounted'
    <2>1. /\ built' \in Nat
          /\ built + Cardinality(Redialling(work)) <= built' + Cardinality(Redialling(work'))
      BY <1>1, <1>5, RedialsKept
    <2>2. Held(client') = Held(client)
      <3>1. \A u \in Threads : client'[u].conn = client[u].conn
        BY <1>2, <1>3, <1>4
      <3>2. QED
        BY <3>1 DEF Held
    <2>3. Lost(ds, Held(client)) \subseteq Lost(conns, Held(client))
      BY <1>6 DEF Lost
    <2>4. conns' \in Seq({"open", "closed"})
          /\ Lost(conns', Held(client')) \subseteq Lost(conns, Held(client))
      BY <1>1, <1>6, <2>2, <2>3
    <2>5. QED
      BY <2>1, <2>4, FewerLost
  <1>10. built' \in Nat /\ conns' \in Seq({"open", "closed"}) /\ Grows(conns, conns')
         /\ ClientOK(c, conns', conf)
    BY <1>1, <1>2, <1>6, <1>7, <1>8
  <1>11. QED
    BY <1>1, <1>3, <1>4, <1>5, <1>9, <1>10, ClientStep

\* grpc.NewClient makes one connection, open if the files compile.
LEMMA NewClientFacts ==
    ASSUME IInv, NEW t \in Threads, work[t] \in Dialling, NewClient(t)
    PROVE  /\ conns' \in Seq({"open", "closed"}) /\ Grows(conns, conns')
           /\ Len(conns) \in Nat /\ Len(conns') = Len(conns) + 1
           /\ DOMAIN conns = 1..Len(conns) /\ DOMAIN conns' = 1..(Len(conns) + 1)
           /\ \A i \in 1..Len(conns) : conns'[i] = conns[i]
           /\ conns'[Len(conns) + 1] = "open" <=> Compiled[conf.archive][work[t].lossy]
  <1> DEFINE state == IF Compiled[conf.archive][work[t].lossy] THEN "open" ELSE "closed"
  <1>1. conns' = Append(conns, state) /\ conns \in Seq({"open", "closed"})
    BY StateFacts DEF NewClient
  <1>2. state \in {"open", "closed"}
    OBVIOUS
  <1>3. state = "open" <=> Compiled[conf.archive][work[t].lossy]
    OBVIOUS
  <1> HIDE DEF state
  <1>4. /\ conns' \in Seq({"open", "closed"}) /\ Grows(conns, conns')
        /\ Len(conns) \in Nat /\ Len(conns') = Len(conns) + 1
        /\ DOMAIN conns = 1..Len(conns) /\ DOMAIN conns' = 1..(Len(conns) + 1)
        /\ \A i \in 1..Len(conns) : conns'[i] = conns[i]
        /\ conns'[Len(conns) + 1] = state
    BY <1>1, <1>2, Appended, GrowsAppend
  <1>5. QED
    BY <1>3, <1>4

\* The client that is built is well, and its own connection is not lost; the
\* one it replaces had none that was open.
LEMMA BuiltFacts ==
    ASSUME IInv, NEW t \in Threads, work[t] \in Dialling, NEW dialled \in BOOLEAN,
           Built(t, dialled),
           IF dialled THEN NewClient(t) ELSE conns' = conns /\ ~conf.endpoint.valid
    PROVE  /\ conns' \in Seq({"open", "closed"}) /\ Grows(conns, conns')
           /\ \E c \in Client : client' = [client EXCEPT ![t] = c] /\ ClientOK(c, conns', conf)
           /\ Lost(conns', Held(client')) \subseteq Lost(conns, Held(client))
  <1> DEFINE lossy == work[t].lossy
             hash == conf.archive
             usable == dialled /\ Compiled[hash][lossy]
  <1>1. /\ client \in [Threads -> Client] /\ client[t] \in Client
        /\ conns \in Seq({"open", "closed"}) /\ ClientOK(client[t], conns, conf)
        /\ WorkOK(work[t], client[t]) /\ hash \in Hashes
    BY StateFacts
  <1>2. lossy \in BOOLEAN /\ client[t].state # "open"
    BY <1>1 DEF Dialling, WorkOK
  <1>3. PICK finds \in IF usable THEN Findings[hash][lossy] ELSE {Unknown} :
           client' = [client EXCEPT ![t] =
              [conn  |-> IF usable THEN Len(conns') ELSE NoConn,
               lossy |-> lossy, trained |-> dialled, finds |-> finds,
               state |-> "open", pays |-> FALSE]]
    BY DEF Built
  <1> DEFINE c == [conn  |-> IF usable THEN Len(conns') ELSE NoConn,
                   lossy |-> lossy, trained |-> dialled, finds |-> finds,
                   state |-> "open", pays |-> FALSE]
  <1>4. /\ c.conn = (IF usable THEN Len(conns') ELSE NoConn) /\ c.lossy = lossy
        /\ c.trained = dialled /\ c.finds = finds /\ c.state = "open" /\ c.pays = FALSE
    OBVIOUS
  <1>5. /\ conns' \in Seq({"open", "closed"}) /\ Grows(conns, conns')
        /\ Len(conns) \in Nat /\ Len(conns') \in Nat
        /\ DOMAIN conns = 1..Len(conns)
        /\ ~dialled => conns' = conns
        /\ dialled => /\ Len(conns') = Len(conns) + 1
                      /\ DOMAIN conns' = 1..(Len(conns) + 1)
                      /\ conns'[Len(conns) + 1] = "open" <=> Compiled[hash][lossy]
                      /\ \A i \in 1..Len(conns) : conns'[i] = conns[i]
    <2>1. CASE dialled
      <3>1. NewClient(t)
        BY <2>1
      <3>2. /\ conns' \in Seq({"open", "closed"}) /\ Grows(conns, conns')
            /\ Len(conns) \in Nat /\ Len(conns') = Len(conns) + 1
            /\ DOMAIN conns = 1..Len(conns) /\ DOMAIN conns' = 1..(Len(conns) + 1)
            /\ \A i \in 1..Len(conns) : conns'[i] = conns[i]
            /\ conns'[Len(conns) + 1] = "open" <=> Compiled[hash][lossy]
        BY <3>1, NewClientFacts
      <3> HIDE DEF c, lossy, hash
      <3>3. QED
        BY <2>1, <3>2
    <2>2. CASE ~dialled
      <3>1. conns' = conns /\ Len(conns) \in Nat /\ DOMAIN conns = 1..Len(conns)
        BY <1>1, <2>2
      <3>2. Grows(conns, conns')
        BY <3>1 DEF Grows
      <3>3. QED
        BY <1>1, <2>2, <3>1, <3>2
    <2>3. QED
      BY <2>1, <2>2
  <1>6. finds \in Finds /\ (usable => finds \in Findings[hash][lossy])
    BY <1>1, <1>2, FindsFacts
  <1>7. c \in Client
    <2>1. (IF usable THEN Len(conns') ELSE NoConn) \in Nat
      BY <1>5 DEF NoConn
    <2> DEFINE conn == IF usable THEN Len(conns') ELSE NoConn
    <2> HIDE DEF conn, usable, lossy
    <2>2. [conn |-> conn, lossy |-> lossy, trained |-> dialled, finds |-> finds,
           state |-> "open", pays |-> FALSE] \in Client
      BY <1>2, <1>6, <2>1 DEF Client, conn
    <2>3. QED
      BY <2>2 DEF conn
  <1>8. client' = [client EXCEPT ![t] = c]
    BY <1>3
  <1> HIDE DEF c, lossy, hash
  <1>9. ClientOK(c, conns', conf)
    <2>1. c.conn <= Len(conns')
      BY <1>4, <1>5 DEF NoConn
    <2>2. c.conn # NoConn => usable
      BY <1>4
    <2>3. c.conn = NoConn => ~usable
      BY <1>4, <1>5 DEF NoConn
    <2>4. ~usable => ~conf.endpoint.valid \/ ~Compiled[hash][lossy]
      OBVIOUS
    <2>5. QED
      BY <1>4, <1>6, <2>1, <2>2, <2>3, <2>4 DEF ClientOK, hash
  <1>10. \A u \in Threads : client'[u] = IF u = t THEN c ELSE client[u]
    BY <1>1, <1>8
  <1>11. ASSUME NEW x \in Lost(conns', Held(client'))
         PROVE  x \in Lost(conns, Held(client))
    <2>1. x \in DOMAIN conns' /\ conns'[x] = "open" /\ \A u \in Threads : x # client'[u].conn
      BY DEF Lost, Held
    <2>2. x # c.conn
      BY <1>10, <2>1
    <2>3. x \in 1..Len(conns) /\ conns[x] = "open"
      <3>1. CASE ~dialled
        BY <1>5, <2>1, <3>1
      <3>2. CASE dialled
        <4>1. x \in 1..(Len(conns) + 1)
          BY <1>5, <2>1, <3>2
        <4>2. x # Len(conns) + 1
          BY <1>4, <1>5, <2>1, <2>2, <3>2
        <4>3. x \in 1..Len(conns)
          BY <1>5, <4>1, <4>2
        <4>4. QED
          BY <1>5, <2>1, <3>2, <4>3
      <3>3. QED
        BY <3>1, <3>2
    <2>4. x # client[t].conn
      <3>1. client[t].state \in {"none", "closed"}
        BY <1>1, <1>2 DEF Client
      <3>2. x # NoConn
        BY <1>5, <2>3 DEF NoConn
      <3>3. QED
        BY <1>1, <2>3, <3>1, <3>2 DEF ClientOK
    <2>5. \A u \in Threads : x # client[u].conn
      BY <1>10, <2>1, <2>4
    <2>6. QED
      BY <1>5, <2>3, <2>5 DEF Lost, Held
  <1>12. QED
    BY <1>5, <1>7, <1>8, <1>9, <1>11

\* The first of two connections is lost, and counted until the client is built.
LEMMA FirstDialled ==
    ASSUME IInv, NEW t \in Threads, work[t] \in Dialling, work[t].step = "dial",
           NewClient(t), Goes(t, [work[t] EXCEPT !.step = "redial"]),
           conf' = conf, core' = core, client' = client, evm' = evm,
           built' = built, faults' = faults
    PROVE  IInv'
  <1> DEFINE w == [work[t] EXCEPT !.step = "redial"]
             n == Len(conns)
  <1>1. /\ work \in [Threads -> Work] /\ client \in [Threads -> Client]
        /\ client[t] \in Client /\ conns \in Seq({"open", "closed"})
        /\ ClientOK(client[t], conns, conf) /\ WorkOK(work[t], client[t])
        /\ evm \in {"open", "closed"} /\ built \in Nat /\ faults \in Nat
    BY StateFacts
  <1>2. w \in Dialling /\ w.step = "redial" /\ work' = [work EXCEPT ![t] = w]
    BY DEF Dialling, Goes
  <1> HIDE DEF w
  <1>3. w \in Work /\ w \notin Calling
    BY <1>2 DEF Work, Calling
  <1>4. client[t].state # "open"
    BY <1>1 DEF WorkOK
  <1>5. WorkOK(w, client[t])
    BY <1>3, <1>4 DEF WorkOK
  <1>6. /\ conns' \in Seq({"open", "closed"}) /\ Grows(conns, conns')
        /\ n \in Nat /\ DOMAIN conns = 1..n /\ DOMAIN conns' = 1..(n + 1)
        /\ \A i \in 1..n : conns'[i] = conns[i]
    BY NewClientFacts
  <1> HIDE DEF n
  <1>7. ClientOK(client[t], conns', conf)
    BY <1>1, <1>6, ClientKeeps
  <1>8. ConnectionsAccounted'
    <2> DEFINE A == Lost(conns, Held(client))
               B == Lost(conns', Held(client'))
               R == Redialling(work)
               S == Redialling(work')
    <2>1. B \subseteq A \cup {n + 1}
      <3>1. \A i \in 1..(n + 1) : i \in 1..n \/ i = n + 1
        BY <1>6
      <3>2. Held(client') = Held(client)
        BY DEF Held
      <3>3. QED
        BY <1>6, <3>1, <3>2 DEF Lost
    <2>2. IsFiniteSet(A) /\ Cardinality(A) \in Nat /\ Cardinality(B) \in Nat
      BY <1>1, <1>6, LostFinite
    <2>3. IsFiniteSet(R) /\ Cardinality(R) \in Nat /\ Cardinality(S) \in Nat
      BY RediallingFinite
    <2>4. S = R \cup {t} /\ t \notin R
      BY <1>1, <1>2 DEF Redialling
    <2>5. Cardinality(A) <= built + Cardinality(R)
      BY Accounted DEF IInv
    <2> HIDE DEF A, B, R, S
    <2>6. Cardinality(S) = Cardinality(R) + 1
      BY <2>3, <2>4, FS_AddElement
    <2>7. /\ IsFiniteSet(A \cup {n + 1})
          /\ Cardinality(A \cup {n + 1}) \in Nat
          /\ Cardinality(A \cup {n + 1}) <= Cardinality(A) + 1
      <3>1. /\ IsFiniteSet(A \cup {n + 1})
            /\ Cardinality(A \cup {n + 1}) =
                  IF n + 1 \in A THEN Cardinality(A) ELSE Cardinality(A) + 1
        BY <2>2, FS_AddElement
      <3>2. QED
        BY <2>2, <3>1
    <2>8. Cardinality(B) <= Cardinality(A \cup {n + 1})
      BY <2>1, <2>7, FS_Subset
    <2>9. Cardinality(B) <= built' + Cardinality(S)
      <3>1. \A a, b, c, r, s, k \in Nat :
               b <= c /\ c <= a + 1 /\ a <= k + r /\ s = r + 1 => b <= k + s
        OBVIOUS
      <3>2. QED
        BY <1>1, <2>2, <2>3, <2>5, <2>6, <2>7, <2>8, <3>1
    <2>10. QED
      BY <2>9, AccountedNext DEF B, S
  <1>9. client' = [client EXCEPT ![t] = client[t]]
    BY <1>1
  <1>10. evm' \in {"open", "closed"} /\ built' \in Nat /\ faults' \in Nat
    BY <1>1
  <1>11. QED
    BY <1>1, <1>2, <1>3, <1>5, <1>6, <1>7, <1>8, <1>9, <1>10, ClientStep

LEMMA DialIInv ==
    ASSUME IInv, NEW t \in Threads, Dial(t)
    PROVE  IInv'
  <1>1. /\ work[t] \in Dialling /\ work[t].step = "dial"
        /\ conf' = conf /\ core' = core /\ evm' = evm /\ built' = built /\ faults' = faults
    BY StateFacts, WorkFacts DEF Dial
  <1>2. CASE NewClient(t) /\ Goes(t, [work[t] EXCEPT !.step = "redial"]) /\ client' = client
    BY <1>1, <1>2, FirstDialled
  <1>3. ASSUME NEW dialled \in BOOLEAN, Built(t, dialled), Ends(t, NoResult),
               IF dialled THEN NewClient(t) ELSE conns' = conns /\ ~conf.endpoint.valid
        PROVE  IInv'
    <2>1. /\ conns' \in Seq({"open", "closed"}) /\ Grows(conns, conns')
          /\ Lost(conns', Held(client')) \subseteq Lost(conns, Held(client))
          /\ \E c \in Client : client' = [client EXCEPT ![t] = c] /\ ClientOK(c, conns', conf)
      BY <1>1, <1>3, BuiltFacts
    <2>2. PICK c \in Client : client' = [client EXCEPT ![t] = c] /\ ClientOK(c, conns', conf)
      BY <2>1
    <2>3. /\ work' = [work EXCEPT ![t] = Idle]
          /\ Idle \in Work /\ Idle.step # "redial" /\ WorkOK(Idle, c)
      BY <1>3, RestingWork DEF Ends
    <2>4. /\ built' \in Nat
          /\ built + Cardinality(Redialling(work)) <= built' + Cardinality(Redialling(work'))
      BY <1>1, <2>3, RedialsKept
    <2>5. ConnectionsAccounted'
      BY <2>1, <2>4, FewerLost
    <2>6. evm' \in {"open", "closed"} /\ faults' \in Nat
      BY <1>1, StateFacts
    <2>7. QED
      BY <1>1, <2>1, <2>2, <2>3, <2>4, <2>5, <2>6, ClientStep
  <1>4. \/ NewClient(t) /\ Goes(t, [work[t] EXCEPT !.step = "redial"]) /\ client' = client
        \/ NewClient(t) /\ Built(t, TRUE) /\ Ends(t, NoResult)
        \/ ~conf.endpoint.valid /\ conns' = conns /\ Built(t, FALSE) /\ Ends(t, NoResult)
    BY DEF Dial
  <1>5. QED
    BY <1>2, <1>3, <1>4

\* With the second connection the client is built, and the first is counted
\* among those of the clients that are.
LEMMA RedialIInv ==
    ASSUME IInv, NEW t \in Threads, Redial(t)
    PROVE  IInv'
  <1>1. /\ work[t] \in Dialling /\ work[t].step = "redial"
        /\ conf' = conf /\ core' = core /\ evm' = evm /\ built' = built + 1 /\ faults' = faults
        /\ NewClient(t) /\ Built(t, TRUE) /\ work' = [work EXCEPT ![t] = Idle]
    BY StateFacts, WorkFacts DEF Redial, Ends
  <1>2. /\ work \in [Threads -> Work] /\ built \in Nat /\ faults \in Nat
        /\ evm \in {"open", "closed"}
    BY StateFacts
  <1>3. /\ conns' \in Seq({"open", "closed"}) /\ Grows(conns, conns')
        /\ Lost(conns', Held(client')) \subseteq Lost(conns, Held(client))
        /\ \E c \in Client : client' = [client EXCEPT ![t] = c] /\ ClientOK(c, conns', conf)
    BY <1>1, BuiltFacts
  <1>4. PICK c \in Client : client' = [client EXCEPT ![t] = c] /\ ClientOK(c, conns', conf)
    BY <1>3
  <1>5. Idle \in Work /\ Idle.step # "redial" /\ WorkOK(Idle, c)
    BY RestingWork
  <1>6. /\ built' \in Nat
        /\ built + Cardinality(Redialling(work)) <= built' + Cardinality(Redialling(work'))
    <2> DEFINE R == Redialling(work)
               S == Redialling(work')
    <2>1. R = S \cup {t}
      BY <1>1, <1>2, <1>5 DEF Redialling
    <2>2. IsFiniteSet(S) /\ Cardinality(S) \in Nat /\ Cardinality(R) \in Nat
      BY RediallingFinite
    <2> HIDE DEF R, S
    <2>3. Cardinality(R) <= Cardinality(S) + 1
      <3>1. Cardinality(S \cup {t}) =
               IF t \in S THEN Cardinality(S) ELSE Cardinality(S) + 1
        BY <2>2, FS_AddElement
      <3>2. QED
        BY <2>1, <2>2, <3>1
    <2>4. built + Cardinality(R) <= built' + Cardinality(S)
      <3>1. \A r, s, k \in Nat : r <= s + 1 => k + r <= k + 1 + s
        OBVIOUS
      <3>2. QED
        BY <1>1, <1>2, <2>2, <2>3, <3>1
    <2>5. QED
      BY <1>1, <1>2, <2>4 DEF R, S
  <1>7. ConnectionsAccounted'
    BY <1>3, <1>6, FewerLost
  <1>8. evm' \in {"open", "closed"} /\ faults' \in Nat
    BY <1>1, <1>2
  <1>9. QED
    BY <1>1, <1>3, <1>4, <1>5, <1>6, <1>7, <1>8, ClientStep

LEMMA NextIInv ==
    ASSUME IInv, [Next]_vars
    PROVE  IInv'
  <1>1. CASE NewSDK \/ CloseCore
    BY <1>1, CoreIInv
  <1>2. CASE UNCHANGED vars
    <2>1. TypeOK'
      BY <1>2 DEF IInv, TypeOK, vars
    <2>2. ConnectionsAccounted'
      BY <1>2 DEF IInv, ConnectionsAccounted, vars
    <2>3. QED
      BY <1>2, <2>1, <2>2 DEF IInv, vars
  <1>3. ASSUME NEW t \in Threads, NEW via \in {"core", "organization"}, ReadService(t, via)
        PROVE  IInv'
    BY <1>3, ReadServiceIInv
  <1>4. ASSUME NEW t \in Threads,
               \/ RegistryUnread(t) \/ ServiceMissing(t) \/ SetFree(t) \/ Call(t)
               \/ GetFreeCallsAvailable(t) \/ CheckGRPC(t) \/ Answered(t) \/ CheckHTTP(t)
               \/ HTTPAnswers(t) \/ Save(t) \/ SaveAsZip(t) \/ CloseGRPC(t)
        PROVE  IInv'
    BY <1>4, RegistryUnreadIInv, ServiceMissingIInv, SetFreeIInv, CallIInv, GetFreeIInv,
       CheckGRPCIInv, AnsweredIInv, CheckHTTPIInv, SaveIInv, CloseGRPCIInv
  <1>5. ASSUME NEW t \in Threads, Step(t)
        PROVE  IInv'
    BY <1>5, DialIInv, RedialIInv, RPCFailsIInv, CloseEVMIInv DEF Step
  <1>6. QED
    BY <1>1, <1>2, <1>3, <1>4, <1>5 DEF Next

LEMMA AlwaysIInv == Spec => []IInv
  <1>1. Init => IInv
    BY InitIInv
  <1>2. IInv /\ [Next]_vars => IInv'
    BY NextIInv
  <1>3. QED
    BY <1>1, <1>2, PTL DEF Spec

-----------------------------------------------------------------------------
(* What operations give. *)

\* The files that offer a method.
Offering(hash, method) ==
    {e.name : e \in {f \in Registered[hash] : f.name # TrainingName /\ Offers(f.text, method)}}
    \cup {n \in {TrainingName} : Offers(TrainingText, method)}

\* A method that is not found is in no file.
LEMMA NotFound ==
    ASSUME NEW hash \in Hashes, NEW lossy \in BOOLEAN, Compiled[hash][lossy],
           NEW finds \in Findings[hash][lossy], NEW method \in Methods,
           finds[method] = NoMethod, ~lossy
    PROVE  Offering(hash, method) = {}
  <1> DEFINE protos == Protos[hash][lossy][TRUE]
  <1>1. Found(protos, method, finds[method])
    BY FindingsFind
  <1>2. /\ TrainingName \in DOMAIN protos /\ protos[TrainingName] = TrainingText
        /\ \A e \in Registered[hash] : /\ e.name \in DOMAIN protos
                                       /\ e.name # TrainingName => protos[e.name] = e.text
    BY TrainedFiles
  <1> HIDE DEF protos
  <1>3. \A name \in DOMAIN protos : ~Offers(protos[name], method)
    BY <1>1 DEF Found
  <1>4. \A e \in Registered[hash] : e.name # TrainingName => ~Offers(e.text, method)
    BY <1>2, <1>3
  <1>5. ~Offers(TrainingText, method)
    BY <1>2, <1>3
  <1>6. QED
    BY <1>4, <1>5 DEF Offering

\* One that is found is in the file that is called, and if that names no package
\* it is one the service registered.
LEMMA FoundThere ==
    ASSUME NEW hash \in Hashes, NEW lossy \in BOOLEAN, Compiled[hash][lossy],
           NEW finds \in Findings[hash][lossy], NEW method \in Methods,
           finds[method] # NoMethod
    PROVE  /\ finds[method].file \in Offering(hash, method)
           /\ Protos[hash][lossy][TRUE][finds[method].file].package = "" =>
                 \E e \in Registered[hash] : e.text.package = ""
  <1> DEFINE protos == Protos[hash][lossy][TRUE]
             file == finds[method].file
  <1>1. Found(protos, method, finds[method])
    BY FindingsFind
  <1>2. /\ protos[TrainingName] = TrainingText
        /\ \A name \in DOMAIN protos : name # TrainingName =>
              \E e \in Registered[hash] : e.name = name /\ e.text = protos[name]
    BY TrainedFiles
  <1>3. file \in DOMAIN protos /\ Offers(protos[file], method)
    BY <1>1 DEF Found
  <1> HIDE DEF protos, file
  <1>4. CASE file = TrainingName
    <2>1. Offers(TrainingText, method)
      BY <1>2, <1>3, <1>4
    <2>2. file \in Offering(hash, method)
      BY <1>4, <2>1 DEF Offering
    <2>3. protos[file].package # ""
      BY <1>2, <1>4, BundleAssumption
    <2>4. QED
      BY <2>2, <2>3 DEF protos, file
  <1>5. CASE file # TrainingName
    <2>1. PICK e \in Registered[hash] : e.name = file /\ e.text = protos[file]
      BY <1>2, <1>3, <1>5
    <2>2. Offers(e.text, method) /\ e.name # TrainingName
      BY <1>3, <1>5, <2>1
    <2>3. file \in Offering(hash, method)
      BY <2>1, <2>2 DEF Offering
    <2>4. protos[file].package = "" => e.text.package = ""
      BY <2>1
    <2>5. QED
      BY <2>3, <2>4 DEF protos, file
  <1>6. QED
    BY <1>4, <1>5

\* What is in the map of files of a client: what was registered, unless the
\* archive was lost.
LEMMA FilesWhole ==
    ASSUME NEW hash \in Hashes, NEW trained \in BOOLEAN, NEW e \in Registered[hash]
    PROVE  /\ e.name \in DOMAIN Protos[hash][FALSE][trained]
           /\ \/ Protos[hash][FALSE][trained][e.name] = e.text
              \/ e.name = TrainingName /\ Protos[hash][FALSE][trained][e.name] = TrainingText
  <1>1. CASE trained
    <2> DEFINE protos == Protos[hash][FALSE][TRUE]
    <2>1. /\ protos[TrainingName] = TrainingText
          /\ e.name \in DOMAIN protos /\ (e.name # TrainingName => protos[e.name] = e.text)
      BY TrainedFiles
    <2> HIDE DEF protos
    <2>2. /\ e.name \in DOMAIN protos
          /\ protos[e.name] = e.text \/ (e.name = TrainingName /\ protos[e.name] = TrainingText)
      BY <2>1
    <2>3. QED
      BY <1>1, <2>2 DEF protos
  <1>2. CASE ~trained
    <2>1. Protos[hash][FALSE][FALSE] = ParseProtoFiles(Stored[hash])
      BY DEF Protos, FilesOf
    <2>2. /\ e.name \in DOMAIN ParseProtoFiles(Stored[hash])
          /\ ParseProtoFiles(Stored[hash])[e.name] = e.text
      BY FilesAreRegistered
    <2>3. QED
      BY <1>2, <2>1, <2>2
  <1>3. QED
    BY <1>1, <1>2

-----------------------------------------------------------------------------
(* The four properties of results. *)

Honest == /\ SilentFailuresExplained /\ CallsResolve
          /\ SavedWhole /\ HealthHonest

Failed(op, got)  == op \in {"build", "setFree", "call", "available", "health"}
                    /\ got \in {"panic", "zero"}
Explained        == \/ faults > 0
                    \/ evm = "closed" /\ conf.rpc = "ws"
                    \/ ~conf.endpoint.valid
                    \/ ~Compiled[conf.archive][FALSE]
                    \/ last.op = "setFree" /\ ~conf.group

\* Of an operation that is none of those the properties are about.
LEMMA QuietHonest ==
    ASSUME last' = NoResult
    PROVE  Honest'
  <1>1. /\ last'.op \notin {"build", "setFree", "call", "available", "health"}
        /\ last'.op # "call" /\ last'.op # "save" /\ last'.op # "web"
    BY DEF NoResult
  <1>2. SilentFailuresExplained'
    BY <1>1 DEF SilentFailuresExplained
  <1>3. CallsResolve'
    BY <1>1 DEF CallsResolve
  <1>4. SavedWhole'
    BY <1>1 DEF SavedWhole
  <1>5. HealthHonest'
    BY <1>1 DEF HealthHonest
  <1>6. QED
    BY <1>2, <1>3, <1>4, <1>5 DEF Honest

\* Of one that fails, with its cause.
LEMMA FailureHonest ==
    ASSUME last'.op \in {"build", "setFree", "call", "available", "health"},
           last'.got \in {"panic", "zero"}, Explained'
    PROVE  Honest'
  <1>1. last'.op # "save" /\ last'.op # "web"
        /\ last'.got \notin {"answer", "unimplemented", "no method"}
    OBVIOUS
  <1>2. SilentFailuresExplained'
    BY DEF SilentFailuresExplained, Explained
  <1>3. CallsResolve'
    BY <1>1 DEF CallsResolve
  <1>4. SavedWhole'
    BY <1>1 DEF SavedWhole
  <1>5. HealthHonest'
    BY <1>1 DEF HealthHonest
  <1>6. QED
    BY <1>2, <1>3, <1>4, <1>5 DEF Honest

\* Of a call that gives something.
LEMMA CallHonest ==
    ASSUME last'.op = "call", last'.got \in {"answer", "unimplemented", "no method"},
           last'.got = "no method" => \/ Offering(conf'.archive, last'.method) = {}
                                      \/ client'[last'.by].lossy,
           last'.got = "answer" => last'.place.file \in Offering(conf'.archive, last'.method),
           last'.got = "unimplemented" =>
               \E e \in Registered[conf'.archive] : e.text.package = ""
    PROVE  Honest'
  <1>1. last'.op # "save" /\ last'.op # "web" /\ last'.got \notin {"panic", "zero"}
    OBVIOUS
  <1>2. SilentFailuresExplained'
    BY <1>1 DEF SilentFailuresExplained
  <1>3. CallsResolve'
    <2> DEFINE offering == Offering(conf'.archive, last'.method)
    <2>1. (CASE last'.got = "no method" -> offering = {} \/ client'[last'.by].lossy
             [] last'.got = "answer"    -> last'.place.file \in offering
             [] OTHER -> \E e \in Registered[conf'.archive] : e.text.package = "")
      <3>1. CASE last'.got = "no method"
        <4>1. last'.got # "answer"
          BY <3>1
        <4>2. QED
          BY <3>1, <4>1
      <3>2. CASE last'.got = "answer"
        <4>1. last'.got # "no method"
          BY <3>2
        <4>2. QED
          BY <3>2, <4>1
      <3>3. CASE last'.got = "unimplemented"
        <4>1. last'.got # "no method" /\ last'.got # "answer"
          BY <3>3
        <4>2. QED
          BY <3>3, <4>1
      <3>4. QED
        BY <3>1, <3>2, <3>3
    <2>2. QED
      BY <2>1 DEF CallsResolve, Offering
  <1>4. SavedWhole'
    BY <1>1 DEF SavedWhole
  <1>5. HealthHonest'
    BY <1>1 DEF HealthHonest
  <1>6. QED
    BY <1>2, <1>3, <1>4, <1>5 DEF Honest

LEMMA EndsQuiet ==
    ASSUME NEW t, NEW w, Ends(t, NoResult) \/ Goes(t, w)
    PROVE  Honest'
  <1>1. last' = NoResult
    BY DEF Ends, Goes
  <1>2. QED
    BY <1>1, QuietHonest

\* An operation that fails because the chain cannot be read.
LEMMA UnreadExplained ==
    ASSUME IInv, Reads(FALSE), evm' = evm, conf' = conf
    PROVE  Explained'
  <1>1. faults' > 0 \/ (evm' = "closed" /\ conf'.rpc = "ws")
    BY ReadsFacts
  <1>2. QED
    BY <1>1 DEF Explained

\* One that fails because the client has no connection.
LEMMA UnconnectedExplained ==
    ASSUME IInv, NEW t \in Threads, client[t].conn = NoConn, client[t].state # "none", conf' = conf
    PROVE  Explained'
  <1>1. /\ ~conf.endpoint.valid \/ ~Compiled[conf.archive][client[t].lossy]
        /\ conf.archive \in Hashes /\ client[t].lossy \in BOOLEAN
    BY StateFacts DEF ClientOK
  <1>2. ~conf.endpoint.valid \/ ~Compiled[conf.archive][FALSE]
    BY <1>1, FilesClash
  <1>3. QED
    BY <1>2 DEF Explained

\* A client with a connection: its files, and where it finds the methods.
LEMMA ConnectedFacts ==
    ASSUME IInv, NEW t \in Threads, client[t].conn # NoConn
    PROVE  /\ conf.archive \in Hashes /\ client[t].lossy \in BOOLEAN
           /\ Compiled[conf.archive][client[t].lossy]
           /\ client[t].finds \in Findings[conf.archive][client[t].lossy]
           /\ Files(t) = Protos[conf.archive][client[t].lossy][TRUE]
  <1>1. client[t].trained \in BOOLEAN
    BY StateFacts DEF Client
  <1>2. /\ client[t].trained /\ Compiled[conf.archive][client[t].lossy]
        /\ client[t].finds \in Findings[conf.archive][client[t].lossy]
        /\ conf.archive \in Hashes /\ client[t].lossy \in BOOLEAN
    BY StateFacts DEF ClientOK
  <1>3. client[t].trained = TRUE
    BY <1>1, <1>2
  <1>4. QED
    BY <1>2, <1>3 DEF Files

LEMMA RegistryUnreadHonest ==
    ASSUME IInv, NEW t \in Threads, RegistryUnread(t)
    PROVE  Honest'
  <1>1. Reads(FALSE) /\ evm' = evm /\ conf' = conf /\ last' = [op |-> "build", got |-> "panic"]
    BY DEF RegistryUnread, Ends
  <1>2. Explained'
    BY <1>1, UnreadExplained
  <1>3. last'.op = "build" /\ last'.got = "panic"
    BY <1>1
  <1>4. QED
    BY <1>2, <1>3, FailureHonest

LEMMA SetFreeHonest ==
    ASSUME IInv, NEW t \in Threads, SetFree(t)
    PROVE  Honest'
  <1>1. client[t].state # "none" /\ conf' = conf
    BY DEF SetFree, Holds
  <1>2. CASE ~conf.group \/ client[t].conn = NoConn
    <2>1. last' = [op |-> "setFree", got |-> "panic"]
      BY <1>2 DEF SetFree, Ends
    <2>2. last'.op = "setFree" /\ last'.got = "panic"
      BY <2>1
    <2>3. Explained'
      <3>1. CASE ~conf.group
        BY <1>1, <2>2, <3>1 DEF Explained
      <3>2. CASE client[t].conn = NoConn
        BY <1>1, <3>2, UnconnectedExplained
      <3>3. QED
        BY <1>2, <3>1, <3>2
    <2>4. QED
      BY <2>2, <2>3, FailureHonest
  <1>3. CASE conf.group /\ client[t].conn # NoConn
    <2>1. Goes(t, [step |-> "rpc", op |-> "free"]) \/ Ends(t, NoResult)
      BY <1>3 DEF SetFree
    <2>2. QED
      BY <2>1, EndsQuiet
  <1>4. QED
    BY <1>2, <1>3

LEMMA CallIsHonest ==
    ASSUME IInv, NEW t \in Threads, Call(t)
    PROVE  Honest'
  <1>1. client[t].pays /\ conf' = conf /\ client' = client /\ evm' = evm
    BY DEF Call
  <1>2. client[t].conn # NoConn
    BY <1>1, StateFacts DEF ClientOK
  <1>3. PICK method \in Methods, ok \in BOOLEAN :
          /\ Reads(ok)
          /\ LET place == client[t].finds[method] IN
             IF place = NoMethod
             THEN Ends(t, [op |-> "call", got |-> "no method", method |-> method, by |-> t])
             ELSE IF ok THEN Goes(t, [step |-> "rpc", op |-> "call", place |-> place,
                                      method |-> method])
             ELSE Ends(t, [op |-> "call", got |-> "panic"])
    BY DEF Call
  <1>4. CASE client[t].finds[method] = NoMethod
    <2>1. last' = [op |-> "call", got |-> "no method", method |-> method, by |-> t]
      BY <1>3, <1>4 DEF Ends
    <2>2. last'.op = "call" /\ last'.got = "no method" /\ last'.method = method /\ last'.by = t
      BY <2>1
    <2>3. Offering(conf.archive, method) = {} \/ client[t].lossy
      BY <1>2, <1>4, ConnectedFacts, NotFound
    <2>4. Offering(conf'.archive, last'.method) = {} \/ client'[last'.by].lossy
      BY <1>1, <2>2, <2>3
    <2>5. last'.got # "answer" /\ last'.got # "unimplemented"
      BY <2>2
    <2>6. QED
      BY <2>2, <2>4, <2>5, CallHonest
  <1>5. CASE client[t].finds[method] # NoMethod /\ ok
    <2>1. \E w : Goes(t, w)
      BY <1>3, <1>5
    <2>2. QED
      BY <2>1, EndsQuiet
  <1>6. CASE client[t].finds[method] # NoMethod /\ ~ok
    <2>1. last' = [op |-> "call", got |-> "panic"] /\ Reads(FALSE)
      BY <1>3, <1>6 DEF Ends
    <2>2. last'.op = "call" /\ last'.got = "panic"
      BY <2>1
    <2>3. QED
      BY <1>1, <2>1, <2>2, UnreadExplained, FailureHonest
  <1>7. QED
    BY <1>4, <1>5, <1>6

LEMMA GetFreeHonest ==
    ASSUME IInv, NEW t \in Threads, GetFreeCallsAvailable(t)
    PROVE  Honest'
  <1>1. conf' = conf /\ evm' = evm
    BY DEF GetFreeCallsAvailable
  <1>2. CASE Goes(t, [step |-> "rpc", op |-> "free"])
    BY <1>2, EndsQuiet
  <1>3. CASE Reads(FALSE) /\ Ends(t, [op |-> "available", got |-> "zero"])
    <2>1. last'.op = "available" /\ last'.got = "zero"
      BY <1>3 DEF Ends
    <2>2. QED
      BY <1>1, <1>3, <2>1, UnreadExplained, FailureHonest
  <1>4. QED
    BY <1>2, <1>3 DEF GetFreeCallsAvailable

LEMMA CheckGRPCHonest ==
    ASSUME IInv, NEW t \in Threads, CheckGRPC(t)
    PROVE  Honest'
  <1>1. conf' = conf /\ client[t].state # "none"
    BY DEF CheckGRPC, Holds
  <1>2. CASE Goes(t, [step |-> "rpc", op |-> "health"])
    BY <1>2, EndsQuiet
  <1>3. CASE client[t].conn = NoConn /\ Ends(t, [op |-> "health", got |-> "panic"])
    <2>1. last'.op = "health" /\ last'.got = "panic"
      BY <1>3 DEF Ends
    <2>2. QED
      BY <1>1, <1>3, <2>1, UnconnectedExplained, FailureHonest
  <1>4. QED
    BY <1>2, <1>3 DEF CheckGRPC

LEMMA AnsweredHonest ==
    ASSUME IInv, NEW t \in Threads, Answered(t)
    PROVE  Honest'
  <1>1. conf' = conf /\ client' = client /\ work[t].step = "rpc"
    BY DEF Answered
  <1>2. CASE Ends(t, NoResult)
    BY <1>2, EndsQuiet
  <1>3. CASE ~Ends(t, NoResult)
    <2> DEFINE place == work[t].place
               method == work[t].method
               got == IF Path(Files(t), place) = FullName(Files(t), place)
                      THEN "answer" ELSE "unimplemented"
    <2>1. /\ work[t].op = "call"
          /\ last' = [op |-> "call", by |-> t, method |-> method, place |-> place, got |-> got]
      BY <1>3 DEF Answered, Ends
    <2>2. work[t] \in Calling
      BY <1>1, <2>1, StateFacts, WorkFacts
    <2>3. /\ client[t].conn # NoConn /\ method \in Methods
          /\ place = client[t].finds[method] /\ place # NoMethod
      BY <2>2, StateFacts DEF WorkOK, Calling
    <2>4. /\ place.file \in Offering(conf.archive, method)
          /\ Files(t)[place.file].package = "" =>
                \E e \in Registered[conf.archive] : e.text.package = ""
      BY <2>3, ConnectedFacts, FoundThere
    <2>5. Files(t)[place.file].package # "" => got = "answer"
      BY DEF Path, FullName
    <2>6. got \in {"answer", "unimplemented"}
      OBVIOUS
    <2>7. /\ last'.op = "call" /\ last'.got = got /\ last'.method = method
          /\ last'.place = place
      BY <2>1
    <2> HIDE DEF got, place, method
    <2>8. last'.got # "no method" /\ last'.got \in {"answer", "unimplemented"}
      BY <2>6, <2>7
    <2>9. last'.place.file \in Offering(conf'.archive, last'.method)
      BY <1>1, <2>4, <2>7
    <2>10. last'.got = "unimplemented" =>
              \E e \in Registered[conf'.archive] : e.text.package = ""
      <3>1. "unimplemented" # "answer"
        OBVIOUS
      <3>2. QED
        BY <1>1, <2>4, <2>5, <2>7, <3>1
    <2>11. QED
      BY <2>7, <2>8, <2>9, <2>10, CallHonest
  <1>4. QED
    BY <1>2, <1>3

LEMMA HTTPAnswersHonest ==
    ASSUME IInv, NEW t \in Threads, HTTPAnswers(t)
    PROVE  Honest'
  <1>1. CASE Ends(t, NoResult)
    BY <1>1, EndsQuiet
  <1>2. CASE ~Ends(t, NoResult)
    <2>0. PICK body \in Bodies : \E got \in Reports[body] :
             last' = [op |-> "web", got |-> got, body |-> body]
      BY <1>2 DEF HTTPAnswers, Ends
    <2>1. PICK got \in Reports[body] : last' = [op |-> "web", got |-> got, body |-> body]
      BY <2>0
    <2>2. last'.op = "web" /\ last'.got = got /\ last'.body = body
      BY <2>1
    <2>3. body \in [frames : Seq(Frame), rest : Rest]
      BY ClientsAssumption
    <2>4. (CASE got = "error" -> ~Decodable(body)
             [] got = "panic" -> body.rest = "header"
             [] OTHER -> Decodable(body) /\ got = LastMessage(body))
      BY <2>3, WebIsHonest DEF Reports
    <2>5. HealthHonest'
      BY <2>2, <2>4 DEF HealthHonest
    <2>6. /\ last'.op \notin {"build", "setFree", "call", "available", "health"}
          /\ last'.op # "call" /\ last'.op # "save"
      BY <2>2
    <2>7. SilentFailuresExplained' /\ CallsResolve' /\ SavedWhole'
      BY <2>6 DEF SilentFailuresExplained, CallsResolve, SavedWhole
    <2>8. QED
      BY <2>5, <2>7 DEF Honest
  <1>3. QED
    BY <1>1, <1>2

LEMMA SaveHonest ==
    ASSUME IInv, NEW t \in Threads, Save(t) \/ SaveAsZip(t)
    PROVE  Honest'
  <1>1. CASE Ends(t, NoResult)
    BY <1>1, EndsQuiet
  <1>2. CASE ~Ends(t, NoResult)
    <2>1. /\ conf' = conf /\ client' = client
          /\ \/ last' = Saved(t, Files(t), TRUE)
             \/ \E files \in {<<>>, Files(t)} : last' = Saved(t, files, FALSE)
      BY <1>2 DEF Save, SaveAsZip, NotSaved, Ends
    <2>2. /\ last'.op = "save" /\ last'.by = t
          /\ last'.closed => last'.files = Files(t)
      BY <2>1 DEF Saved
    <2>3. /\ client[t].lossy \in BOOLEAN /\ client[t].trained \in BOOLEAN
          /\ conf.archive \in Hashes
      BY StateFacts DEF Client
    <2>4. ASSUME ~client[t].lossy, NEW e \in Registered[conf.archive]
          PROVE  /\ e.name \in DOMAIN Files(t)
                 /\ \/ Files(t)[e.name] = e.text
                    \/ e.name = TrainingName /\ Files(t)[e.name] = TrainingText
      <3>1. client[t].lossy = FALSE
        BY <2>3, <2>4
      <3>2. Files(t) = Protos[conf.archive][FALSE][client[t].trained]
        BY <3>1 DEF Files
      <3>3. QED
        BY <2>3, <3>2, FilesWhole
    <2>5. SavedWhole'
      BY <2>1, <2>2, <2>4 DEF SavedWhole
    <2>6. /\ last'.op \notin {"build", "setFree", "call", "available", "health"}
          /\ last'.op # "call" /\ last'.op # "web"
      BY <2>2
    <2>7. SilentFailuresExplained' /\ CallsResolve' /\ HealthHonest'
      BY <2>6 DEF SilentFailuresExplained, CallsResolve, HealthHonest
    <2>8. QED
      BY <2>5, <2>7 DEF Honest
  <1>3. QED
    BY <1>1, <1>2

\* The steps that give nothing.
LEMMA QuietSteps ==
    ASSUME NEW t \in Threads,
           \/ \E via \in {"core", "organization"} : ReadService(t, via)
           \/ ServiceMissing(t) \/ CheckHTTP(t) \/ CloseGRPC(t) \/ Step(t)
    PROVE  Honest'
  <1>1. \E w : Ends(t, NoResult) \/ Goes(t, w)
    <2>1. ASSUME NEW via, ReadService(t, via) PROVE \E w : Ends(t, NoResult) \/ Goes(t, w)
      BY <2>1 DEF ReadService
    <2>2. CASE ServiceMissing(t) \/ CheckHTTP(t) \/ CloseGRPC(t)
      BY <2>2 DEF ServiceMissing, CheckHTTP, CloseGRPC
    <2>3. CASE Step(t)
      BY <2>3 DEF Step, Dial, Redial, RPCFails, CloseEVM
    <2>4. QED
      BY <2>1, <2>2, <2>3
  <1>2. QED
    BY <1>1, EndsQuiet

LEMMA InitHonest ==
    ASSUME Init
    PROVE  Honest
  <1>1. /\ last.op \notin {"build", "setFree", "call", "available", "health"}
        /\ last.op # "call" /\ last.op # "save" /\ last.op # "web"
    BY DEF Init, NoResult
  <1>2. SilentFailuresExplained
    BY <1>1 DEF SilentFailuresExplained
  <1>3. CallsResolve
    BY <1>1 DEF CallsResolve
  <1>4. SavedWhole
    BY <1>1 DEF SavedWhole
  <1>5. HealthHonest
    BY <1>1 DEF HealthHonest
  <1>6. QED
    BY <1>2, <1>3, <1>4, <1>5 DEF Honest

LEMMA NextHonest ==
    ASSUME IInv, Honest, [Next]_vars
    PROVE  Honest'
  <1>1. CASE NewSDK \/ CloseCore
    <2>1. last' = NoResult
      BY <1>1 DEF NewSDK, CloseCore
    <2>2. QED
      BY <2>1, QuietHonest
  <1>2. CASE UNCHANGED vars
    <2>1. /\ last' = last /\ conf' = conf /\ client' = client
          /\ evm' = evm /\ faults' = faults
      BY <1>2 DEF vars
    <2>2. SilentFailuresExplained'
      BY <2>1 DEF Honest, SilentFailuresExplained
    <2>3. CallsResolve'
      BY <2>1 DEF Honest, CallsResolve
    <2>4. SavedWhole'
      BY <2>1 DEF Honest, SavedWhole
    <2>5. HealthHonest'
      BY <2>1 DEF Honest, HealthHonest
    <2>6. QED
      BY <2>2, <2>3, <2>4, <2>5 DEF Honest
  <1>3. ASSUME NEW t \in Threads, \/ RegistryUnread(t) \/ SetFree(t) \/ Call(t)
                                  \/ GetFreeCallsAvailable(t) \/ CheckGRPC(t)
                                  \/ Answered(t) \/ HTTPAnswers(t) \/ Save(t)
                                  \/ SaveAsZip(t)
        PROVE  Honest'
    BY <1>3, RegistryUnreadHonest, SetFreeHonest, CallIsHonest, GetFreeHonest,
       CheckGRPCHonest, AnsweredHonest, HTTPAnswersHonest, SaveHonest
  <1>4. ASSUME NEW t \in Threads,
               \/ \E via \in {"core", "organization"} : ReadService(t, via)
               \/ ServiceMissing(t) \/ CheckHTTP(t) \/ CloseGRPC(t) \/ Step(t)
        PROVE  Honest'
    BY <1>4, QuietSteps
  <1>5. QED
    BY <1>1, <1>2, <1>3, <1>4 DEF Next

LEMMA AlwaysHonest == Spec => []Honest
  <1>1. Init => IInv /\ Honest
    BY InitIInv, InitHonest
  <1>2. IInv /\ Honest /\ [Next]_vars => (IInv /\ Honest)'
    BY NextIInv, NextHonest
  <1>3. QED
    BY <1>1, <1>2, PTL DEF Spec

-----------------------------------------------------------------------------
(* The theorems. *)

\* Every gRPC connection that is open can be closed with the Close of a client
\* some goroutine holds, but for one for each client built through the Core:
\* Core.NewServiceClient dials twice and keeps one of the two (pkg/sdk/service.go).
THEOREM ServiceClientsAccountForConnections == Spec => []ConnectionsAccounted
  <1>1. IInv => ConnectionsAccounted
    BY DEF IInv
  <1>2. QED
    BY <1>1, AlwaysIInv, PTL

\* An operation panics, or gives no free calls and no error, only if a fault
\* happened, the WebSocket of the Core was closed by any of its clients, the
\* endpoint cannot be dialled or the files do not compile (pkg/sdk, pkg/grpc), or
\* SetFreePaymentStrategy needs a group the organisation lacks (service.go:384).
THEOREM ServiceClientsExplainFailures == Spec => []SilentFailuresExplained
  <1>1. Honest => SilentFailuresExplained
    BY DEF Honest
  <1>2. QED
    BY <1>1, AlwaysHonest, PTL

\* In whatever order the map gives the .proto files, a call goes to one that
\* declares the method, and is refused only where none does (pkg/grpc).
THEOREM ServiceClientsResolveCalls == Spec => []CallsResolve
  <1>1. Honest => CallsResolve
    BY DEF Honest
  <1>2. QED
    BY <1>1, AlwaysHonest, PTL

\* What ProtoFiles().Save and SaveAsZip write without an error is all that was
\* registered, the later of two entries of the archive with one name
\* (pkg/storage/ipfs.go), with the client's own training.proto (pkg/grpc), unless
\* the archive was lost or closing the zip archive failed (proto.go:83-98).
THEOREM ServiceClientsSaveAll == Spec => []SavedWhole
  <1>1. Honest => SavedWhole
    BY DEF Honest
  <1>2. QED
    BY <1>1, AlwaysHonest, PTL

\* However many frames the gRPC-Web answer of a health check has, what is
\* reported is its last message (pkg/sdk/heartbeat.go).
THEOREM ServiceClientsReportHealth == Spec => []HealthHonest
  <1>1. Honest => HealthHonest
    BY DEF Honest
  <1>2. QED
    BY <1>1, AlwaysHonest, PTL
================================================================================
