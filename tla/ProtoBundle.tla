------------------------------ MODULE ProtoBundle ------------------------------
(***************************************************************************)
(* The .proto files of a service: how they come out of the archive         *)
(* (ParseProtoFiles, pkg/storage/ipfs.go), how they are compiled and how a *)
(* method is found in them (pkg/grpc).                                     *)
(*                                                                         *)
(* The text of a file is what the compiler sees in it: whether it is       *)
(* accepted, its package ("" for none) and, in order, its services with    *)
(* the names of their methods.                                             *)
(***************************************************************************)
EXTENDS Naturals, Sequences, FiniteSets

CONSTANTS TrainingText   \* of the embedded training.proto

TrainingName == "training.proto"
NoMethod     == [file |-> "", service |-> ""]

\* An archive: how it is packed, and its entries in order.
Text    == [accepted : BOOLEAN, package : STRING,
            services : Seq([name : STRING, methods : SUBSET STRING])]
Entry   == [type : {"dir", "regular", "other"}, name : STRING, proto : BOOLEAN, text : Text]
Archive == [packed : {"plain", "gzip", "corrupt"}, entries : Seq(Entry)]

\* The embedded file, which every client's compiler is given, is a good one.
ASSUME BundleAssumption ==
    TrainingText \in Text /\ TrainingText.accepted /\ TrainingText.package # ""

\* A name given twice keeps the last text; what is not a .proto is skipped.
ProtoEntries(archive) ==
    {i \in 1..Len(archive.entries) :
        archive.entries[i].type = "regular" /\ archive.entries[i].proto}

Latest(archive, name) ==
    CHOOSE i \in ProtoEntries(archive) :
        /\ archive.entries[i].name = name
        /\ \A j \in ProtoEntries(archive) : archive.entries[j].name = name => j <= i

\* Can it be read?  One entry that is neither a file nor a directory spoils it.
Parses(archive) ==
    /\ archive.packed \in {"plain", "gzip"}
    /\ \A i \in 1..Len(archive.entries) : archive.entries[i].type \in {"dir", "regular"}

\* Wrong variant: the first of two entries with a name is kept.
ParseProtoFirst(archive) ==
    [name \in {archive.entries[i].name : i \in ProtoEntries(archive)} |->
        archive.entries[CHOOSE i \in ProtoEntries(archive) :
            /\ archive.entries[i].name = name
            /\ \A j \in ProtoEntries(archive) : archive.entries[j].name = name => i <= j].text]

\* The map of file names to texts.
ParseProtoFiles(archive) ==
    [name \in {archive.entries[i].name : i \in ProtoEntries(archive)} |->
        archive.entries[Latest(archive, name)].text]

\* getProtoDescriptors puts training.proto into the map it is given.
WithTraining(protos) ==
    [name \in DOMAIN protos \cup {TrainingName} |->
        IF name = TrainingName THEN TrainingText ELSE protos[name]]

Declared(text) == {text.services[i].name : i \in 1..Len(text.services)}

\* Every file is accepted and no two declare the same service.
Compiles(protos) ==
    /\ \A name \in DOMAIN protos : protos[name].accepted
    /\ \A a, b \in DOMAIN protos :
         a # b /\ protos[a].package = protos[b].package
            => Declared(protos[a]) \cap Declared(protos[b]) = {}

\* The files in the order the map gives them, which is any.
Orders(protos) ==
    {order \in [1..Cardinality(DOMAIN protos) -> DOMAIN protos] :
        \A i, j \in DOMAIN order : order[i] = order[j] => i = j}

\* Where a method is declared, as places <<file, service>> in an order.
Places(protos, order, method) ==
    UNION {{<<i, j>> : j \in {k \in 1..Len(protos[order[i]].services) :
                                method \in protos[order[i]].services[k].methods}}
           : i \in 1..Len(order)}

\* Wrong variant: only the first file is searched.
FindMethodFirstFile(protos, order, method) ==
    LET found == {j \in 1..Len(protos[order[1]].services) :
                    method \in protos[order[1]].services[j].methods}
    IN  IF order = <<>> \/ found = {} THEN NoMethod
        ELSE [file |-> order[1],
              service |-> protos[order[1]].services[CHOOSE j \in found : TRUE].name]

\* The first place wins.
FindMethod(protos, order, method) ==
    LET places == Places(protos, order, method) IN
    IF places = {} THEN NoMethod
    ELSE LET first == CHOOSE p \in places : \A q \in places :
                         p[1] < q[1] \/ (p[1] = q[1] /\ p[2] <= q[2])
         IN  [file    |-> order[first[1]],
              service |-> protos[order[first[1]]].services[first[2]].name]

\* The path a call names, "/<package>.<Service>/<Method>", and the full name of
\* the service, which has no dot in front if the file has no package.
Path(protos, place) == <<protos[place.file].package, ".", place.service>>
FullName(protos, place) ==
    IF protos[place.file].package = "" THEN <<place.service>>
    ELSE <<protos[place.file].package, ".", place.service>>
================================================================================
