---------------------------- MODULE MCServiceClients ----------------------------
(* Two goroutines; services whose archives and endpoints are as different as *)
(* the code can tell apart.                                                   *)
EXTENDS ServiceClients

File(package, service, methods) ==
    [accepted |-> TRUE, package |-> package,
     services |-> <<[name |-> service, methods |-> methods]>>]
MCTraining == File("training", "Model", {"train"})

Proto(name, text) == [type |-> "regular", name |-> name, proto |-> TRUE, text |-> text]
Other(type)       == [type |-> type, name |-> "x", proto |-> FALSE, text |-> MCTraining]

\* The same method in two files, and an older text under one of the names.
Twice == [packed |-> "gzip", entries |->
            <<Other("dir"), Proto("a", File("p", "Old", {"sub"})), Other("regular"),
              Proto("a", File("p", "Calc", {"add"})), Proto("b", File("q", "More", {"mul", "add"}))>>]
\* No package, and a training.proto of its own.
Own   == [packed |-> "plain", entries |->
            <<Proto("a", File("", "Calc", {"add"})),
              Proto(TrainingName, File("r", "Own", {"mul"}))>>]
\* Two files that declare the same service.
Clash == [packed |-> "plain", entries |->
            <<Proto("a", File("p", "Calc", {"add"})), Proto("b", File("p", "Calc", {"mul"}))>>]
Link  == [packed |-> "plain", entries |-> <<Other("other")>>]

IPFS     == [scheme |-> "ipfs", cid |-> TRUE]
Filecoin == [scheme |-> "filecoin", cid |-> TRUE]
NotACID  == [scheme |-> "none", cid |-> FALSE]

MCConf(rpc, patience, scheme, valid, model, source, archive) ==
    [rpc |-> rpc, patience |-> patience, endpoint |-> [scheme |-> scheme, valid |-> valid],
     group |-> TRUE,
     model |-> model, source |-> source, archive |-> archive]

MCStored == [twice |-> Twice, own |-> Own, clash |-> Clash, link |-> Link]

MCConfs == {MCConf("ws", "zero", "https", TRUE, NotACID, IPFS, "twice"),
            MCConf("http", "negative", "http", TRUE, Filecoin, Nil, "own"),
            MCConf("http", "positive", "bare", TRUE, Nil, Filecoin, "clash"),
            MCConf("ws", "zero", "https", FALSE, Nil, IPFS, "twice"),
            MCConf("ws", "zero", "http", TRUE, Nil, Nil, "link"),
            MCConf("http", "zero", "http", TRUE, Nil, IPFS, "link"),
            MCConf("http", "zero", "http", TRUE, IPFS, NotACID, "own"),
            [MCConf("http", "positive", "https", TRUE, Nil, IPFS, "twice") EXCEPT !.group = FALSE],
            MCConf("", "zero", "http", TRUE, Nil, IPFS, "own")}

Message(payload) == [trailers |-> FALSE, payload |-> payload]
Trailers         == [trailers |-> TRUE, payload |-> Garbled]
MCBodies ==
    {[frames |-> <<Message("SERVING"), Trailers>>, rest |-> "none"],
     [frames |-> <<Message("SERVING"), Message("NOT_SERVING")>>, rest |-> "none"],
     [frames |-> <<Message("SERVING"), Message(Garbled)>>, rest |-> "none"],
     [frames |-> <<>>, rest |-> "payload"],
     [frames |-> <<Message("SERVING")>>, rest |-> "header"]}
================================================================================
