------------------------------ MODULE MCServices ------------------------------
(***************************************************************************)
(* The services whose progress matters, in one model: part names the one   *)
(* that runs, the others stay as they began.                               *)
(***************************************************************************)
EXTENDS StdioChannel, BridgePromise, ImportPromise, TLC

CONSTANTS
  NoJob,        \* ImportPipeline
  None          \* FusionBridge

VARIABLES
  part,
  importer, left,
  official, addin, started, discovery, cache, failures, hot, pending, events, main, answers,
  happened, timeouts

-----------------------------------------------------------------------------
(* The exports: one conversation twice, with and without its image; an     *)
(* item of each kind that is not imported; a file that ends too early.     *)
-----------------------------------------------------------------------------
Conv(name, ids) == [conv |-> name, msgs |-> ids]
Export(zip, whole, items) == [zip |-> zip, whole |-> whole, items |-> items]
Uploads == {Export(FALSE, TRUE, <<Conv("c1", {1}), Odd>>),
            Export(TRUE, TRUE, <<Corrupt, Conv("c1", {1, 2})>>),
            Export(FALSE, FALSE, <<Conv("c2", {1})>>)}
Import == INSTANCE ImportPipeline WITH
  Convs <- {"c1", "c2"}, Images <- {<<"c1", 1>>}, Exports <- Uploads,
  MaxDeletes <- 1, MaxCrashes <- 1, MaxOutages <- 1, Durable <- FALSE
Redis == INSTANCE ImportPipeline WITH
  Convs <- {"c1"}, Images <- {}, Exports <- {Export(FALSE, TRUE, <<Conv("c1", {1}), Odd>>)},
  MaxDeletes <- 0, MaxCrashes <- 1, MaxOutages <- 0, Durable <- TRUE
Bridge == INSTANCE FusionBridge WITH
  sessions <- started, Threshold <- 2, MaxEvents <- 2, MaxTimeouts <- 1, SamePath <- TRUE

ASSUME Import!ImportAssumption /\ Redis!ImportAssumption /\ Bridge!BridgeAssumption

importVars == <<request, archive, job, sessions, messages, status, importer, recovering, left,
                struck, removed, stale>>
bridgeVars == <<official, addin, started, discovery, cache, failures, hot, step, pending, events,
                main, answers, document, happened, timeouts, abandoned, cut>>
allVars == <<part, vars, importVars, bridgeVars>>

MCInit ==
  /\ part \in {"import", "redis", "channel", "bridge"}
  /\ IF part = "redis" THEN Redis!Init ELSE Import!Init
  /\ Init /\ Bridge!Init
  /\ part # "bridge" => ~official /\ addin = 0

\* Bounds: of a deletion, a crash and an outage at most two happen in a
\* behaviour, and so of the events and timeouts of the bridge.
AtMostTwo ==
  /\ part = "import" => left'.deletes + left'.crashes + left'.outages > 0
  /\ happened' + timeouts' <= 2

MCNext ==
  /\ \/ part = "import" /\ Import!Next
     \/ part = "redis" /\ Redis!Next
     \/ part = "channel" /\ Next
     \/ part = "bridge" /\ Bridge!Next
  /\ UNCHANGED part
  /\ IF part \in {"import", "redis"} THEN TRUE ELSE UNCHANGED importVars
  /\ IF part = "channel" THEN TRUE ELSE UNCHANGED vars
  /\ IF part = "bridge" THEN TRUE ELSE UNCHANGED bridgeVars
  /\ AtMostTwo

\* The fairness of each part, while it is the one that runs.
ImportFairness ==
  /\ \A j \in Jobs : WF_importVars(part = "import" /\ Import!Request(j))
  /\ WF_importVars(part = "import" /\ (Import!Import \/ \E j \in Jobs : Import!Take(j)))
  /\ WF_importVars(part = "import" /\ Import!Recover)
  /\ \A j \in Jobs :
       /\ WF_importVars(part = "redis" /\ Redis!Request(j))
       /\ WF_importVars(part = "redis" /\ Redis!MarkerExpires(j))
  /\ WF_importVars(part = "redis" /\ (Redis!Import \/ \E j \in Jobs : Redis!Take(j)))
  /\ WF_importVars(part = "redis" /\ Redis!Recover)
ChannelFairness ==
  /\ \A t \in Threads :
       /\ WF_vars(part = "channel" /\ Acquire(t))
       /\ WF_vars(part = "channel" /\ Write(t))
       /\ WF_vars(part = "channel" /\ Read(t))
  /\ WF_vars(part = "channel" /\ CloseEnd)
  /\ WF_vars(part = "channel" /\ Take)
  /\ WF_vars(part = "channel" /\ Reply)
BridgeFairness ==
  /\ WF_bridgeVars(part = "bridge" /\ Bridge!Status)
  /\ WF_bridgeVars(part = "bridge" /\ Bridge!CacheExpires)
  /\ WF_bridgeVars(part = "bridge" /\ Bridge!BackoffPasses)

MCSpec == MCInit /\ [][MCNext]_allVars /\ ImportFairness /\ ChannelFairness /\ BridgeFairness
-----------------------------------------------------------------------------
(* The properties of the parts, stated in their modules                    *)
-----------------------------------------------------------------------------
\* Imports: see ImportPipeline, and ImportPromise for ImportsAccounted.  With a
\* queue that dies with its process the recovery is never stale.
JobsSettle == Import!JobsSettle /\ [](part = "import" => stale = {})

\* The bridge to Fusion: see FusionBridge, and BridgePromise for BridgeBuildsOnce.
AddinIsFound == Bridge!AddinIsFound
=============================================================================
