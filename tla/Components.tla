------------------------------- MODULE Components -------------------------------
(***************************************************************************)
(* The components that do not interact with each other, side by side: a    *)
(* behaviour runs one of them, its focus, and leaves the others in their   *)
(* initial state. The reports and the devices of a storage share nothing   *)
(* and are in focus in turn.                                               *)
(***************************************************************************)
EXTENDS Naturals, Sequences, FiniteSets, Codec

CONSTANTS
    Reports, Writers, Terminals, Limit, MaxSaves, Bounds,
    Msgs, MaxDrops, MaxSends,
    Tasks, MinWorkers, MaxWorkers, QueueSize, MaxStarted,
    Devices, Conns, NoConn, ShardCount, Hash,
    Keys, Watchers, Guarded, Values, Unset, MaxSets,
    MaxMsgs, MaxPacketSize, Noise

(* Reports have distinct identities.                                        *)
ASSUME ReportsAssumption ==
    /\ Limit \in Nat
    /\ \A r \in Reports :
        r.id \in Nat /\ r.kind \in {"location", "alarm"} /\ r.time \in Nat /\ r.zone \in Nat
    /\ \A b \in Bounds : b.time \in Nat /\ b.zone \in Nat
    /\ \A q, r \in Reports : q.id = r.id => q = r

(* NewWorkerPool replaces limits that are not positive; it does not compare *)
(* them.                                                                    *)
ASSUME WorkersAssumption ==
    /\ MinWorkers \in Nat \ {0} /\ MaxWorkers \in Nat \ {0}
    /\ QueueSize \in Nat /\ MaxStarted \in Nat

(* getShard reduces the hash to the shards there are.                       *)
ASSUME ConnsAssumption ==
    /\ NoConn \notin Conns /\ IsFiniteSet(Devices)
    /\ ShardCount \in Nat \ {0} /\ Hash \in [Devices -> 1..ShardCount]

VARIABLES
    focus,
    backend, recs, pipe, ttl, cut, bare, expired, acked, arrived, saves, devs, online, ackedDevs, fresh,
    broker, calls, inFlight, async, retrying, sends, line, out, held, sub, consuming, pos, pending,
    committed, handled, interrupted, passedOver, skipped, reached, stranded, drops,
    queue, cancelled, closed, spc, grow, listed, made, idle, busy, stop, grown, crowded, late,
    entries, count, total, clearing, mixed, ranging, seen, steady,
    values, watchers, notes, running, sets, latest, told, got, reread, due, raced,
    sent, stream, read, ended, eof, damaged

storage ==
    <<backend, recs, pipe, ttl, cut, bare, expired, acked, arrived, saves, devs, online, ackedDevs, fresh>>
pubsub ==
    <<broker, calls, inFlight, async, retrying, sends, line, out, held, sub, consuming, pos, pending,
      committed, handled, interrupted, passedOver, skipped, reached, stranded, drops>>
workers == <<queue, cancelled, closed, spc, grow, listed, made, idle, busy, stop, grown, crowded, late>>
conns == <<entries, count, total, clearing, mixed, ranging, seen, steady>>
config == <<values, watchers, notes, running, sets, latest, told, got, reread, due, raced>>
framing == <<sent, stream, read, ended, eof, damaged>>
vars == <<focus, storage, pubsub, workers, conns, config, framing>>

S == INSTANCE Storage
P == INSTANCE PubSub
W == INSTANCE CoreWorkerPool
C == INSTANCE CoreConnPool
F == INSTANCE Config
Link == INSTANCE Framing WITH got <- read

(* Of the initial states of a component out of focus one is enough.         *)
Init ==
    /\ focus \in {"storage", "devices", "pubsub", "workers", "conns", "config", "framing"}
    /\ S!Init /\ P!Init /\ W!Init /\ C!Init /\ F!Init /\ Link!Init
    /\ focus \notin {"storage", "devices"} => backend = "memory"
    /\ focus # "pubsub" => broker = "redis"

Next ==
    /\ UNCHANGED focus
    /\ CASE focus = "storage" -> S!ReportNext
         [] focus = "devices" -> S!DeviceNext
         [] OTHER -> UNCHANGED storage
    /\ IF focus = "pubsub" THEN P!Next ELSE UNCHANGED pubsub
    /\ IF focus = "workers" THEN W!Next ELSE UNCHANGED workers
    /\ IF focus = "conns" THEN C!Next ELSE UNCHANGED conns
    /\ IF focus = "config" THEN F!Next ELSE UNCHANGED config
    /\ IF focus = "framing" THEN Link!Next ELSE UNCHANGED framing

Spec == Init /\ [][Next]_vars

-----------------------------------------------------------------------------
(* Properties: those of the module of the component in focus                *)

(* core.Storage: acknowledged reports stay, Redis keys settle, queries      *)
(* return the reports between their bounds, as far as the backend can tell, *)
(* and registrations are kept (see Storage).                                *)
AckedKept == focus = "storage" => S!AckedKept
PipelineSettles == focus = "storage" => S!PipelineSettles
QueryExact == focus = "storage" => S!QueryExact
DevicesKept == focus = "devices" => S!DevicesKept
(* The publishers: nothing is dropped, handled twice or reordered without   *)
(* the reason given (see PubSub).                                           *)
NothingDropped == focus = "pubsub" => P!NothingDropped
DuplicatesExplained == focus = "pubsub" => P!DuplicatesExplained
OrderKept == focus = "pubsub" => P!OrderKept
(* By how much Submits exceed maxWorkers, and which workers outlive Stop    *)
(* (see CoreWorkerPool).                                                    *)
WorkersAccounted == focus = "workers" => W!WorkersAccounted
(* Size is exact, and Range is complete (see CoreConnPool).                 *)
TotalExact == focus = "conns" => C!TotalExact
RangeSees == focus = "conns" => C!RangeSees
(* Watchers are told of the last change, and which of them end with it (see *)
(* Config).                                                                 *)
WatchersCurrent == focus = "config" => F!WatchersCurrent
(* A server passes on what was sent and objects to no frame of a legal size *)
(* (see Framing).                                                           *)
OnlyWhatWasSent == focus = "framing" => Link!OnlyWhatWasSent
OnlyOversizeRefused == focus = "framing" => Link!OnlyOversizeRefused
================================================================================
