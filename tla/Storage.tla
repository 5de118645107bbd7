-------------------------------- MODULE Storage --------------------------------
(***************************************************************************)
(* The four implementations of core.Storage: storage/memory.go,            *)
(* storage/redis, storage/mysql and storage/postgres. The reports of one   *)
(* device are kept by kind, location or alarm. Memory works under a lock   *)
(* and a database executes a statement at once; the Redis pipeline is      *)
(* three commands that other writers come between and that a lost          *)
(* connection cuts short; the client sends it again or gives up. A failed  *)
(* call of a database may have been executed.                              *)
(*                                                                         *)
(* The time of a report and the bounds of a query are any instants, here   *)
(* in quarters of a second, each with the zone of its time.Time as an      *)
(* offset. Microseconds, which both databases round to, are left out, and  *)
(* the repeated hour at the end of summer time, which MySQL, sent local    *)
(* times, cannot tell apart.                                               *)
(***************************************************************************)
EXTENDS Naturals, Sequences, FiniteSets

CONSTANTS
    Reports,      \* records with an id, a kind, a time and a zone
    Writers,      \* goroutines that save
    Terminals,    \* devices that register
    Limit,        \* 1000 in the code
    MaxSaves,     \* bound: saves in a behaviour
    Bounds        \* bounds of queries, with a time and a zone

VARIABLES
    backend,
    recs,         \* by kind, the stored reports in the order of the backend
    pipe,         \* the Redis pipeline of each writer
    ttl,          \* kinds whose Redis key has an expiry
    cut,          \* kinds with a pipeline cut short since the last trim
    bare,         \* kinds with a pipeline cut short since the key was created
    expired,      \* reports not added since their Redis key expired
    acked,        \* reports whose save returned nil
    arrived,      \* by kind, the saves of the memory storage in order
    saves,
    devs, online,   \* stored devices, those with status Online
    ackedDevs,      \* devices with a SaveDevice that returned nil
    fresh           \* those without a call of UpdateDeviceStatus since

reportVars == <<recs, pipe, ttl, cut, bare, expired, acked, arrived, saves>>
deviceVars == <<devs, online, ackedDevs, fresh>>
storageVars == <<backend, reportVars, deviceVars>>

Kinds == {"location", "alarm"}
Idle == [step |-> "none", rep |-> CHOOSE r \in Reports : TRUE]

Init ==
    /\ backend \in {"memory", "redis", "mysql", "postgres"}
    /\ recs = [k \in Kinds |-> <<>>]
    /\ pipe = [w \in Writers |-> Idle]
    /\ ttl = {} /\ cut = {} /\ bare = {} /\ expired = {} /\ acked = {} /\ saves = 0
    /\ arrived = [k \in Kinds |-> <<>>]
    /\ devs = {} /\ online = {} /\ ackedDevs = {} /\ fresh = {}

(* Fault: the newest report is dropped.                                     *)
FaultKeepOldest(s) == IF Len(s) > Limit THEN SubSeq(s, 1, Limit) ELSE s

(* s[len(s)-1000:], and ZREMRANGEBYRANK 0 -1001.                            *)
Trimmed(s) == IF Len(s) > Limit THEN SubSeq(s, Len(s) - Limit + 1, Len(s)) ELSE s

-----------------------------------------------------------------------------
(* Memory: the oldest arrivals are dropped.                                 *)
MemorySave(r) ==
    /\ backend = "memory" /\ saves < MaxSaves
    /\ recs' = [recs EXCEPT ![r.kind] = Trimmed(Append(@, r))]
    /\ arrived' = [arrived EXCEPT ![r.kind] = Append(@, r)]
    /\ acked' = acked \cup {r} /\ saves' = saves + 1
    /\ UNCHANGED <<backend, pipe, ttl, cut, bare, expired, deviceVars>>

MemorySaveLocation(r) == r.kind = "location" /\ MemorySave(r)
MemorySaveAlarm(r) == r.kind = "alarm" /\ MemorySave(r)

Stored(k) == {recs[k][i] : i \in DOMAIN recs[k]}

(* Fault: a bound of the query is exclusive.                                *)
FaultAfterStart(k, start, end) ==
    {r \in Stored(k) : r.time > start.time /\ ~(r.time > end.time)}

(* What a query returns; the order of the reports is left out.              *)
MemoryGet(k, start, end) ==
    {r \in Stored(k) : ~(r.time < start.time) /\ ~(r.time > end.time)}
MemoryGetLocations(start, end) == MemoryGet("location", start, end)
MemoryGetAlarms(start, end) == MemoryGet("alarm", start, end)

-----------------------------------------------------------------------------
(* Redis                                                                    *)

Second == 4
Unix(t) == t \div Second

(* The order of the sorted set: by score, then by member.                   *)
Before(q, r) == Unix(q.time) < Unix(r.time) \/ (Unix(q.time) = Unix(r.time) /\ q.id < r.id)

(* ZADD; the same member is not added twice.                                *)
ZAdd(s, r) ==
    LET n == Cardinality({i \in DOMAIN s : Before(s[i], r)}) IN
    IF \E i \in DOMAIN s : s[i] = r THEN s
    ELSE SubSeq(s, 1, n) \o <<r>> \o SubSeq(s, n + 1, Len(s))

RedisSave(w, r) ==
    /\ backend = "redis" /\ pipe[w].step = "none" /\ saves < MaxSaves
    /\ pipe' = [pipe EXCEPT ![w] = [step |-> "zadd", rep |-> r]]
    /\ saves' = saves + 1
    /\ UNCHANGED <<backend, recs, ttl, cut, bare, expired, acked, arrived, deviceVars>>

RedisSaveLocation(w, r) == r.kind = "location" /\ RedisSave(w, r)
RedisSaveAlarm(w, r) == r.kind = "alarm" /\ RedisSave(w, r)

RedisZAdd(w) ==
    LET r == pipe[w].rep IN
    /\ pipe[w].step = "zadd"
    /\ recs' = [recs EXCEPT ![r.kind] = ZAdd(@, r)]
    /\ expired' = expired \ {r}
    /\ bare' = IF recs[r.kind] = <<>> THEN bare \ {r.kind} ELSE bare
    /\ pipe' = [pipe EXCEPT ![w].step = "trim"]
    /\ UNCHANGED <<backend, ttl, cut, acked, arrived, saves, deviceVars>>

RedisTrim(w) ==
    /\ pipe[w].step = "trim"
    /\ recs' = [recs EXCEPT ![pipe[w].rep.kind] = Trimmed(@)]
    /\ cut' = cut \ {pipe[w].rep.kind}
    /\ pipe' = [pipe EXCEPT ![w].step = "expire"]
    /\ UNCHANGED <<backend, ttl, bare, expired, acked, arrived, saves, deviceVars>>

(* Fault: no expiry is set.                                                 *)
FaultNoExpire(w) ==
    LET r == pipe[w].rep IN
    /\ pipe[w].step = "expire"
    /\ acked' = acked \cup {r}
    /\ pipe' = [pipe EXCEPT ![w].step = "none"]
    /\ UNCHANGED <<backend, recs, ttl, cut, bare, expired, arrived, saves, deviceVars>>

(* EXPIRE of an empty key does nothing. Exec returns nil, or the answer is  *)
(* lost and Exec returns an error or sends the pipeline again.              *)
RedisExpire(w) ==
    LET r == pipe[w].rep IN
    /\ pipe[w].step = "expire"
    /\ ttl' = IF recs[r.kind] = <<>> THEN ttl ELSE ttl \cup {r.kind}
    /\ \/ acked' = acked \cup {r} /\ pipe' = [pipe EXCEPT ![w].step = "none"]
       \/ \E next \in {"none", "zadd"} :
            acked' = acked /\ pipe' = [pipe EXCEPT ![w].step = next]
    /\ UNCHANGED <<backend, recs, cut, bare, expired, arrived, saves, deviceVars>>

(* The connection is lost and the rest of the pipeline is not executed: the *)
(* client, which tries four times, sends all of it again ...                *)
RedisRetry(w) ==
    /\ pipe[w].step # "none"
    /\ pipe' = [pipe EXCEPT ![w].step = "zadd"]
    /\ UNCHANGED <<backend, recs, ttl, cut, bare, expired, acked, arrived, saves, deviceVars>>

(* ... and in the end Exec returns an error.                                *)
RedisCut(w) ==
    /\ pipe[w].step # "none"
    /\ cut' = cut \cup {pipe[w].rep.kind} /\ bare' = bare \cup {pipe[w].rep.kind}
    /\ pipe' = [pipe EXCEPT ![w].step = "none"]
    /\ UNCHANGED <<backend, recs, ttl, expired, acked, arrived, saves, deviceVars>>

(* Seven or thirty days without a save.                                     *)
RedisKeyExpires(k) ==
    /\ k \in ttl
    /\ recs' = [recs EXCEPT ![k] = <<>>]
    /\ ttl' = ttl \ {k}
    /\ expired' = expired \cup {r \in Reports : r.kind = k}
    /\ UNCHANGED <<backend, pipe, cut, bare, acked, arrived, saves, deviceVars>>

RedisGet(k, start, end) ==
    {r \in Stored(k) : Unix(start.time) <= Unix(r.time) /\ Unix(r.time) <= Unix(end.time)}
RedisGetLocations(start, end) == RedisGet("location", start, end)
RedisGetAlarms(start, end) == RedisGet("alarm", start, end)

-----------------------------------------------------------------------------
(* MySQL and PostgreSQL: rows are inserted and never deleted.               *)
SQLSave(db, r) ==
    /\ backend = db /\ saves < MaxSaves
    /\ saves' = saves + 1
    /\ \/ recs' = [recs EXCEPT ![r.kind] = Append(@, r)] /\ acked' = acked \cup {r}
       \/ recs' = [recs EXCEPT ![r.kind] = Append(@, r)] /\ UNCHANGED acked
       \/ UNCHANGED <<recs, acked>>
    /\ UNCHANGED <<backend, pipe, ttl, cut, bare, expired, arrived, deviceVars>>

MySQLSaveLocation(r) == r.kind = "location" /\ SQLSave("mysql", r)
MySQLSaveAlarm(r) == r.kind = "alarm" /\ SQLSave("mysql", r)
PostgresSaveLocation(r) == r.kind = "location" /\ SQLSave("postgres", r)
PostgresSaveAlarm(r) == r.kind = "alarm" /\ SQLSave("postgres", r)

(* BETWEEN ? AND ?, of rows whose TIMESTAMP is rounded to whole seconds; the *)
(* bounds are not.                                                          *)
Rounded(t) == Unix(t + Second \div 2) * Second
MySQLGet(k, start, end) ==
    {r \in Stored(k) : start.time <= Rounded(r.time) /\ Rounded(r.time) <= end.time}
MySQLGetLocations(start, end) == MySQLGet("location", start, end)
MySQLGetAlarms(start, end) == MySQLGet("alarm", start, end)

(* BETWEEN $2 AND $3: a TIMESTAMP without time zone is what a clock in the  *)
(* zone of the value shows, for the rows and for the bounds.                *)
Wall(t) == t.time + t.zone
PostgresGet(k, start, end) ==
    {r \in Stored(k) : Wall(start) <= Wall(r) /\ Wall(r) <= Wall(end)}
PostgresGetLocations(start, end) == PostgresGet("location", start, end)
PostgresGetAlarms(start, end) == PostgresGet("alarm", start, end)

-----------------------------------------------------------------------------
(* Devices. A write of a database succeeds, or fails with or without effect. *)

Registered(d) == ackedDevs' = ackedDevs \cup {d} /\ fresh' = fresh \cup {d}
Failed == UNCHANGED <<ackedDevs, fresh>>

MemorySaveDevice(d) ==
    /\ backend = "memory"
    /\ devs' = devs \cup {d} /\ online' = online \cup {d} /\ Registered(d)
    /\ UNCHANGED <<backend, reportVars>>

(* The status has a key of its own, which SaveDevice leaves alone.          *)
RedisSaveDevice(d) ==
    /\ backend = "redis"
    /\ \/ devs' = devs \cup {d} /\ (Registered(d) \/ Failed)
       \/ Failed /\ UNCHANGED devs
    /\ UNCHANGED <<backend, reportVars, online>>

(* Fault: the upsert leaves the status of an existing row alone.            *)
FaultKeepStatus(db, d) ==
    /\ backend = db
    /\ devs' = devs \cup {d} /\ online' = online \cup ({d} \ devs) /\ Registered(d)
    /\ UNCHANGED <<backend, reportVars>>

(* An upsert that sets the status too.                                      *)
SQLSaveDevice(db, d) ==
    /\ backend = db
    /\ \/ devs' = devs \cup {d} /\ online' = online \cup {d} /\ (Registered(d) \/ Failed)
       \/ Failed /\ UNCHANGED <<devs, online>>
    /\ UNCHANGED <<backend, reportVars>>

MySQLSaveDevice(d) == SQLSaveDevice("mysql", d)
PostgresSaveDevice(d) == SQLSaveDevice("postgres", d)

(* GetDevice returns the device, or the error "device not found".           *)
MemoryGetDevice(d) == d \in devs
RedisGetDevice(d) == d \in devs
MySQLGetDevice(d) == d \in devs
PostgresGetDevice(d) == d \in devs

(* UpdateDeviceStatus: an UPDATE changes existing rows only, the other      *)
(* backends store a status for any device.                                  *)
SetOnline(d, isOnline) == online' = IF isOnline THEN online \cup {d} ELSE online \ {d}

MemoryUpdateStatus(d, isOnline) ==
    /\ backend = "memory" /\ SetOnline(d, isOnline)
    /\ fresh' = fresh \ {d}
    /\ UNCHANGED <<backend, reportVars, devs, ackedDevs>>

RedisUpdateStatus(d, isOnline) ==
    /\ backend = "redis" /\ (SetOnline(d, isOnline) \/ UNCHANGED online)
    /\ fresh' = fresh \ {d}
    /\ UNCHANGED <<backend, reportVars, devs, ackedDevs>>

SQLUpdateStatus(db, d, isOnline) ==
    /\ backend = db
    /\ (d \in devs /\ SetOnline(d, isOnline)) \/ UNCHANGED online
    /\ fresh' = fresh \ {d}
    /\ UNCHANGED <<backend, reportVars, devs, ackedDevs>>

MySQLUpdateStatus(d, isOnline) == SQLUpdateStatus("mysql", d, isOnline)
PostgresUpdateStatus(d, isOnline) == SQLUpdateStatus("postgres", d, isOnline)

-----------------------------------------------------------------------------
Save(w, r) ==
    \/ MemorySaveLocation(r) \/ MemorySaveAlarm(r)
    \/ RedisSaveLocation(w, r) \/ RedisSaveAlarm(w, r)
    \/ MySQLSaveLocation(r) \/ MySQLSaveAlarm(r)
    \/ PostgresSaveLocation(r) \/ PostgresSaveAlarm(r)

Pipeline(w) ==
    RedisZAdd(w) \/ RedisTrim(w) \/ RedisExpire(w) \/ RedisRetry(w) \/ RedisCut(w)

Device(d) ==
    \/ MemorySaveDevice(d) \/ RedisSaveDevice(d) \/ MySQLSaveDevice(d) \/ PostgresSaveDevice(d)
    \/ \E b \in BOOLEAN : \/ MemoryUpdateStatus(d, b) \/ RedisUpdateStatus(d, b)
                          \/ MySQLUpdateStatus(d, b) \/ PostgresUpdateStatus(d, b)

ReportNext ==
    \/ \E w \in Writers : (\E r \in Reports : Save(w, r)) \/ Pipeline(w)
    \/ \E k \in Kinds : RedisKeyExpires(k)

DeviceNext == \E d \in Terminals : Device(d)

Next == ReportNext \/ DeviceNext

-----------------------------------------------------------------------------
(* Properties                                                               *)

(* An acknowledged report is found until Limit reports that come after it   *)
(* are stored, in memory the last Limit arrivals and in Redis reports of    *)
(* later times, or until its Redis key expires; the databases keep it for   *)
(* good. Other writers and pipelines that are cut short or sent again       *)
(* change nothing about it.                                                 *)
LastArrivals(k) == SubSeq(arrived[k], Len(arrived[k]) - Limit + 1, Len(arrived[k]))

AckedKept ==
    \A r \in acked :
        \/ r \in Stored(r.kind)
        \/ backend = "redis" /\ r \in expired
        \/ /\ backend = "memory"
           /\ Len(arrived[r.kind]) > Limit /\ recs[r.kind] = LastArrivals(r.kind)
        \/ backend = "redis" /\ Cardinality({q \in Stored(r.kind) : Before(r, q)}) >= Limit

(* Once no pipeline is under way, a key holds at most Limit reports unless  *)
(* a pipeline was cut short after the last trim, and it will expire unless  *)
(* one was cut short since the key came into being.                         *)
PipelineSettles ==
    \A k \in Kinds :
        backend = "redis" /\ recs[k] # <<>>
          /\ (\A w \in Writers : pipe[w].step = "none" \/ pipe[w].rep.kind # k)
        => (Len(recs[k]) <= Limit \/ k \in cut) /\ (k \in ttl \/ k \in bare)

Got(k, start, end) ==
    CASE backend = "memory" /\ k = "location" -> MemoryGetLocations(start, end)
      [] backend = "memory" /\ k = "alarm" -> MemoryGetAlarms(start, end)
      [] backend = "redis" /\ k = "location" -> RedisGetLocations(start, end)
      [] backend = "redis" /\ k = "alarm" -> RedisGetAlarms(start, end)
      [] backend = "mysql" /\ k = "location" -> MySQLGetLocations(start, end)
      [] backend = "mysql" /\ k = "alarm" -> MySQLGetAlarms(start, end)
      [] backend = "postgres" /\ k = "location" -> PostgresGetLocations(start, end)
      [] backend = "postgres" /\ k = "alarm" -> PostgresGetAlarms(start, end)

Apart(m, n) == IF m < n THEN n - m ELSE m - n

(* Reports a backend may misjudge: Redis those less than a second from the  *)
(* bound, MySQL those within half a second, PostgreSQL those of another     *)
(* zone that are no further from the bound than the zones are apart.        *)
Blurred(r, bound) ==
    \/ backend = "redis" /\ Apart(r.time, bound.time) < Second
    \/ backend = "mysql" /\ 2 * Apart(r.time, bound.time) <= Second
    \/ /\ backend = "postgres" /\ r.zone # bound.zone
       /\ Apart(r.time, bound.time) <= Apart(r.zone, bound.zone)

(* A query returns the stored reports from start to end and no others,      *)
(* those apart that the backend may misjudge at a bound; Redis errs only by *)
(* returning more.                                                          *)
QueryExact ==
    \A k \in Kinds, start, end \in Bounds :
        LET result == Got(k, start, end)
            exact == {r \in Stored(k) : start.time <= r.time /\ r.time <= end.time}
        IN  /\ result \subseteq Stored(k)
            /\ backend = "redis" => exact \subseteq result
            /\ \A r \in Stored(k) :
                \/ r \in result <=> r \in exact
                \/ Blurred(r, start) \/ Blurred(r, end)

GotDevice(d) ==
    CASE backend = "memory" -> MemoryGetDevice(d)
      [] backend = "redis" -> RedisGetDevice(d)
      [] backend = "mysql" -> MySQLGetDevice(d)
      [] backend = "postgres" -> PostgresGetDevice(d)

(* A device whose registration was acknowledged is found from then on, and  *)
(* is Online until its status is updated again, however often it had been   *)
(* set offline before (Redis keeps the old status); no database has a       *)
(* status for a device it does not know.                                    *)
DevicesKept ==
    /\ \A d \in ackedDevs : GotDevice(d)
    /\ backend # "redis" => fresh \subseteq online
    /\ backend \in {"mysql", "postgres"} => online \subseteq devs
================================================================================
