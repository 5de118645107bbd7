------------------------------- MODULE Dispatch -------------------------------
(***************************************************************************)
(* What happens to a message once a server has read it: the handler is     *)
(* looked up, wrapped in the middleware chain and called (handleConn of    *)
(* transport/tcp.go, processMessage of transport/tcp_highperf.go), with    *)
(* the middleware of package middleware and the handlers of cmd/server and *)
(* cmd/highperf.                                                           *)
(*                                                                         *)
(* A call is carried out by the goroutine that serves it and, from the     *)
(* Timeout middleware inwards, by a second one that may outlive it. Each   *)
(* goroutine walks down the chain to the handler and back up.              *)
(***************************************************************************)
EXTENDS Naturals, Sequences, FiniteSets

CONSTANTS
    Conns, Devices, None,
    Chains,        \* the middleware chains, outermost first
    Servers,       \* {"tcp", "highperf"} or a part of it
    Registered,    \* message kinds with a handler
    Kinds,         \* message kinds that arrive
    Rate, Burst,   \* of RateLimit
    MaxCalls,      \* bound: messages of a connection
    MaxTime        \* bound: clock ticks

ASSUME DispatchAssumption ==
    /\ None \notin Devices /\ Servers \subseteq {"tcp", "highperf"}
    /\ Registered \subseteq {"register", "location", "heartbeat"}
    /\ Rate \in Nat /\ Burst \in Nat /\ MaxCalls \in Nat
    /\ Chains \subseteq Seq({"logging", "recovery", "timeout", "ratelimit",
                            "auth", "authcode", "authstore"})
    /\ \A ch \in Chains : \A i, j \in DOMAIN ch :
        ch[i] = "timeout" /\ ch[j] = "timeout" => i = j

VARIABLES
    chain,       \* s.middleware
    server,
    kind,        \* the message of each call
    handler,     \* the handler that was looked up for it
    gor,         \* the two goroutines of each call
    timedOut,    \* calls Timeout has given up
    handled,     \* calls whose handler was entered
    replies,     \* on each connection, the calls in the order of their replies
    id, authenticated,   \* of each connection
    devices,     \* storage
    bucket,      \* TokenBucket, and the times at which it allowed a call
    now,
    crashed      \* a panic has reached the end of a goroutine

callVars == <<kind, handler, timedOut>>
connVars == <<id, devices>>
vars == <<chain, server, callVars, gor, handled, replies, connVars, authenticated,
          bucket, now, crashed>>

Calls == Conns \X (1..MaxCalls)
Top == Len(chain) + 1                 \* the position of the handler
Has(mw) == \E i \in DOMAIN chain : chain[i] = mw
TimeoutPos == CHOOSE i \in DOMAIN chain : chain[i] = "timeout"

(* A tick is half a second and tokens are counted in halves, so that Rate   *)
(* halves are added in a tick.                                              *)
Token == 2

Init ==
    /\ chain \in Chains /\ server \in Servers
    /\ kind = [k \in Calls |-> None] /\ handler = [k \in Calls |-> None]
    /\ gor = [k \in Calls |-> [g \in {0, 1} |-> [pos |-> 0, dir |-> "none", res |-> "ok"]]]
    /\ timedOut = {} /\ handled = {}
    /\ replies = [c \in Conns |-> <<>>]
    /\ id = [c \in Conns |-> None] /\ authenticated = [c \in Conns |-> FALSE]
    /\ devices = {}
    /\ bucket = [tokens |-> Burst * Token, last |-> 0, allowed |-> <<>>]
    /\ now = 0 /\ crashed = FALSE

At(k, g, dir) == ~crashed /\ gor[k][g].dir = dir
Down(k, g, i) == gor' = [gor EXCEPT ![k][g] = [pos |-> i, dir |-> "down", res |-> "ok"]]
Stage(k, g, dir) == gor' = [gor EXCEPT ![k][g].dir = dir]
Up(k, g, res) == gor' = [gor EXCEPT ![k][g].dir = "up", ![k][g].res = res]

-----------------------------------------------------------------------------
(* The TCP server gives a message without a handler to any other handler,   *)
(* the high-performance server drops it.                                    *)
TCPHandlers(m) == IF m \in Registered THEN {m} ELSE Registered
HighPerfHandlers(m) == {m} \cap Registered
Handlers(m) == IF server = "tcp" THEN TCPHandlers(m) ELSE HighPerfHandlers(m)

(* Fault: the handler is called in a goroutine of its own.                  *)
FaultNotAwaited(c) == TRUE

Idle(c) == \A r \in 1..MaxCalls : gor[<<c, r>>][0].dir \in {"none", "over"}

(* The TCP server handles one message of a connection at a time, the        *)
(* workers of the other server several.                                     *)
Dispatch(c, r) ==
    LET k == <<c, r>> IN
    /\ At(k, 0, "none") /\ (r > 1 => ~At(<<c, r - 1>>, 0, "none"))
    /\ server = "tcp" => Idle(c)
    /\ \E m \in Kinds :
        /\ kind' = [kind EXCEPT ![k] = m]
        /\ \/ /\ Handlers(m) = {}
              /\ Stage(k, 0, "over") /\ UNCHANGED handler
           \/ \E h \in Handlers(m) :
                handler' = [handler EXCEPT ![k] = h] /\ Down(k, 0, 1)
    /\ UNCHANGED <<chain, server, timedOut, handled, replies, connVars, authenticated,
                   bucket, now, crashed>>

-----------------------------------------------------------------------------
(* The middleware, on the way to the handler                                *)

Enter(k, g) ==
    LET i == gor[k][g].pos IN
    /\ At(k, g, "down") /\ i < Top /\ chain[i] \in {"logging", "recovery"}
    /\ Down(k, g, i + 1)
    /\ UNCHANGED <<chain, server, callVars, handled, replies, connVars, authenticated,
                   bucket, now, crashed>>

(* Fault: tokens pile up beyond the burst.                                  *)
FaultNoCap == bucket.tokens + (now - bucket.last) * Rate

(* Allow refills the bucket for the time since the last call, up to burst.  *)
Refilled ==
    LET t == bucket.tokens + (now - bucket.last) * Rate
    IN  IF t > Burst * Token THEN Burst * Token ELSE t

RateLimit(k, g) ==
    LET i == gor[k][g].pos IN
    /\ At(k, g, "down") /\ i < Top /\ chain[i] = "ratelimit"
    /\ IF Refilled < Token
         THEN /\ bucket' = [bucket EXCEPT !.tokens = Refilled, !.last = now]
              /\ Up(k, g, "err")
         ELSE /\ bucket' = [tokens |-> Refilled - Token, last |-> now,
                            allowed |-> Append(bucket.allowed, now)]
              /\ Down(k, g, i + 1)
    /\ UNCHANGED <<chain, server, callVars, handled, replies, connVars, authenticated,
                   now, crashed>>

(* Fault: every message of an identified connection passes.                 *)
FaultIdIsEnough(mw, c) ==
    mw = "authstore" /\ id[c] # None

(* AuthWithStorage asks the storage about a connection that is not yet      *)
(* authenticated.                                                           *)
KnownToStorage(mw, c) ==
    mw = "authstore" /\ id[c] # None /\ id[c] \in devices

(* Register and auth messages pass; the state of the connection decides on *)
(* any other.                                                               *)
Checked(k, g, mw) ==
    LET c == k[1]  i == gor[k][g].pos IN
    /\ At(k, g, "down") /\ i < Top /\ chain[i] = mw
    /\ IF kind[k] \in {"register", "auth"} \/ authenticated[c]
         THEN Down(k, g, i + 1) /\ UNCHANGED authenticated
         ELSE /\ authenticated' = [authenticated EXCEPT ![c] = KnownToStorage(mw, c)]
              /\ IF KnownToStorage(mw, c) THEN Down(k, g, i + 1) ELSE Up(k, g, "err")
    /\ UNCHANGED <<chain, server, callVars, handled, replies, connVars, bucket, now, crashed>>

Auth(k, g) == Checked(k, g, "auth")
AuthWithCode(k, g) == Checked(k, g, "authcode")
AuthWithStorage(k, g) == Checked(k, g, "authstore")

(* Timeout starts a goroutine for the rest of the chain and waits.          *)
Timeout(k) ==
    LET i == gor[k][0].pos IN
    /\ At(k, 0, "down") /\ i < Top /\ chain[i] = "timeout"
    /\ gor' = [gor EXCEPT ![k][0].dir = "wait",
                          ![k][1] = [pos |-> i + 1, dir |-> "down", res |-> "ok"]]
    /\ UNCHANGED <<chain, server, callVars, handled, replies, connVars, authenticated,
                   bucket, now, crashed>>

TimeoutResult(k) ==
    /\ At(k, 0, "wait") /\ At(k, 1, "over")
    /\ Up(k, 0, gor[k][1].res)
    /\ UNCHANGED <<chain, server, callVars, handled, replies, connVars, authenticated,
                   bucket, now, crashed>>

(* Fault: only the handler's result ends the wait.                          *)
FaultNoDone(k) ==
    /\ At(k, 0, "wait") /\ At(k, 1, "over")
    /\ Up(k, 0, "err")
    /\ UNCHANGED <<chain, server, callVars, handled, replies, connVars, authenticated,
                   bucket, now, crashed>>

TimeoutExpired(k) ==
    /\ At(k, 0, "wait")
    /\ Up(k, 0, "err")
    /\ timedOut' = timedOut \cup {k}
    /\ UNCHANGED <<chain, server, kind, handler, handled, replies, connVars, authenticated,
                   bucket, now, crashed>>

-----------------------------------------------------------------------------
(* The handlers                                                             *)

InHandler(k, g, h) == At(k, g, "down") /\ gor[k][g].pos = Top /\ handler[k] = h

(* Any handler: its body does not parse, it panics, or it never returns.    *)
HandlerFails(k, g) ==
    /\ At(k, g, "down") /\ gor[k][g].pos = Top
    /\ Up(k, g, "err") \/ Up(k, g, "panic") \/ Stage(k, g, "hung")
    /\ handled' = handled \cup {k}
    /\ UNCHANGED <<chain, server, callVars, replies, connVars, authenticated, bucket, now, crashed>>

Register(k, g) ==
    /\ InHandler(k, g, "register")
    /\ \E d \in Devices : id' = [id EXCEPT ![k[1]] = d]
    /\ handled' = handled \cup {k}
    /\ Stage(k, g, "save")
    /\ UNCHANGED <<chain, server, callVars, replies, devices, authenticated, bucket, now, crashed>>

(* SaveDevice under the identifier the connection has by now; it may fail.  *)
SaveDevice(k, g) ==
    /\ At(k, g, "save")
    /\ \/ devices' = devices \cup {id[k[1]]} /\ Stage(k, g, "send")
       \/ UNCHANGED devices /\ Up(k, g, "err")
    /\ UNCHANGED <<chain, server, callVars, handled, replies, id, authenticated, bucket, now, crashed>>

(* SaveLocation needs an identifier.                                        *)
Location(k, g) ==
    /\ InHandler(k, g, "location")
    /\ handled' = handled \cup {k}
    /\ IF id[k[1]] = None THEN Up(k, g, "err") ELSE Stage(k, g, "send")
    /\ UNCHANGED <<chain, server, callVars, replies, connVars, authenticated, bucket, now, crashed>>

Heartbeat(k, g) ==
    /\ InHandler(k, g, "heartbeat")
    /\ handled' = handled \cup {k}
    /\ Stage(k, g, "send")
    /\ UNCHANGED <<chain, server, callVars, replies, connVars, authenticated, bucket, now, crashed>>

Send(k, g) ==
    /\ At(k, g, "send")
    /\ \/ replies' = [replies EXCEPT ![k[1]] = Append(@, k[2])] /\ Up(k, g, "ok")
       \/ UNCHANGED replies /\ Up(k, g, "err")
    /\ UNCHANGED <<chain, server, callVars, handled, connVars, authenticated, bucket, now, crashed>>

-----------------------------------------------------------------------------
(* The way back                                                             *)

Base(g) == IF g = 0 THEN 0 ELSE TimeoutPos

(* Fault: Recovery calls recover in a nested function, where it does not    *)
(* see the panic.                                                           *)
FaultNoRecover(mw, res) == res

(* What a middleware makes of the result of the next handler.               *)
Passed(mw, res) == IF mw = "recovery" /\ res = "panic" THEN "err" ELSE res

(* SetAuthenticated after the handler of an auth message.                   *)
SetAuthenticated(k, mw, res) ==
    authenticated' = [authenticated EXCEPT ![k[1]] =
                        @ \/ (mw = "authcode" /\ kind[k] = "auth" /\ res = "ok")]

Return(k, g) ==
    LET i == gor[k][g].pos - 1
        res == gor[k][g].res
    IN
    /\ At(k, g, "up") /\ i > Base(g)
    /\ gor' = [gor EXCEPT ![k][g] = [pos |-> i, dir |-> "up", res |-> Passed(chain[i], res)]]
    /\ SetAuthenticated(k, chain[i], res)
    /\ UNCHANGED <<chain, server, callVars, handled, replies, connVars, bucket, now, crashed>>

(* The goroutine ends: handleConn reads the next message, or the result is  *)
(* left in errChan. A panic that comes this far ends the process.           *)
End(k, g) ==
    /\ At(k, g, "up") /\ gor[k][g].pos = Base(g) + 1
    /\ Stage(k, g, "over")
    /\ crashed' = (gor[k][g].res = "panic")
    /\ UNCHANGED <<chain, server, callVars, handled, replies, connVars, authenticated, bucket, now>>

Tick ==
    /\ ~crashed /\ Has("ratelimit") /\ now < MaxTime
    /\ now' = now + 1
    /\ UNCHANGED <<chain, server, callVars, gor, handled, replies, connVars, authenticated,
                   bucket, crashed>>

-----------------------------------------------------------------------------
Step(k, g) ==
    \/ Enter(k, g) \/ RateLimit(k, g)
    \/ Auth(k, g) \/ AuthWithCode(k, g) \/ AuthWithStorage(k, g)
    \/ HandlerFails(k, g) \/ Register(k, g)
    \/ SaveDevice(k, g) \/ Location(k, g) \/ Heartbeat(k, g) \/ Send(k, g)
    \/ Return(k, g) \/ End(k, g)

Wait(k) == Timeout(k) \/ TimeoutResult(k) \/ TimeoutExpired(k)

Next ==
    \/ \E c \in Conns, r \in 1..MaxCalls : Dispatch(c, r)
    \/ \E k \in Calls : (\E g \in {0, 1} : Step(k, g)) \/ Wait(k)
    \/ Tick

(* Goroutines run and timers fire; handlers may hang and clients be silent. *)
Spec ==
    /\ Init /\ [][Next]_vars
    /\ \A k \in Calls : WF_vars(Step(k, 0) \/ Wait(k)) /\ WF_vars(Step(k, 1))

-----------------------------------------------------------------------------
(* Properties                                                               *)

(* A panic of a handler ends the process only if no Recovery runs inside    *)
(* the innermost Timeout: one outside of it, as in the order docs/api lists *)
(* them, sits in another goroutine and catches nothing.                     *)
PanicContained ==
    crashed => \A i \in DOMAIN chain :
        chain[i] = "recovery" => \E j \in i+1..Len(chain) : chain[j] = "timeout"

(* With Timeout in the chain the serving goroutine gets its result, whatever *)
(* the handler does.                                                        *)
RequestEnds ==
    \A k \in Calls :
        (Has("timeout") /\ gor[k][0].dir = "down") ~> (gor[k][0].dir = "over" \/ crashed)

(* The TCP server's replies follow the order of the messages, except that   *)
(* of a handler Timeout has given up, which may come after later ones.      *)
ReplyOrder ==
    server = "tcp" => \A c \in Conns : \A i, j \in DOMAIN replies[c] :
        i < j /\ replies[c][i] >= replies[c][j] => <<c, replies[c][j]>> \in timedOut

(* In any span of time RateLimit lets no more calls through than burst and  *)
(* what rate adds in the span.                                              *)
RateBound ==
    LET a == bucket.allowed IN
    \A i, j \in DOMAIN a :
        i <= j => (j - i + 1) * Token <= Burst * Token + (a[j] - a[i]) * Rate

(* With an authenticating middleware a location message is handled only on  *)
(* an authenticated connection; AuthWithStorage authenticates only a        *)
(* connection that has named a device in the storage, and by itself lets    *)
(* nobody else through (AuthWithCode sets the same attribute).              *)
AuthRequired ==
    \A k \in handled :
        (kind[k] = "location" /\ (Has("auth") \/ Has("authcode") \/ Has("authstore"))) =>
            /\ authenticated[k[1]]
            /\ Has("authstore") /\ ~Has("authcode") => devices # {}

(* A message type without a handler is ignored.                             *)
UnknownIgnored == \A k \in handled : kind[k] \in Registered
===============================================================================
