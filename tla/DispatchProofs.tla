---------------------------- MODULE DispatchProofs ----------------------------
(***************************************************************************)
(* Proofs about Dispatch: PanicContained, ReplyOrder, RateBound and         *)
(* AuthRequired, for every chain with at most one Timeout, any number of    *)
(* connections and messages, any rate and burst, and both servers.          *)
(*                                                                          *)
(* A call is a walk of at most two goroutines down the chain and up again.  *)
(* StepMoves says how a goroutine moves in one step, whichever action it    *)
(* takes; the invariants are proved from it.                                *)
(***************************************************************************)
EXTENDS Dispatch, SequenceTheorems, TLAPS

Directions == {"none", "down", "wait", "save", "send", "hung", "up", "over"}
Results == {"ok", "err", "panic"}
Goroutines == {0, 1}
AuthMiddleware == {"auth", "authcode", "authstore"}

Working(k, g) == gor[k][g].dir \in {"down", "save", "send"}

TypeOK ==
    /\ chain \in Chains /\ server \in Servers
    /\ kind \in [Calls -> Kinds \cup {None}]
    /\ handler \in [Calls -> Registered \cup {None}]
    /\ gor \in [Calls -> [Goroutines -> [pos : Nat, dir : Directions, res : Results]]]
    /\ timedOut \subseteq Calls /\ handled \subseteq Calls
    /\ replies \in [Conns -> Seq(1..MaxCalls)]
    /\ id \in [Conns -> Devices \cup {None}]
    /\ authenticated \in [Conns -> BOOLEAN]
    /\ devices \subseteq Devices
    /\ bucket \in [tokens : Nat, last : Nat, allowed : Seq(Nat)]
    /\ now \in Nat /\ crashed \in BOOLEAN

(* A goroutine is in its part of the chain, the second one only once        *)
(* Timeout has started it and the first no longer works itself.             *)
Placed ==
    \A k \in Calls :
        /\ \A g \in Goroutines :
            gor[k][g].dir \notin {"none", "over"} => gor[k][g].pos \in Base(g)+1..Top
        /\ gor[k][1].dir # "none" =>
            Has("timeout") /\ gor[k][0].dir \in {"wait", "up", "over"}
        /\ \A g \in Goroutines : gor[k][g].dir = "save" => id[k[1]] # None

(* From pos inwards, every Recovery has a Timeout inside of it.              *)
Uncaught(pos) ==
    \A i \in DOMAIN chain : i >= pos /\ chain[i] = "recovery" =>
        \E j \in i+1..Len(chain) : chain[j] = "timeout"

(* A panic on its way up has met no Recovery since the handler, except     *)
(* those outside of the Timeout whose goroutine it is in.                   *)
Escaping ==
    \A k \in Calls, g \in Goroutines :
        gor[k][g].res = "panic" =>
            /\ gor[k][g].dir \in {"up", "over"}
            /\ gor[k][g].dir = "over" => crashed
            /\ Uncaught(gor[k][g].pos)

(* What the bucket holds is what burst and rate allow beyond the calls let  *)
(* through since any earlier one.                                           *)
Budget ==
    /\ bucket.tokens <= Burst * Token /\ bucket.last <= now
    /\ \A i \in DOMAIN bucket.allowed :
        /\ bucket.allowed[i] <= bucket.last
        /\ (Len(bucket.allowed) - i + 1) * Token + bucket.tokens
             <= Burst * Token + (bucket.last - bucket.allowed[i]) * Rate

(* Authentication has a cause, and a location message is past an            *)
(* authenticating middleware only on an authenticated connection.           *)
Cleared ==
    /\ \A c \in Conns : authenticated[c] =>
        Has("authcode") \/ (Has("authstore") /\ devices # {})
    /\ \A k \in Calls, g \in Goroutines : \A i \in DOMAIN chain :
        (/\ kind[k] = "location" /\ Working(k, g)
         /\ i < gor[k][g].pos /\ chain[i] \in AuthMiddleware) => authenticated[k[1]]
    /\ \A k \in handled : gor[k][0].dir # "none"

(* Calls start in order; on the TCP server the earlier ones are over by     *)
(* then. A call replies once, as nobody works on it afterwards, and late    *)
(* only if Timeout has given it up.                                         *)
Begun(c, r) == gor[<<c, r>>][0].dir # "none"
Alive(c, r) == gor[<<c, r>>][0].dir \notin {"none", "over"}

InTurn ==
    /\ \A c \in Conns : \A r, s \in 1..MaxCalls : r < s =>
        (Begun(c, s) => Begun(c, r)) /\ (server = "tcp" => ~(Alive(c, r) /\ Begun(c, s)))
    /\ \A k \in Calls : Working(k, 1) /\ k \notin timedOut => gor[k][0].dir = "wait"
    /\ \A c \in Conns : \A i \in DOMAIN replies[c] :
        /\ Begun(c, replies[c][i])
        /\ \A g \in Goroutines : ~Working(<<c, replies[c][i]>>, g)

-----------------------------------------------------------------------------
(* Steps                                                                    *)

Walk == [Calls -> [Goroutines -> [pos : Nat, dir : Directions, res : Results]]]

(* Goroutine g of call k is now at pos, and no other has moved.             *)
MovedTo(k, g, pos, dir, res) ==
    /\ gor' \in Walk
    /\ gor'[k][g].pos = pos /\ gor'[k][g].dir = dir /\ gor'[k][g].res = res
    /\ \A j \in Calls, h \in Goroutines : j # k \/ h # g => gor'[j][h] = gor[j][h]

Advances(k, g) ==
    /\ gor[k][g].dir = "down" /\ gor[k][g].pos < Top
    /\ MovedTo(k, g, gor[k][g].pos + 1, "down", "ok")

Works(k, g) ==
    /\ gor[k][g].dir = "down" => gor[k][g].pos = Top
    /\ Working(k, g)
    /\ \E d \in {"save", "send", "hung"} :
        /\ d = "save" => id'[k[1]] # None
        /\ MovedTo(k, g, gor[k][g].pos, d, gor[k][g].res)

Turns(k, g) ==
    /\ Working(k, g)
    /\ \E r \in Results :
        /\ r = "panic" => gor[k][g].pos = Top
        /\ MovedTo(k, g, gor[k][g].pos, "up", r)

Returns(k, g) ==
    LET i == gor[k][g].pos - 1 IN
    /\ gor[k][g].dir = "up" /\ i > Base(g)
    /\ MovedTo(k, g, i, "up", Passed(chain[i], gor[k][g].res))

Ends(k, g) ==
    /\ gor[k][g].dir = "up" /\ gor[k][g].pos = Base(g) + 1
    /\ MovedTo(k, g, gor[k][g].pos, "over", gor[k][g].res)
    /\ crashed' = (gor[k][g].res = "panic")

LEMMA SameChain ==
    ASSUME UNCHANGED chain
    PROVE  /\ Top' = Top /\ \A h \in Goroutines : Base(h)' = Base(h)
           /\ \A mw : Has(mw)' = Has(mw)
BY DEF Top, Base, TimeoutPos, Has

(* Where a Timeout stands in a chain.                                       *)
LEMMA ChainFacts ==
    ASSUME TypeOK
    PROVE  /\ Len(chain) \in Nat /\ DOMAIN chain = 1..Len(chain)
           /\ Top = Len(chain) + 1
           /\ Has("timeout") => TimeoutPos \in 1..Len(chain) /\ chain[TimeoutPos] = "timeout"
           /\ \A i, j \in DOMAIN chain : chain[i] = "timeout" /\ chain[j] = "timeout" => i = j
<1>1. chain \in Seq({"logging", "recovery", "timeout", "ratelimit",
                     "auth", "authcode", "authstore"})
    BY DispatchAssumption DEF TypeOK
<1>2. Len(chain) \in Nat /\ DOMAIN chain = 1..Len(chain)
    BY <1>1
<1>3. Has("timeout") => TimeoutPos \in DOMAIN chain /\ chain[TimeoutPos] = "timeout"
    BY Zenon DEF Has, TimeoutPos
<1>4. \A i, j \in DOMAIN chain : chain[i] = "timeout" /\ chain[j] = "timeout" => i = j
    BY DispatchAssumption DEF TypeOK
<1> QED
    BY <1>2, <1>3, <1>4 DEF Top

(* The three ways in which the actions change the place of a goroutine.     *)
LEMMA Places ==
    ASSUME TypeOK, NEW k \in Calls, NEW g \in Goroutines
    PROVE  /\ \A i \in Nat : Down(k, g, i) => MovedTo(k, g, i, "down", "ok")
           /\ \A d \in Directions :
                Stage(k, g, d) => MovedTo(k, g, gor[k][g].pos, d, gor[k][g].res)
           /\ \A r \in Results : Up(k, g, r) => MovedTo(k, g, gor[k][g].pos, "up", r)
<1>1. gor \in Walk
    BY DEF TypeOK, Walk
<1>2. ASSUME NEW i \in Nat, Down(k, g, i) PROVE MovedTo(k, g, i, "down", "ok")
    BY <1>1, <1>2 DEF Down, MovedTo, Walk, Directions, Results
<1>3. ASSUME NEW d \in Directions, Stage(k, g, d)
      PROVE  MovedTo(k, g, gor[k][g].pos, d, gor[k][g].res)
    <2>1. gor[k][g] \in [pos : Nat, dir : Directions, res : Results]
        BY <1>1 DEF Walk
    <2>2. gor'[k] = [gor[k] EXCEPT ![g] = [gor[k][g] EXCEPT !.dir = d]]
        BY <1>1, <1>3 DEF Stage, Walk
    <2>3. gor' \in Walk
        BY <1>1, <1>3, <2>1 DEF Stage, Walk
    <2>4. \A j \in Calls, h \in Goroutines : j # k \/ h # g => gor'[j][h] = gor[j][h]
        BY <1>1, <1>3 DEF Stage, Walk
    <2>5. gor'[k][g] = [gor[k][g] EXCEPT !.dir = d]
        BY <1>1, <2>2 DEF Walk
    <2> QED
        BY <2>1, <2>3, <2>4, <2>5 DEF MovedTo
<1>4. ASSUME NEW r \in Results, Up(k, g, r) PROVE MovedTo(k, g, gor[k][g].pos, "up", r)
    BY <1>1, <1>4 DEF Up, MovedTo, Walk, Directions, Results
<1> QED
    BY <1>2, <1>3, <1>4

(* Whatever step a goroutine takes, it goes on, works at its place, turns,  *)
(* returns or ends; only the end of a panic ends the process.               *)
LEMMA StepMoves ==
    ASSUME TypeOK, Placed, NEW k \in Calls, NEW g \in Goroutines, Step(k, g)
    PROVE  /\ ~crashed /\ UNCHANGED <<chain, server, callVars>>
           /\ \/ (Advances(k, g) \/ Works(k, g) \/ Turns(k, g) \/ Returns(k, g))
                  /\ UNCHANGED crashed
              \/ Ends(k, g)
<1> DEFINE p == gor[k][g]
<1>0. p.pos \in Nat /\ p.dir \in Directions /\ p.res \in Results
    BY DEF TypeOK
<1>1. /\ \A i \in Nat : Down(k, g, i) => MovedTo(k, g, i, "down", "ok")
      /\ \A d \in Directions : Stage(k, g, d) => MovedTo(k, g, p.pos, d, p.res)
      /\ \A r \in Results : Up(k, g, r) => MovedTo(k, g, p.pos, "up", r)
    BY Places
<1>2. p.dir \notin {"none", "over"} => p.pos \in Base(g)+1..Top
    BY DEF Placed
<1>3. {"save", "send", "hung", "over"} \subseteq Directions
    BY DEF Directions
<1>4. {"ok", "err", "panic"} \subseteq Results
    BY DEF Results
<1>5. CASE Enter(k, g)
    BY <1>0, <1>1, <1>5 DEF Enter, At, Advances
<1>6. CASE RateLimit(k, g)
    BY <1>0, <1>1, <1>4, <1>6 DEF RateLimit, At, Advances, Turns, Working
<1>7. ASSUME NEW mw, Checked(k, g, mw)
      PROVE  /\ ~crashed /\ UNCHANGED <<chain, server, callVars, crashed>>
             /\ Advances(k, g) \/ Turns(k, g)
    BY <1>0, <1>1, <1>4, <1>7 DEF Checked, At, Advances, Turns, Working
<1>8. CASE HandlerFails(k, g)
    BY <1>0, <1>1, <1>3, <1>4, <1>8 DEF HandlerFails, At, Works, Turns, Working
<1>9. CASE Register(k, g)
    <2>1. id'[k[1]] # None
        BY <1>9, DispatchAssumption DEF Register, TypeOK, Calls
    <2> QED
        BY <1>0, <1>1, <1>3, <1>9, <2>1 DEF Register, InHandler, At, Works, Working
<1>10. CASE SaveDevice(k, g)
    BY <1>0, <1>1, <1>3, <1>4, <1>10 DEF SaveDevice, At, Works, Turns, Working
<1>11. CASE Location(k, g)
    BY <1>0, <1>1, <1>3, <1>4, <1>11 DEF Location, InHandler, At, Works, Turns, Working
<1>12. CASE Heartbeat(k, g)
    BY <1>0, <1>1, <1>3, <1>12 DEF Heartbeat, InHandler, At, Works, Working
<1>13. CASE Send(k, g)
    BY <1>0, <1>1, <1>4, <1>13 DEF Send, At, Turns, Working
<1>14. CASE Return(k, g)
    <2>1. gor' = [gor EXCEPT ![k][g] = [pos |-> p.pos - 1, dir |-> "up",
                                        res |-> Passed(chain[p.pos - 1], p.res)]]
        BY <1>14 DEF Return
    <2>2. p.dir = "up" /\ p.pos - 1 > Base(g)
        BY <1>14 DEF Return, At
    <2>3. p.pos - 1 \in Nat
        <3>1. CASE g = 0
            BY <3>1, <2>2, <1>0 DEF Base
        <3>2. CASE g = 1
            <4>1. Base(g) \in Nat
                BY <3>2, <2>2, ChainFacts DEF Placed, Base
            <4> QED
                BY <4>1, <2>2, <1>0
        <3> QED
            BY <3>1, <3>2 DEF Goroutines
    <2>4. Passed(chain[p.pos - 1], p.res) \in Results
        BY <1>0 DEF Passed, Results
    <2>5. MovedTo(k, g, p.pos - 1, "up", Passed(chain[p.pos - 1], p.res))
        BY <2>1, <2>3, <2>4 DEF TypeOK, MovedTo, Walk, Directions
    <2> QED
        BY <1>14, <2>2, <2>5 DEF Return, Returns, At
<1>15. CASE End(k, g)
    BY <1>0, <1>1, <1>3, <1>15 DEF End, At, Ends
<1> QED
    BY <1>5, <1>6, <1>7, <1>8, <1>9, <1>10, <1>11, <1>12, <1>13, <1>14, <1>15
    DEF Step, Auth, AuthWithCode, AuthWithStorage

Starts(k) ==
    /\ gor[k][0].dir = "down" /\ Has("timeout") /\ gor[k][0].pos = TimeoutPos
    /\ gor' \in Walk
    /\ gor'[k][0].pos = TimeoutPos /\ gor'[k][0].dir = "wait" /\ gor'[k][0].res = gor[k][0].res
    /\ gor'[k][1].pos = TimeoutPos + 1 /\ gor'[k][1].dir = "down" /\ gor'[k][1].res = "ok"
    /\ \A j \in Calls \ {k}, h \in Goroutines : gor'[j][h] = gor[j][h]

GetsResult(k) ==
    /\ gor[k][0].dir = "wait" /\ gor[k][1].dir = "over"
    /\ MovedTo(k, 0, gor[k][0].pos, "up", gor[k][1].res)

GivesUp(k) ==
    /\ gor[k][0].dir = "wait"
    /\ MovedTo(k, 0, gor[k][0].pos, "up", "err")

(* What Timeout does with the two goroutines.                               *)
LEMMA WaitMoves ==
    ASSUME TypeOK, Placed, NEW k \in Calls, Wait(k)
    PROVE  /\ ~crashed
           /\ UNCHANGED <<chain, server, kind, handler, handled, replies, connVars,
                          authenticated, bucket, now, crashed>>
           /\ \/ (Starts(k) \/ GetsResult(k)) /\ UNCHANGED timedOut
              \/ GivesUp(k) /\ timedOut' = timedOut \cup {k}
<1>1. \A r \in Results : Up(k, 0, r) => MovedTo(k, 0, gor[k][0].pos, "up", r)
    BY Places DEF Goroutines
<1>2. gor[k][1].res \in Results /\ "err" \in Results
    BY DEF TypeOK, Goroutines, Results
<1>3. CASE Timeout(k)
    <2> DEFINE i == gor[k][0].pos
    <2>1. /\ gor[k][0].dir = "down" /\ i < Top /\ chain[i] = "timeout"
          /\ gor' = [gor EXCEPT ![k][0].dir = "wait",
                                ![k][1] = [pos |-> i + 1, dir |-> "down", res |-> "ok"]]
        BY <1>3 DEF Timeout, At
    <2>2. i \in DOMAIN chain
        <3>1. gor[k][0].dir \notin {"none", "over"}
            BY <2>1
        <3>2. i \in Base(0)+1..Top
            BY <3>1 DEF Placed, Goroutines
        <3> QED
            BY <3>2, <2>1, ChainFacts DEF Base
    <2>3. Has("timeout") /\ i = TimeoutPos
        BY <2>1, <2>2, ChainFacts DEF Has
    <2>4. Starts(k)
        <3> DEFINE Place == [pos : Nat, dir : Directions, res : Results]
                   second == [pos |-> i + 1, dir |-> "down", res |-> "ok"]
                   row == [gor[k] EXCEPT ![0] = [gor[k][0] EXCEPT !.dir = "wait"], ![1] = second]
        <3>1. gor \in [Calls -> [Goroutines -> Place]]
            BY DEF TypeOK
        <3>2. gor' = [gor EXCEPT ![k] = row]
            BY <2>1, <3>1
        <3>3. gor[k] \in [Goroutines -> Place] /\ gor[k][0] \in Place
            BY <3>1 DEF Goroutines
        <3>4. second \in Place /\ [gor[k][0] EXCEPT !.dir = "wait"] \in Place
            BY <3>3 DEF Directions, Results
        <3>5. row \in [Goroutines -> Place]
            BY <3>3, <3>4
        <3>6. row[0] = [gor[k][0] EXCEPT !.dir = "wait"] /\ row[1] = second
            BY <3>3 DEF Goroutines
        <3> HIDE DEF row
        <3>7. gor' \in Walk /\ gor'[k] = row /\ \A j \in Calls \ {k} : gor'[j] = gor[j]
            BY <3>1, <3>2, <3>5 DEF Walk
        <3>8. gor'[k][0].pos = i /\ gor'[k][0].dir = "wait" /\ gor'[k][0].res = gor[k][0].res
            BY <3>3, <3>6, <3>7
        <3>9. gor'[k][1].pos = i + 1 /\ gor'[k][1].dir = "down" /\ gor'[k][1].res = "ok"
            BY <3>6, <3>7
        <3>10. \A j \in Calls \ {k}, h \in Goroutines : gor'[j][h] = gor[j][h]
            BY <3>7
        <3> HIDE DEF second, Place
        <3> QED
            BY <2>1, <2>3, <3>7, <3>8, <3>9, <3>10 DEF Starts
    <2> QED
        BY <1>3, <2>4 DEF Timeout, callVars, At
<1>4. CASE TimeoutResult(k)
    BY <1>1, <1>2, <1>4 DEF TimeoutResult, GetsResult, At, callVars
<1>5. CASE TimeoutExpired(k)
    BY <1>1, <1>2, <1>5 DEF TimeoutExpired, GivesUp, At
<1> QED
    BY <1>3, <1>4, <1>5 DEF Wait

(* A message enters the chain, or is dropped for want of a handler.         *)
LEMMA DispatchMoves ==
    ASSUME TypeOK, NEW c \in Conns, NEW r \in 1..MaxCalls, Dispatch(c, r)
    PROVE  LET k == <<c, r>> IN
           /\ ~crashed /\ k \in Calls /\ gor[k][0].dir = "none"
           /\ r > 1 => gor[<<c, r - 1>>][0].dir # "none"
           /\ server = "tcp" => Idle(c)
           /\ \/ MovedTo(k, 0, 1, "down", "ok")
              \/ MovedTo(k, 0, gor[k][0].pos, "over", gor[k][0].res)
           /\ \A j \in Calls \ {k} : kind'[j] = kind[j]
           /\ kind' \in [Calls -> Kinds \cup {None}]
           /\ handler' \in [Calls -> Registered \cup {None}]
           /\ UNCHANGED <<chain, server, timedOut, handled, replies, connVars, authenticated,
                          bucket, now, crashed>>
<1> DEFINE k == <<c, r>>
<1>1. k \in Calls
    BY DEF Calls
<1>2. /\ Down(k, 0, 1) => MovedTo(k, 0, 1, "down", "ok")
      /\ Stage(k, 0, "over") => MovedTo(k, 0, gor[k][0].pos, "over", gor[k][0].res)
    BY <1>1, Places DEF Goroutines, Directions
<1>3. PICK m \in Kinds :
        /\ kind' = [kind EXCEPT ![k] = m]
        /\ \/ Stage(k, 0, "over") /\ UNCHANGED handler
           \/ \E h \in Handlers(m) : handler' = [handler EXCEPT ![k] = h] /\ Down(k, 0, 1)
    BY DEF Dispatch
<1>4. Handlers(m) \subseteq Registered
    BY DEF Handlers, TCPHandlers, HighPerfHandlers
<1>5. /\ kind' \in [Calls -> Kinds \cup {None}]
      /\ \A j \in Calls \ {k} : kind'[j] = kind[j]
    BY <1>1, <1>3 DEF TypeOK
<1>6. handler' \in [Calls -> Registered \cup {None}]
    BY <1>1, <1>3, <1>4 DEF TypeOK
<1> QED
    BY <1>1, <1>2, <1>3, <1>5, <1>6 DEF Dispatch, At

-----------------------------------------------------------------------------
(* Types and places                                                         *)

LEMMA InitTypes == Init => TypeOK /\ Placed
<1> SUFFICES ASSUME Init PROVE TypeOK /\ Placed
    OBVIOUS
<1>1. gor = [k \in Calls |-> [g \in Goroutines |-> [pos |-> 0, dir |-> "none", res |-> "ok"]]]
    BY DEF Init, Goroutines
<1>2. TypeOK
    <2>1. gor \in [Calls -> [Goroutines -> [pos : Nat, dir : Directions, res : Results]]]
        BY <1>1 DEF Directions, Results
    <2>2. bucket \in [tokens : Nat, last : Nat, allowed : Seq(Nat)]
        <3>1. Burst * Token \in Nat /\ <<>> \in Seq(Nat)
            BY DispatchAssumption DEF Token
        <3> QED
            BY <3>1 DEF Init
    <2>3. replies \in [Conns -> Seq(1..MaxCalls)]
        BY DEF Init
    <2> QED
        BY <2>1, <2>2, <2>3 DEF Init, TypeOK
<1>3. Placed
    BY <1>1 DEF Placed, Goroutines
<1> QED
    BY <1>2, <1>3

LEMMA RefilledType ==
    ASSUME TypeOK, Budget
    PROVE  /\ Refilled \in Nat /\ Refilled <= Burst * Token
           /\ (now - bucket.last) * Rate \in Nat
           /\ Refilled <= bucket.tokens + (now - bucket.last) * Rate
<1>1. bucket.tokens \in Nat /\ now - bucket.last \in Nat
    BY DEF TypeOK, Budget
<1>2. \A x, y \in Nat : x * y \in Nat
    OBVIOUS
<1>3. (now - bucket.last) * Rate \in Nat /\ Burst * Token \in Nat
    BY <1>1, <1>2, DispatchAssumption DEF Token
<1> QED
    BY <1>1, <1>3 DEF Refilled

LEMMA StepTypes == TypeOK /\ Placed /\ Budget /\ [Next]_vars => TypeOK'
<1> SUFFICES ASSUME TypeOK, Placed, Budget, [Next]_vars PROVE TypeOK'
    OBVIOUS
<1>1. ASSUME NEW c \in Conns, NEW r \in 1..MaxCalls, Dispatch(c, r) PROVE TypeOK'
    BY <1>1, DispatchMoves DEF TypeOK, connVars, MovedTo, Walk
<1>2. ASSUME NEW k \in Calls, NEW g \in Goroutines, Step(k, g) PROVE TypeOK'
    <2>1. gor' \in Walk /\ UNCHANGED <<chain, server, callVars>> /\ crashed' \in BOOLEAN
        BY <1>2, StepMoves
        DEF Advances, Works, Turns, Returns, Ends, MovedTo, TypeOK
    <2>2. PICK c \in Conns, r \in 1..MaxCalls : k = <<c, r>>
        BY DEF Calls
    <2>3. k[1] = c /\ k[2] = r
        BY <2>2
    <2>4. /\ handled' \subseteq Calls /\ replies' \in [Conns -> Seq(1..MaxCalls)]
          /\ id' \in [Conns -> Devices \cup {None}]
          /\ authenticated' \in [Conns -> BOOLEAN]
          /\ devices' \subseteq Devices
          /\ bucket' \in [tokens : Nat, last : Nat, allowed : Seq(Nat)]
          /\ now' \in Nat
        <3>1. CASE Enter(k, g)
            BY <3>1 DEF Enter, TypeOK, connVars
        <3>2. CASE RateLimit(k, g)
            <4>1. Refilled \in Nat /\ now \in Nat /\ bucket.allowed \in Seq(Nat)
                BY RefilledType DEF TypeOK
            <4>2. Append(bucket.allowed, now) \in Seq(Nat)
                BY <4>1
            <4>3. \/ bucket' = [bucket EXCEPT !.tokens = Refilled, !.last = now]
                  \/ /\ ~(Refilled < Token)
                     /\ bucket' = [tokens |-> Refilled - Token, last |-> now,
                                   allowed |-> Append(bucket.allowed, now)]
                BY <3>2 DEF RateLimit
            <4>4. bucket' \in [tokens : Nat, last : Nat, allowed : Seq(Nat)]
                <5>1. CASE bucket' = [bucket EXCEPT !.tokens = Refilled, !.last = now]
                    BY <4>1, <5>1 DEF TypeOK
                <5>2. CASE /\ ~(Refilled < Token)
                           /\ bucket' = [tokens |-> Refilled - Token, last |-> now,
                                         allowed |-> Append(bucket.allowed, now)]
                    <6>1. Refilled - Token \in Nat
                        BY <4>1, <5>2 DEF Token
                    <6> QED
                        BY <4>1, <4>2, <5>2, <6>1
                <5> QED
                    BY <4>3, <5>1, <5>2
            <4> QED
                BY <3>2, <4>4 DEF RateLimit, TypeOK, connVars
        <3>3. ASSUME NEW mw, Checked(k, g, mw)
              PROVE  /\ authenticated' \in [Conns -> BOOLEAN]
                     /\ UNCHANGED <<handled, replies, connVars, bucket, now>>
            <4>1. KnownToStorage(mw, c) \in BOOLEAN
                BY DEF KnownToStorage
            <4> QED
                BY <2>2, <3>3, <4>1 DEF Checked, TypeOK
        <3>4. CASE Auth(k, g) \/ AuthWithCode(k, g) \/ AuthWithStorage(k, g)
            BY <3>3, <3>4 DEF Auth, AuthWithCode, AuthWithStorage, TypeOK, connVars
        <3>5. CASE HandlerFails(k, g)
            BY <3>5 DEF HandlerFails, TypeOK, connVars
        <3>6. CASE Register(k, g)
            BY <3>6 DEF Register, TypeOK
        <3>7. CASE SaveDevice(k, g)
            <4>1. id[k[1]] \in Devices
                BY <2>2, <3>7 DEF SaveDevice, At, Placed, TypeOK
            <4> QED
                BY <3>7, <4>1 DEF SaveDevice, TypeOK
        <3>8. CASE Location(k, g)
            BY <3>8 DEF Location, TypeOK, connVars
        <3>9. CASE Heartbeat(k, g)
            BY <3>9 DEF Heartbeat, TypeOK, connVars
        <3>10. CASE Send(k, g)
            <4>1. \/ replies' = [replies EXCEPT ![c] = Append(replies[c], r)]
                  \/ UNCHANGED replies
                BY <2>3, <3>10 DEF Send
            <4>2. replies[c] \in Seq(1..MaxCalls)
                BY DEF TypeOK
            <4>3. Append(replies[c], r) \in Seq(1..MaxCalls)
                BY <4>2, AppendProperties
            <4>4. replies' \in [Conns -> Seq(1..MaxCalls)]
                BY <4>1, <4>3 DEF TypeOK
            <4> QED
                BY <3>10, <4>4 DEF Send, TypeOK, connVars
        <3>11. CASE Return(k, g)
            <4>1. \A x : (authenticated[c] \/ (x = "authcode" /\ kind[k] = "auth"
                                               /\ gor[k][g].res = "ok")) \in BOOLEAN
                OBVIOUS
            <4> QED
                BY <3>11, <2>2, <4>1 DEF Return, SetAuthenticated, TypeOK, connVars
        <3>12. CASE End(k, g)
            BY <3>12 DEF End, TypeOK, connVars
        <3> QED
            BY <1>2, <3>1, <3>2, <3>4, <3>5, <3>6, <3>7, <3>8, <3>9, <3>10, <3>11, <3>12 DEF Step
    <2> QED
        BY <2>1, <2>4 DEF TypeOK, Walk, callVars
<1>3. ASSUME NEW k \in Calls, Wait(k) PROVE TypeOK'
    BY <1>3, WaitMoves
    DEF TypeOK, connVars, Starts, GetsResult, GivesUp, MovedTo, Walk
<1>4. CASE Tick
    BY <1>4 DEF Tick, TypeOK, callVars, connVars
<1>5. CASE UNCHANGED vars
    BY <1>5 DEF vars, TypeOK, callVars, connVars
<1> QED
    BY <1>1, <1>2, <1>3, <1>4, <1>5 DEF Next, Goroutines

-----------------------------------------------------------------------------
(* The rate limit                                                           *)

(* A later end of a span is paid for by what rate adds meanwhile.           *)
LEMMA SpanSplits ==
    ASSUME NEW a \in Nat, NEW b \in Nat, NEW c \in Nat, a <= b, b <= c
    PROVE  /\ (c - a) * Rate = (b - a) * Rate + (c - b) * Rate
           /\ (b - a) * Rate \in Nat /\ (c - b) * Rate \in Nat
<1>1. \A x, y, z \in Nat : (x + y) * z = x * z + y * z /\ x * z \in Nat /\ y * z \in Nat
    OBVIOUS
<1>2. b - a \in Nat /\ c - b \in Nat /\ c - a = (b - a) + (c - b)
    OBVIOUS
<1>3. Rate \in Nat
    BY DispatchAssumption
<1> QED
    BY <1>1, <1>2, <1>3

LEMMA StepBudget ==
    ASSUME TypeOK, Budget, RateBound,
           NEW k \in Calls, NEW g \in Goroutines, RateLimit(k, g)
    PROVE  Budget' /\ RateBound'
<1> DEFINE a == bucket.allowed
           n == Len(bucket.allowed)
           all == Burst * Token
<1>1. /\ a \in Seq(Nat) /\ n \in Nat /\ DOMAIN a = 1..n
      /\ bucket.tokens \in Nat /\ bucket.last \in Nat /\ now \in Nat /\ bucket.last <= now
      /\ \A i \in 1..n : a[i] \in Nat /\ a[i] <= bucket.last
    <2>1. a \in Seq(Nat)
        BY DEF TypeOK
    <2> QED
        BY <2>1 DEF TypeOK, Budget
<1>2. all \in Nat
    <2>1. \A x, y \in Nat : x * y \in Nat
        OBVIOUS
    <2> QED
        BY <2>1, DispatchAssumption DEF Token
<1>3. /\ Refilled \in Nat /\ Refilled <= all /\ (now - bucket.last) * Rate \in Nat
      /\ Refilled <= bucket.tokens + (now - bucket.last) * Rate
    BY RefilledType
<1>4. \A i \in 1..n : (n - i + 1) * Token + bucket.tokens
                       <= all + (bucket.last - a[i]) * Rate
    BY <1>1 DEF Budget
<1>5. \A i \in 1..n : /\ (now - a[i]) * Rate \in Nat /\ (bucket.last - a[i]) * Rate \in Nat
                      /\ (now - a[i]) * Rate
                           = (bucket.last - a[i]) * Rate + (now - bucket.last) * Rate
    <2> SUFFICES ASSUME NEW i \in 1..n
                 PROVE  /\ (now - a[i]) * Rate \in Nat /\ (bucket.last - a[i]) * Rate \in Nat
                        /\ (now - a[i]) * Rate
                             = (bucket.last - a[i]) * Rate + (now - bucket.last) * Rate
        OBVIOUS
    <2>1. /\ (now - a[i]) * Rate = (bucket.last - a[i]) * Rate + (now - bucket.last) * Rate
          /\ (bucket.last - a[i]) * Rate \in Nat /\ (now - bucket.last) * Rate \in Nat
        BY <1>1, SpanSplits
    <2> HIDE DEF a
    <2> QED
        BY <2>1
<1>6. \A i \in 1..n : (n - i + 1) * Token + Refilled <= all + (now - a[i]) * Rate
    <2> SUFFICES ASSUME NEW i \in 1..n
                 PROVE  (n - i + 1) * Token + Refilled <= all + (now - a[i]) * Rate
        OBVIOUS
    <2> DEFINE added == (now - bucket.last) * Rate
               old == (bucket.last - a[i]) * Rate
               new == (now - a[i]) * Rate
               calls == (n - i + 1) * Token
    <2>1. added \in Nat /\ Refilled \in Nat /\ Refilled <= bucket.tokens + added
        BY <1>3
    <2>2. new \in Nat /\ old \in Nat /\ new = old + added
        BY <1>5
    <2>3. calls \in Nat /\ bucket.tokens \in Nat
        BY <1>1 DEF Token
    <2>4. calls + bucket.tokens <= all + old
        BY <1>4
    <2> HIDE DEF added, old, new, calls, all
    <2>5. calls + Refilled <= all + new
        BY <1>2, <2>1, <2>2, <2>3, <2>4
    <2> QED
        BY <2>5 DEF calls, new
<1>7. \A i, j \in 1..n : i <= j => (j - i + 1) * Token <= all + (a[j] - a[i]) * Rate
    BY <1>1 DEF RateBound
<1>8. CASE bucket' = [bucket EXCEPT !.tokens = Refilled, !.last = now] /\ now' = now
    <2>1. bucket'.tokens = Refilled /\ bucket'.last = now /\ bucket'.allowed = a
        BY <1>8 DEF TypeOK
    <2>2. Budget'
        <3>1. \A i \in 1..n : a[i] <= now
            BY <1>1
        <3>2. bucket'.last <= now' /\ Len(bucket'.allowed) = n /\ DOMAIN bucket'.allowed = 1..n
            BY <1>1, <1>8, <2>1
        <3>3. \A i \in 1..n : (Len(bucket'.allowed) - i + 1) * Token + bucket'.tokens
                              <= all + (bucket'.last - bucket'.allowed[i]) * Rate
            BY <1>6, <2>1, Zenon
        <3> QED
            BY <1>3, <2>1, <3>1, <3>2, <3>3, Zenon DEF Budget
    <2>3. RateBound'
        BY <1>1, <1>7, <2>1 DEF RateBound
    <2> QED
        BY <2>2, <2>3
<1>9. CASE /\ ~(Refilled < Token) /\ now' = now
           /\ bucket' = [tokens |-> Refilled - Token, last |-> now, allowed |-> Append(a, now)]
    <2> DEFINE b == Append(a, now)
    <2>1. bucket'.tokens = Refilled - Token /\ bucket'.last = now /\ bucket'.allowed = b
        BY <1>9
    <2>2. /\ Len(b) = n + 1 /\ DOMAIN b = 1..(n + 1) /\ b[n + 1] = now
          /\ \A i \in 1..n : b[i] = a[i]
        BY <1>1, AppendProperties
    <2>3. \A i \in 1..(n + 1) : i \in 1..n \/ i = n + 1
        BY <1>1
    <2>4. (now - now) * Rate = 0
        BY <1>1, DispatchAssumption
    <2>5. \A i \in 1..(n + 1) : b[i] <= now
        BY <1>1, <2>2, <2>3
    <2>6. \A i \in 1..(n + 1) : (n + 1 - i + 1) * Token + (Refilled - Token)
                                <= all + (now - b[i]) * Rate
        <3>1. ASSUME NEW i \in 1..n
              PROVE  (n + 1 - i + 1) * Token + (Refilled - Token) <= all + (now - b[i]) * Rate
            <4>1. (n + 1 - i + 1) * Token + (Refilled - Token) = (n - i + 1) * Token + Refilled
                BY <1>1, <1>3 DEF Token
            <4> QED
                BY <4>1, <1>6, <2>2
        <3>2. (n + 1 - (n + 1) + 1) * Token + (Refilled - Token) = Refilled
            BY <1>1, <1>3 DEF Token
        <3>3. Refilled <= all + (now - b[n + 1]) * Rate
            BY <1>2, <1>3, <2>2, <2>4
        <3> QED
            BY <2>3, <3>1, <3>2, <3>3
    <2>7. \A i, j \in 1..(n + 1) :
            i <= j => (j - i + 1) * Token <= all + (b[j] - b[i]) * Rate
        <3> SUFFICES ASSUME NEW i \in 1..(n + 1), NEW j \in 1..(n + 1), i <= j
                     PROVE  (j - i + 1) * Token <= all + (b[j] - b[i]) * Rate
            OBVIOUS
        <3>1. CASE j = n + 1
            <4>1. (n + 1 - i + 1) * Token + (Refilled - Token) <= all + (now - b[i]) * Rate
                BY <2>6
            <4>2. Refilled - Token \in Nat /\ (n + 1 - i + 1) * Token \in Nat
                BY <1>1, <1>3, <1>9 DEF Token
            <4>3. (now - b[i]) * Rate \in Nat
                BY <1>5, <2>2, <2>3, <2>4
            <4> DEFINE span == (now - b[i]) * Rate
            <4>4. (n + 1 - i + 1) * Token <= all + span
                <5> HIDE DEF span, all, b, n
                <5> QED
                    BY <1>2, <4>1, <4>2, <4>3 DEF span
            <4> QED
                BY <3>1, <4>4, <2>2
        <3>2. CASE j # n + 1
            <4>1. i \in 1..n /\ j \in 1..n
                BY <1>1, <3>2
            <4> QED
                BY <1>7, <2>2, <4>1
        <3> QED
            BY <3>1, <3>2
    <2>8. Budget'
        <3>1. Refilled - Token <= all
            BY <1>2, <1>3 DEF Token
        <3> HIDE DEF b
        <3> QED
            BY <1>1, <1>9, <2>1, <2>2, <2>5, <2>6, <3>1 DEF Budget
    <2>9. RateBound'
        <3> HIDE DEF b
        <3> QED
            BY <2>1, <2>2, <2>7 DEF RateBound
    <2> QED
        BY <2>8, <2>9
<1> QED
    BY <1>8, <1>9 DEF RateLimit

LEMMA TimeKeepsBudget ==
    ASSUME TypeOK, Budget, RateBound, UNCHANGED bucket, now' \in {now, now + 1}
    PROVE  Budget' /\ RateBound'
<1>1. bucket.last \in Nat /\ now \in Nat
    BY DEF TypeOK
<1>2. bucket'.last <= now'
    BY <1>1 DEF Budget
<1> QED
    BY <1>2 DEF Budget, RateBound

-----------------------------------------------------------------------------
(* Places                                                                   *)

LEMMA StepPlaced == TypeOK /\ Placed /\ [Next]_vars => Placed'
<1> SUFFICES ASSUME TypeOK, Placed, [Next]_vars PROVE Placed'
    OBVIOUS
<1>1. /\ Len(chain) \in Nat /\ Top = Len(chain) + 1
      /\ Has("timeout") => TimeoutPos \in 1..Len(chain)
    BY ChainFacts
<1>2. gor \in Walk
    BY DEF TypeOK, Walk
<1>3. ASSUME NEW c \in Conns, NEW r \in 1..MaxCalls, Dispatch(c, r) PROVE Placed'
    <2> DEFINE k == <<c, r>>
    <2>1. /\ k \in Calls /\ gor[k][0].dir = "none" /\ UNCHANGED <<chain, id>>
          /\ \/ MovedTo(k, 0, 1, "down", "ok")
             \/ MovedTo(k, 0, gor[k][0].pos, "over", gor[k][0].res)
        BY <1>3, DispatchMoves DEF connVars
    <2>2. Top' = Top /\ (\A h \in Goroutines : Base(h)' = Base(h)) /\ \A mw : Has(mw)' = Has(mw)
        BY <2>1, SameChain
    <2>3. gor[k][1].dir = "none"
        BY <2>1 DEF Placed
    <2>4. gor'[k][0].dir = "over" \/ (gor'[k][0].pos = 1 /\ gor'[k][0].dir = "down")
        BY <2>1 DEF MovedTo
    <2>5. \A j \in Calls, h \in Goroutines : ~(j = k /\ h = 0) => gor'[j][h] = gor[j][h]
        BY <2>1 DEF MovedTo
    <2>6. Base(0) = 0 /\ 1 \in 1..Top
        BY <1>1 DEF Base
    <2> HIDE DEF k
    <2> QED
        BY <2>1, <2>2, <2>3, <2>4, <2>5, <2>6 DEF Placed, Goroutines
<1>4. ASSUME NEW k \in Calls, NEW g \in Goroutines, Step(k, g) PROVE Placed'
    <2>1. /\ UNCHANGED chain
          /\ Advances(k, g) \/ Works(k, g) \/ Turns(k, g) \/ Returns(k, g) \/ Ends(k, g)
        BY <1>4, StepMoves
    <2>2. \A c \in Conns : id[c] # None => id'[c] # None
        <3>1. \/ UNCHANGED id
              \/ \E d \in Devices : id' = [id EXCEPT ![k[1]] = d]
            BY <1>4
            DEF Step, Enter, RateLimit, Auth, AuthWithCode, AuthWithStorage, Checked,
                HandlerFails, Register, SaveDevice, Location, Heartbeat, Send, Return, End, connVars
        <3> QED
            BY <3>1, DispatchAssumption DEF TypeOK
    <2>3. \A j \in Calls : j[1] \in Conns
        BY DEF Calls
    <2>4. PICK p \in Nat, d \in Directions, r \in Results :
            /\ MovedTo(k, g, p, d, r) /\ d \notin {"none", "wait"}
            /\ gor[k][g].dir \notin {"none", "wait", "over"}
            /\ gor[k][g].dir \in {"up", "over"} => d \in {"up", "over"}
            /\ d # "over" => p \in Base(g)+1..Top
            /\ d = "save" => id'[k[1]] # None
        <3>1. gor[k][g].pos \in Nat /\ gor[k][g].res \in Results
            BY DEF TypeOK
        <3>2. gor[k][g].dir # "none" /\ gor[k][g].dir # "over" =>
                gor[k][g].pos \in Base(g)+1..Top /\ Base(g) \in Nat
            BY <1>1 DEF Placed, Base, Goroutines
        <3>3. {"down", "save", "send", "hung", "up", "over"} \subseteq Directions
            BY DEF Directions
        <3>4. CASE Advances(k, g)
            <4>1. gor[k][g].pos + 1 \in Base(g)+1..Top /\ "ok" \in Results
                BY <1>1, <3>1, <3>2, <3>4 DEF Advances, Results
            <4> QED
                BY <3>1, <3>3, <3>4, <4>1 DEF Advances
        <3>5. CASE Works(k, g)
            <4>1. PICK d \in {"save", "send", "hung"} :
                    /\ d = "save" => id'[k[1]] # None
                    /\ MovedTo(k, g, gor[k][g].pos, d, gor[k][g].res)
                BY <3>5 DEF Works
            <4>2. gor[k][g].dir \in {"down", "save", "send"}
                BY <3>5 DEF Works, Working
            <4> QED
                BY <3>1, <3>2, <3>3, <4>1, <4>2
        <3>6. CASE Turns(k, g)
            BY <3>1, <3>2, <3>3, <3>6 DEF Turns, Working
        <3>7. CASE Returns(k, g)
            <4> DEFINE i == gor[k][g].pos - 1
            <4>1. i \in Nat /\ i \in Base(g)+1..Top
                BY <1>1, <3>1, <3>2, <3>7 DEF Returns
            <4>2. MovedTo(k, g, i, "up", Passed(chain[i], gor[k][g].res)) /\ gor[k][g].dir = "up"
                BY <3>7 DEF Returns
            <4>3. Passed(chain[i], gor[k][g].res) \in Results
                BY <3>1 DEF Passed, Results
            <4> HIDE DEF i
            <4> QED
                BY <3>3, <4>1, <4>2, <4>3
        <3>8. CASE Ends(k, g)
            BY <3>1, <3>3, <3>8 DEF Ends
        <3> QED
            BY <2>1, <3>4, <3>5, <3>6, <3>7, <3>8
    <2>5. g = 0 /\ gor[k][1].dir # "none" => gor'[k][0].dir \in {"wait", "up", "over"}
        BY <2>4 DEF Placed, MovedTo, Goroutines
    <2>6. Top' = Top /\ \A h \in Goroutines : Base(h)' = Base(h)
        BY <2>1, SameChain
    <2>7. Has("timeout")' = Has("timeout")
        BY <2>1, SameChain
    <2>8. \A j \in Calls, h \in Goroutines : ~(j = k /\ h = g) => gor'[j][h] = gor[j][h]
        BY <2>4 DEF MovedTo
    <2>9. gor'[k][g].pos = p /\ gor'[k][g].dir = d
        BY <2>4 DEF MovedTo
    <2>10. \A j \in Calls, h \in Goroutines :
            gor'[j][h].dir \notin {"none", "over"} => gor'[j][h].pos \in Base(h)'+1..Top'
        BY <2>4, <2>6, <2>8, <2>9 DEF Placed
    <2>11. \A j \in Calls : gor'[j][1].dir # "none" =>
            Has("timeout")' /\ gor'[j][0].dir \in {"wait", "up", "over"}
        BY <2>4, <2>5, <2>7, <2>8, <2>9 DEF Placed, Goroutines
    <2>12. \A j \in Calls, h \in Goroutines : gor'[j][h].dir = "save" => id'[j[1]] # None
        BY <2>2, <2>3, <2>4, <2>8, <2>9 DEF Placed
    <2> QED
        BY <2>10, <2>11, <2>12 DEF Placed
<1>5. ASSUME NEW k \in Calls, Wait(k) PROVE Placed'
    <2>1. /\ UNCHANGED <<chain, id>> /\ gor' \in Walk
          /\ Starts(k) \/ GetsResult(k) \/ GivesUp(k)
        BY <1>5, WaitMoves DEF connVars, Starts, GetsResult, GivesUp, MovedTo
    <2>2. Top' = Top /\ \A h \in Goroutines : Base(h)' = Base(h)
        BY <2>1, SameChain
    <2>3. Has("timeout")' = Has("timeout")
        BY <2>1, SameChain
    <2>4. CASE Starts(k)
        BY <1>1, <2>1, <2>2, <2>3, <2>4 DEF Placed, Starts, Goroutines, Base
    <2>5. CASE GetsResult(k) \/ GivesUp(k)
        BY <1>1, <2>1, <2>2, <2>3, <2>5 DEF Placed, GetsResult, GivesUp, MovedTo, Goroutines, Base
    <2> QED
        BY <2>1, <2>4, <2>5
<1>6. CASE Tick
    BY <1>6 DEF Tick, connVars, Placed, Has, Base, TimeoutPos, Top
<1>7. CASE UNCHANGED vars
    BY <1>7 DEF vars, connVars, Placed, Has, Base, TimeoutPos, Top
<1> QED
    BY <1>3, <1>4, <1>5, <1>6, <1>7 DEF Next, Goroutines

-----------------------------------------------------------------------------
(* Panics                                                                   *)

LEMMA StepContained ==
    TypeOK /\ Placed /\ Escaping /\ PanicContained /\ [Next]_vars =>
        Escaping' /\ PanicContained'
<1> SUFFICES ASSUME TypeOK, Placed, Escaping, PanicContained, [Next]_vars
             PROVE  Escaping' /\ PanicContained'
    OBVIOUS
<1>0. /\ \A j \in Calls, h \in Goroutines : gor[j][h].res = "panic" =>
            /\ gor[j][h].dir \in {"up", "over"}
            /\ gor[j][h].dir = "over" => crashed
            /\ Uncaught(gor[j][h].pos)
      /\ crashed => Uncaught(1)
    <2>1. \A i \in DOMAIN chain : i >= 1
        BY ChainFacts
    <2> QED
        BY <2>1 DEF Escaping, PanicContained, Uncaught
<1>1. ASSUME NEW k \in Calls, NEW g \in Goroutines, ~crashed, UNCHANGED <<chain, crashed>>,
             NEW p \in Nat, NEW d \in Directions, NEW r \in Results, MovedTo(k, g, p, d, r),
             r = "panic" => d = "up" /\ Uncaught(p)
      PROVE  Escaping' /\ PanicContained'
    BY <1>0, <1>1 DEF Escaping, PanicContained, MovedTo, Uncaught
<1>2. ASSUME NEW c \in Conns, NEW r \in 1..MaxCalls, Dispatch(c, r)
      PROVE  Escaping' /\ PanicContained'
    <2> DEFINE k == <<c, r>>
    <2>1. /\ ~crashed /\ k \in Calls /\ gor[k][0].dir = "none" /\ UNCHANGED <<chain, crashed>>
          /\ \/ MovedTo(k, 0, 1, "down", "ok")
             \/ MovedTo(k, 0, gor[k][0].pos, "over", gor[k][0].res)
        BY <1>2, DispatchMoves
    <2>2. gor[k][0].res # "panic" /\ gor[k][0].pos \in Nat /\ gor[k][0].res \in Results
        BY <1>0, <2>1 DEF TypeOK, Goroutines
    <2>3. {"down", "over"} \subseteq Directions /\ "ok" \in Results
        BY DEF Directions, Results
    <2>4. 0 \in Goroutines
        BY DEF Goroutines
    <2> QED
        BY <1>1, <2>1, <2>2, <2>3, <2>4
<1>3. ASSUME NEW k \in Calls, NEW g \in Goroutines, Step(k, g)
      PROVE  Escaping' /\ PanicContained'
    <2>1. /\ ~crashed /\ UNCHANGED chain
          /\ \/ (Advances(k, g) \/ Works(k, g) \/ Turns(k, g) \/ Returns(k, g))
                /\ UNCHANGED crashed
             \/ Ends(k, g)
        BY <1>3, StepMoves
    <2>2. gor[k][g].pos \in Nat /\ gor[k][g].res \in Results
        BY DEF TypeOK
    <2>3. /\ {"down", "save", "send", "hung", "up", "over"} \subseteq Directions
          /\ "ok" \in Results
        BY DEF Directions, Results
    <2>4. CASE Advances(k, g) /\ UNCHANGED crashed
        <3>1. gor[k][g].pos + 1 \in Nat
            BY <2>2
        <3> QED
            BY <1>1, <2>1, <2>3, <2>4, <3>1 DEF Advances
    <2>5. CASE Works(k, g) /\ UNCHANGED crashed
        <3>1. gor[k][g].res # "panic"
            BY <1>0, <2>5 DEF Works, Working
        <3> QED
            BY <1>1, <2>1, <2>2, <2>3, <2>5, <3>1 DEF Works
    <2>6. CASE Turns(k, g) /\ UNCHANGED crashed
        <3>1. PICK r \in Results : /\ r = "panic" => gor[k][g].pos = Top
                                  /\ MovedTo(k, g, gor[k][g].pos, "up", r)
            BY <2>6 DEF Turns
        <3>2. Uncaught(Top)
            BY ChainFacts DEF Uncaught
        <3> QED
            BY <1>1, <2>1, <2>2, <2>3, <2>6, <3>1, <3>2
    <2>7. CASE Returns(k, g) /\ UNCHANGED crashed
        <3> DEFINE i == gor[k][g].pos - 1
                   res == gor[k][g].res
        <3>1. MovedTo(k, g, i, "up", Passed(chain[i], res)) /\ gor[k][g].dir = "up" /\ i > Base(g)
            BY <2>7 DEF Returns
        <3>2. i \in Nat
            BY <2>2, <3>1, ChainFacts DEF Placed, Base, Goroutines
        <3>3. Passed(chain[i], res) \in Results
            BY <2>2 DEF Passed, Results
        <3>4. ASSUME Passed(chain[i], res) = "panic" PROVE Uncaught(i)
            <4>1. res = "panic" /\ chain[i] # "recovery"
                BY <3>4 DEF Passed
            <4>2. Uncaught(gor[k][g].pos)
                BY <1>0, <4>1
            <4>3. \A n \in DOMAIN chain : n >= i => n = i \/ n >= gor[k][g].pos
                BY <2>2, ChainFacts
            <4> QED
                BY <4>1, <4>2, <4>3 DEF Uncaught
        <3> HIDE DEF i, res
        <3> QED
            BY <1>1, <2>1, <2>3, <2>7, <3>1, <3>2, <3>3, <3>4
    <2>8. CASE Ends(k, g)
        <3> DEFINE res == gor[k][g].res
        <3>1. /\ gor[k][g].dir = "up" /\ gor[k][g].pos = Base(g) + 1
              /\ MovedTo(k, g, gor[k][g].pos, "over", res) /\ crashed' = (res = "panic")
            BY <2>8 DEF Ends
        <3>2. res = "panic" => Uncaught(gor[k][g].pos)
            BY <1>0
        <3>3. res = "panic" => Uncaught(1)
            <4> SUFFICES ASSUME res = "panic", NEW i \in DOMAIN chain, chain[i] = "recovery"
                         PROVE  \E j \in i+1..Len(chain) : chain[j] = "timeout"
                BY DEF Uncaught
            <4>1. CASE i >= Base(g) + 1
                BY <3>1, <3>2, <4>1 DEF Uncaught
            <4>2. CASE ~(i >= Base(g) + 1)
                <5>1. g = 1
                    BY <4>2, ChainFacts DEF Base, Goroutines
                <5>2. Has("timeout") /\ Base(g) = TimeoutPos
                    BY <3>1, <5>1 DEF Placed, Base
                <5>3. TimeoutPos \in 1..Len(chain) /\ chain[TimeoutPos] = "timeout"
                    BY <5>2, ChainFacts
                <5>4. i # TimeoutPos
                    BY <5>3
                <5>5. TimeoutPos \in i+1..Len(chain)
                    BY <4>2, <5>2, <5>3, <5>4, ChainFacts
                <5> QED
                    BY <5>3, <5>5
            <4> QED
                BY <4>1, <4>2
        <3>4. (res = "panic" => crashed') /\ (crashed' => res = "panic")
            BY <3>1
        <3>5. Escaping'
            <4> SUFFICES ASSUME NEW j \in Calls, NEW h \in Goroutines, gor'[j][h].res = "panic"
                         PROVE  /\ gor'[j][h].dir \in {"up", "over"}
                                /\ gor'[j][h].dir = "over" => crashed'
                                /\ Uncaught(gor'[j][h].pos)
                BY <2>1 DEF Escaping, Uncaught
            <4>1. CASE j = k /\ h = g
                BY <2>2, <3>1, <3>2, <3>4, <4>1 DEF MovedTo
            <4>2. CASE ~(j = k /\ h = g)
                <5>1. gor'[j][h] = gor[j][h] /\ gor[j][h].pos \in Nat
                    BY <3>1, <4>2 DEF MovedTo, TypeOK
                <5> QED
                    BY <1>0, <2>1, <5>1
            <4> QED
                BY <4>1, <4>2
        <3>6. PanicContained'
            <4>1. \A i \in DOMAIN chain : i >= 1
                BY ChainFacts
            <4> QED
                BY <2>1, <3>3, <3>4, <4>1 DEF PanicContained, Uncaught
        <3> QED
            BY <3>5, <3>6
    <2> QED
        BY <2>1, <2>4, <2>5, <2>6, <2>7, <2>8
<1>4. ASSUME NEW k \in Calls, Wait(k) PROVE Escaping' /\ PanicContained'
    <2>1. /\ ~crashed /\ UNCHANGED <<chain, crashed>>
          /\ Starts(k) \/ GetsResult(k) \/ GivesUp(k)
        BY <1>4, WaitMoves
    <2>2. gor[k][0].pos \in Nat /\ gor[k][1].res \in Results
        BY DEF TypeOK, Goroutines
    <2>3. "up" \in Directions /\ "err" \in Results /\ {0, 1} = Goroutines
        BY DEF Directions, Results, Goroutines
    <2>4. CASE Starts(k)
        <3>1. gor[k][0].res # "panic"
            BY <1>0, <2>4 DEF Starts, Goroutines
        <3> QED
            BY <1>0, <2>1, <2>4, <3>1 DEF Starts, Escaping, PanicContained, Uncaught, Goroutines
    <2>5. CASE GetsResult(k)
        <3>1. gor[k][1].res # "panic"
            BY <1>0, <2>1, <2>5 DEF GetsResult, Goroutines
        <3> QED
            BY <1>1, <2>1, <2>2, <2>3, <2>5, <3>1 DEF GetsResult
    <2>6. CASE GivesUp(k)
        BY <1>1, <2>1, <2>2, <2>3, <2>6 DEF GivesUp
    <2> QED
        BY <2>1, <2>4, <2>5, <2>6
<1>5. CASE Tick
    BY <1>5 DEF Tick, Escaping, PanicContained, Uncaught
<1>6. CASE UNCHANGED vars
    BY <1>6 DEF vars, Escaping, PanicContained, Uncaught
<1> QED
    BY <1>2, <1>3, <1>4, <1>5, <1>6 DEF Next, Goroutines

-----------------------------------------------------------------------------
(* Authentication                                                           *)

(* A step authenticates a connection for a reason only, passes an           *)
(* authenticating middleware only then, and enters the handler at its end.  *)
LEMMA StepAuth ==
    ASSUME TypeOK, Placed, NEW k \in Calls, NEW g \in Goroutines, Step(k, g)
    PROVE  /\ \A c \in Conns : authenticated[c] => authenticated'[c]
           /\ \A c \in Conns : authenticated'[c] =>
                authenticated[c] \/ Has("authcode") \/ (Has("authstore") /\ devices # {})
           /\ devices \subseteq devices'
           /\ handled' = handled
              \/ (handled' = handled \cup {k} /\ gor[k][g].dir = "down" /\ gor[k][g].pos = Top)
           /\ (/\ kind[k] = "location" /\ gor[k][g].dir = "down" /\ gor'[k][g].dir = "down"
               /\ chain[gor[k][g].pos] \in AuthMiddleware) => authenticated'[k[1]]
<1> DEFINE i == gor[k][g].pos
           Goal == /\ \A c \in Conns : authenticated[c] => authenticated'[c]
                   /\ \A c \in Conns : authenticated'[c] =>
                        authenticated[c] \/ Has("authcode") \/ (Has("authstore") /\ devices # {})
                   /\ devices \subseteq devices'
                   /\ handled' = handled
                      \/ (handled' = handled \cup {k} /\ gor[k][g].dir = "down" /\ i = Top)
                   /\ (/\ kind[k] = "location" /\ gor[k][g].dir = "down"
                       /\ gor'[k][g].dir = "down" /\ chain[i] \in AuthMiddleware)
                        => authenticated'[k[1]]
<1>1. k[1] \in Conns /\ authenticated \in [Conns -> BOOLEAN] /\ i \in Nat
    BY DEF Calls, TypeOK
<1>2. gor[k][g].dir \notin {"none", "over"} => i \in Base(g)+1..Top /\ Base(g) \in Nat
    BY ChainFacts DEF Placed, Base, Goroutines
<1>3. /\ DOMAIN chain = 1..Len(chain) /\ Len(chain) \in Nat /\ Top = Len(chain) + 1
    BY ChainFacts
<1>4. /\ \A n \in Nat : Down(k, g, n) => gor'[k][g].dir = "down"
      /\ \A d \in Directions : Stage(k, g, d) => gor'[k][g].dir = d
      /\ \A r \in Results : Up(k, g, r) => gor'[k][g].dir = "up"
    BY Places DEF MovedTo
<1>5. /\ {"save", "send", "hung", "over"} \subseteq Directions
      /\ {"ok", "err", "panic"} \subseteq Results
    BY DEF Directions, Results
<1>6. CASE Enter(k, g)
    BY <1>6 DEF Enter, connVars, AuthMiddleware
<1>7. CASE RateLimit(k, g)
    BY <1>7 DEF RateLimit, connVars, AuthMiddleware
<1>8. ASSUME NEW mw \in AuthMiddleware, Checked(k, g, mw) PROVE Goal
    <2>1. /\ gor[k][g].dir = "down" /\ chain[i] = mw /\ i < Top
          /\ UNCHANGED <<handled, devices>>
        BY <1>8 DEF Checked, At, connVars
    <2>2. i \in DOMAIN chain
        BY <1>2, <1>3, <2>1
    <2>3. CASE /\ kind[k] \in {"register", "auth"} \/ authenticated[k[1]]
               /\ UNCHANGED authenticated
        BY <2>1, <2>3
    <2>4. CASE /\ ~authenticated[k[1]]
               /\ authenticated' = [authenticated EXCEPT ![k[1]] = KnownToStorage(mw, k[1])]
               /\ IF KnownToStorage(mw, k[1]) THEN Down(k, g, i + 1) ELSE Up(k, g, "err")
        <3>1. \A c \in Conns \ {k[1]} : authenticated'[c] = authenticated[c]
            BY <1>1, <2>4
        <3>2. authenticated'[k[1]] = KnownToStorage(mw, k[1])
            BY <1>1, <2>4
        <3>3. KnownToStorage(mw, k[1]) => Has("authstore") /\ devices # {}
            BY <2>1, <2>2 DEF KnownToStorage, Has
        <3>4. gor'[k][g].dir = "down" => KnownToStorage(mw, k[1])
            BY <1>4, <1>5, <2>4
        <3> QED
            BY <1>1, <2>1, <2>4, <3>1, <3>2, <3>3, <3>4
    <2> QED
        BY <1>8, <2>3, <2>4 DEF Checked
<1>9. CASE Auth(k, g) \/ AuthWithCode(k, g) \/ AuthWithStorage(k, g)
    BY <1>8, <1>9 DEF Auth, AuthWithCode, AuthWithStorage, AuthMiddleware
<1>10. CASE HandlerFails(k, g)
    BY <1>4, <1>5, <1>10 DEF HandlerFails, At, connVars
<1>11. CASE Register(k, g)
    BY <1>4, <1>5, <1>11 DEF Register, InHandler, At
<1>12. CASE SaveDevice(k, g)
    BY <1>12 DEF SaveDevice, At
<1>13. CASE Location(k, g)
    BY <1>4, <1>5, <1>13 DEF Location, InHandler, At, connVars
<1>14. CASE Heartbeat(k, g)
    BY <1>4, <1>5, <1>14 DEF Heartbeat, InHandler, At, connVars
<1>15. CASE Send(k, g)
    BY <1>15 DEF Send, At, connVars
<1>16. CASE Return(k, g)
    <2> DEFINE mw == chain[i - 1]
               coded == mw = "authcode" /\ kind[k] = "auth" /\ gor[k][g].res = "ok"
    <2>1. /\ gor[k][g].dir = "up" /\ i - 1 > Base(g) /\ UNCHANGED <<handled, devices>>
          /\ authenticated' = [authenticated EXCEPT ![k[1]] = authenticated[k[1]] \/ coded]
        BY <1>16 DEF Return, At, connVars, SetAuthenticated
    <2>2. i - 1 \in DOMAIN chain
        BY <1>1, <1>2, <1>3, <2>1
    <2>3. coded => Has("authcode")
        BY <2>2 DEF Has
    <2>4. \A c \in Conns \ {k[1]} : authenticated'[c] = authenticated[c]
        BY <1>1, <2>1
    <2>5. authenticated'[k[1]] = (authenticated[k[1]] \/ coded)
        BY <1>1, <2>1
    <2> HIDE DEF coded
    <2> QED
        BY <1>1, <2>1, <2>3, <2>4, <2>5
<1>17. CASE End(k, g)
    BY <1>17 DEF End, At, connVars
<1> QED
    BY <1>6, <1>7, <1>9, <1>10, <1>11, <1>12, <1>13, <1>14, <1>15, <1>16, <1>17 DEF Step

Guarded == Has("auth") \/ Has("authcode") \/ Has("authstore")

LEMMA StepCleared ==
    TypeOK /\ Placed /\ Cleared /\ AuthRequired /\ [Next]_vars => Cleared' /\ AuthRequired'
<1> SUFFICES ASSUME TypeOK, Placed, Cleared, AuthRequired, [Next]_vars
             PROVE  Cleared' /\ AuthRequired'
    OBVIOUS
<1>0. \A j \in Calls : j[1] \in Conns
    BY DEF Calls
<1>1. ASSUME NEW c \in Conns, NEW r \in 1..MaxCalls, Dispatch(c, r)
      PROVE  Cleared' /\ AuthRequired'
    <2> DEFINE k == <<c, r>>
    <2>1. /\ k \in Calls /\ gor[k][0].dir = "none"
          /\ \/ MovedTo(k, 0, 1, "down", "ok")
             \/ MovedTo(k, 0, gor[k][0].pos, "over", gor[k][0].res)
          /\ \A j \in Calls \ {k} : kind'[j] = kind[j]
          /\ UNCHANGED <<chain, handled, devices, authenticated>>
        BY <1>1, DispatchMoves DEF connVars
    <2>2. gor[k][1].dir = "none" /\ k \notin handled
        BY <2>1 DEF Placed, Cleared
    <2>3. \A mw : Has(mw)' = Has(mw)
        BY <2>1, SameChain
    <2>4. /\ gor'[k][0].dir = "over" \/ (gor'[k][0].dir = "down" /\ gor'[k][0].pos = 1)
          /\ \A j \in Calls, h \in Goroutines : j # k \/ h # 0 => gor'[j][h] = gor[j][h]
        BY <2>1 DEF MovedTo
    <2>5. \A i \in DOMAIN chain : i >= 1
        BY ChainFacts
    <2> HIDE DEF k
    <2>6. Cleared'
        <3>1. ASSUME NEW j \in Calls, NEW h \in Goroutines, NEW i \in DOMAIN chain,
                     kind'[j] = "location", Working(j, h)', i < gor'[j][h].pos,
                     chain[i] \in AuthMiddleware
              PROVE  authenticated[j[1]]
            <4>1. CASE j = k
                <5>1. gor'[k][1] = gor[k][1]
                    BY <2>1, <2>4 DEF Goroutines
                <5>2. h = 0
                    BY <2>2, <3>1, <4>1, <5>1 DEF Working, Goroutines
                <5>3. gor'[k][0].pos = 1
                    BY <2>4, <3>1, <4>1, <5>2 DEF Working
                <5> QED
                    BY <2>5, <3>1, <4>1, <5>2, <5>3, ChainFacts
            <4>2. CASE j # k
                BY <2>1, <2>4, <3>1, <4>2 DEF Working, Cleared
            <4> QED
                BY <4>1, <4>2
        <3>2. \A j \in handled' : gor'[j][0].dir # "none"
            <4>1. \A j \in handled : j \in Calls /\ j # k /\ gor[j][0].dir # "none"
                BY <2>2 DEF Cleared, TypeOK
            <4>2. \A j \in Calls : j # k => gor'[j][0] = gor[j][0]
                BY <2>4 DEF Goroutines
            <4> QED
                BY <2>1, <4>1, <4>2
        <3> QED
            BY <2>1, <2>3, <3>1, <3>2 DEF Cleared
    <2>7. AuthRequired'
        BY <2>1, <2>2, <2>3 DEF AuthRequired, TypeOK
    <2> QED
        BY <2>6, <2>7
<1>2. ASSUME NEW k \in Calls, NEW g \in Goroutines, Step(k, g)
      PROVE  Cleared' /\ AuthRequired'
    <2>1. /\ UNCHANGED <<chain, kind>>
          /\ Advances(k, g) \/ Works(k, g) \/ Turns(k, g) \/ Returns(k, g) \/ Ends(k, g)
        BY <1>2, StepMoves DEF callVars
    <2>2. /\ \A c \in Conns : authenticated[c] => authenticated'[c]
          /\ \A c \in Conns : authenticated'[c] =>
                authenticated[c] \/ Has("authcode") \/ (Has("authstore") /\ devices # {})
          /\ devices \subseteq devices'
        BY <1>2, StepAuth
    <2>3. handled' = handled
          \/ (handled' = handled \cup {k} /\ gor[k][g].dir = "down" /\ gor[k][g].pos = Top)
        BY <1>2, StepAuth
    <2>4. (/\ kind[k] = "location" /\ gor[k][g].dir = "down" /\ gor'[k][g].dir = "down"
           /\ chain[gor[k][g].pos] \in AuthMiddleware) => authenticated'[k[1]]
        BY <1>2, StepAuth
    <2>5. \A mw : Has(mw)' = Has(mw)
        BY <2>1, SameChain
    <2>6. gor[k][g].pos \in Nat
        BY DEF TypeOK
    <2>7. \A j \in Calls, h \in Goroutines : j # k \/ h # g => gor'[j][h] = gor[j][h]
        BY <2>1 DEF Advances, Works, Turns, Returns, Ends, MovedTo
    <2>8. Working(k, g)' =>
            /\ Working(k, g)
            /\ \/ gor'[k][g].pos = gor[k][g].pos
               \/ /\ gor'[k][g].pos = gor[k][g].pos + 1
                  /\ gor[k][g].dir = "down" /\ gor'[k][g].dir = "down"
        BY <2>1 DEF Advances, Works, Turns, Returns, Ends, MovedTo, Working
    <2>9. /\ gor[k][g].dir # "none" /\ gor'[k][g].dir # "none"
          /\ gor[k][0].dir # "none" /\ gor'[k][0].dir # "none"
        BY <2>1, <2>7 DEF Advances, Works, Turns, Returns, Ends, MovedTo, Working, Placed, Goroutines
    <2>10. Cleared'
        <3>1. ASSUME NEW j \in Calls, NEW h \in Goroutines, NEW i \in DOMAIN chain,
                     kind[j] = "location", Working(j, h)', i < gor'[j][h].pos,
                     chain[i] \in AuthMiddleware
              PROVE  authenticated'[j[1]]
            <4>1. CASE j = k /\ h = g
                <5>1. CASE i < gor[k][g].pos
                    <6>1. authenticated[k[1]]
                        BY <2>8, <3>1, <4>1, <5>1 DEF Cleared
                    <6> QED
                        BY <1>0, <2>2, <4>1, <6>1
                <5>2. CASE ~(i < gor[k][g].pos)
                    <6>1. i = gor[k][g].pos /\ gor[k][g].dir = "down" /\ gor'[k][g].dir = "down"
                        BY <2>6, <2>8, <3>1, <4>1, <5>2, ChainFacts
                    <6> QED
                        BY <2>4, <3>1, <4>1, <6>1
                <5> QED
                    BY <5>1, <5>2
            <4>2. CASE ~(j = k /\ h = g)
                <5>1. authenticated[j[1]]
                    BY <2>7, <3>1, <4>2 DEF Working, Cleared
                <5> QED
                    BY <1>0, <2>2, <5>1
            <4> QED
                BY <4>1, <4>2
        <3>2. \A j \in handled' : gor'[j][0].dir # "none"
            BY <2>3, <2>7, <2>9 DEF Cleared, Goroutines, TypeOK
        <3>3. \A c \in Conns : authenticated'[c] =>
                Has("authcode") \/ (Has("authstore") /\ devices' # {})
            BY <2>2 DEF Cleared
        <3> QED
            BY <2>1, <2>5, <3>1, <3>2, <3>3 DEF Cleared
    <2>11. AuthRequired'
        <3> SUFFICES ASSUME NEW j \in handled', kind[j] = "location", Guarded
                     PROVE  /\ authenticated'[j[1]]
                            /\ Has("authstore") /\ ~Has("authcode") => devices' # {}
            BY <2>1, <2>5 DEF AuthRequired, Guarded
        <3>1. j \in Calls
            BY <2>3 DEF TypeOK
        <3>2. authenticated[j[1]]
            <4>1. CASE j \in handled
                BY <4>1 DEF AuthRequired, Guarded
            <4>2. CASE j \notin handled
                <5>1. j = k /\ gor[k][g].dir = "down" /\ gor[k][g].pos = Top
                    BY <2>3, <4>2
                <5>2. PICK i \in DOMAIN chain : chain[i] \in AuthMiddleware
                    BY DEF Guarded, Has, AuthMiddleware
                <5>3. i < Top
                    BY <5>2, ChainFacts
                <5> QED
                    BY <5>1, <5>2, <5>3 DEF Cleared, Working
            <4> QED
                BY <4>1, <4>2
        <3> QED
            BY <1>0, <2>2, <3>1, <3>2 DEF Cleared
    <2> QED
        BY <2>10, <2>11
<1>3. ASSUME NEW k \in Calls, Wait(k) PROVE Cleared' /\ AuthRequired'
    <2>1. /\ UNCHANGED <<chain, kind, handled, devices, authenticated>>
          /\ Starts(k) \/ GetsResult(k) \/ GivesUp(k)
        BY <1>3, WaitMoves DEF connVars
    <2>2. \A mw : Has(mw)' = Has(mw)
        BY <2>1, SameChain
    <2>3. AuthRequired'
        BY <2>1, <2>2 DEF AuthRequired
    <2>4. CASE Starts(k)
        <3>1. TimeoutPos \in 1..Len(chain) /\ chain[TimeoutPos] = "timeout"
            BY <2>4, ChainFacts DEF Starts
        <3>2. \A i \in DOMAIN chain :
                i < TimeoutPos + 1 /\ chain[i] \in AuthMiddleware => i < TimeoutPos
            BY <3>1, ChainFacts DEF AuthMiddleware
        <3>3. ASSUME NEW j \in Calls, NEW h \in Goroutines, NEW i \in DOMAIN chain,
                     kind[j] = "location", Working(j, h)', i < gor'[j][h].pos,
                     chain[i] \in AuthMiddleware
              PROVE  authenticated[j[1]]
            <4>1. CASE j = k
                <5>1. i < gor[k][0].pos /\ Working(k, 0)
                    BY <2>4, <3>2, <3>3, <4>1 DEF Starts, Working, Goroutines
                <5> QED
                    BY <3>3, <4>1, <5>1 DEF Cleared, Goroutines
            <4>2. CASE j # k
                BY <2>4, <3>3, <4>2 DEF Starts, Working, Cleared
            <4> QED
                BY <4>1, <4>2
        <3>4. \A j \in handled : gor'[j][0].dir # "none"
            BY <2>4 DEF Starts, Cleared, Goroutines, TypeOK
        <3> QED
            BY <2>1, <2>2, <2>3, <3>3, <3>4 DEF Cleared
    <2>5. CASE GetsResult(k) \/ GivesUp(k)
        <3>1. /\ gor'[k][0].dir = "up"
              /\ \A j \in Calls, h \in Goroutines : j # k \/ h # 0 => gor'[j][h] = gor[j][h]
            BY <2>5 DEF GetsResult, GivesUp, MovedTo
        <3>2. \A j \in Calls, h \in Goroutines : Working(j, h)' => gor'[j][h] = gor[j][h]
            BY <3>1 DEF Working
        <3>3. ASSUME NEW j \in Calls, NEW h \in Goroutines, NEW i \in DOMAIN chain,
                     kind[j] = "location", Working(j, h)', i < gor'[j][h].pos,
                     chain[i] \in AuthMiddleware
              PROVE  authenticated[j[1]]
            BY <3>2, <3>3 DEF Cleared, Working
        <3>4. \A j \in handled : gor'[j][0].dir # "none"
            BY <3>1 DEF Cleared, Goroutines, TypeOK
        <3> QED
            BY <2>1, <2>2, <2>3, <3>3, <3>4 DEF Cleared
    <2> QED
        BY <2>1, <2>4, <2>5
<1>4. CASE Tick
    BY <1>4 DEF Tick, callVars, connVars, Cleared, AuthRequired, Has, Working
<1>5. CASE UNCHANGED vars
    BY <1>5 DEF vars, callVars, connVars, Cleared, AuthRequired, Has, Working
<1> QED
    BY <1>1, <1>2, <1>3, <1>4, <1>5 DEF Next, Goroutines

-----------------------------------------------------------------------------
(* Replies                                                                  *)

(* A step of a goroutine starts no call; whoever is alive or working after  *)
(* it was so before, and only a Send adds a reply.                          *)
LEMMA StepReplies ==
    ASSUME TypeOK, Placed, NEW k \in Calls, NEW g \in Goroutines, Step(k, g)
    PROVE  /\ gor[k][g].dir \notin {"none", "wait", "over"} /\ gor'[k][g].dir # "none"
           /\ Working(k, g)' => Working(k, g)
           /\ \A j \in Calls, h \in Goroutines : j # k \/ h # g => gor'[j][h] = gor[j][h]
           /\ UNCHANGED <<server, timedOut>>
           /\ \/ replies' = replies
              \/ /\ replies' = [replies EXCEPT ![k[1]] = Append(replies[k[1]], k[2])]
                 /\ gor[k][g].dir = "send" /\ gor'[k][g].dir = "up"
<1>1. /\ UNCHANGED <<server, timedOut>>
      /\ Advances(k, g) \/ Works(k, g) \/ Turns(k, g) \/ Returns(k, g) \/ Ends(k, g)
    BY StepMoves DEF callVars
<1>2. /\ gor[k][g].dir \notin {"none", "wait", "over"} /\ gor'[k][g].dir # "none"
      /\ Working(k, g)' => Working(k, g)
      /\ \A j \in Calls, h \in Goroutines : j # k \/ h # g => gor'[j][h] = gor[j][h]
    BY <1>1 DEF Advances, Works, Turns, Returns, Ends, MovedTo, Working
<1>3. CASE Send(k, g)
    <2>1. \A r \in Results : Up(k, g, r) => gor'[k][g].dir = "up"
        BY Places DEF MovedTo
    <2> QED
        BY <1>1, <1>2, <1>3, <2>1 DEF Send, At, Results
<1>4. CASE ~Send(k, g)
    <2>1. replies' = replies
        BY <1>4
        DEF Step, Enter, RateLimit, Auth, AuthWithCode, AuthWithStorage, Checked,
            HandlerFails, Register, SaveDevice, Location, Heartbeat, Return, End
    <2> QED
        BY <1>1, <1>2, <2>1
<1> QED
    BY <1>3, <1>4

LEMMA StepInTurn ==
    TypeOK /\ Placed /\ InTurn /\ ReplyOrder /\ [Next]_vars => InTurn' /\ ReplyOrder'
<1> SUFFICES ASSUME TypeOK, Placed, InTurn, ReplyOrder, [Next]_vars
             PROVE  InTurn' /\ ReplyOrder'
    OBVIOUS
<1> DEFINE Ordered == \A c \in Conns : \A r, s \in 1..MaxCalls : r < s =>
                        /\ Begun(c, s) => Begun(c, r)
                        /\ server = "tcp" => ~(Alive(c, r) /\ Begun(c, s))
           Awaited == \A k \in Calls : Working(k, 1) /\ k \notin timedOut
                                        => gor[k][0].dir = "wait"
           Done(c, r) == Begun(c, r) /\ \A g \in Goroutines : ~Working(<<c, r>>, g)
           Answered == \A c \in Conns : \A i \in DOMAIN replies[c] : Done(c, replies[c][i])
<1>1. Ordered /\ Awaited /\ Answered
    BY DEF InTurn
<1>2. \A c \in Conns, r \in 1..MaxCalls : <<c, r>> \in Calls
    BY DEF Calls
<1>3. \A c \in Conns : replies[c] \in Seq(1..MaxCalls)
    BY DEF TypeOK
<1>4. \A c \in Conns : \A i \in DOMAIN replies[c] : replies[c][i] \in 1..MaxCalls
    <2> SUFFICES ASSUME NEW c \in Conns, NEW i \in DOMAIN replies[c]
                 PROVE  replies[c][i] \in 1..MaxCalls
        OBVIOUS
    <2>1. replies[c] \in [1..Len(replies[c]) -> 1..MaxCalls]
        BY <1>3, LenProperties
    <2> QED
        BY <2>1
<1>5. Ordered' /\ Awaited' /\ Answered' => InTurn'
    BY DEF InTurn
<1>6. ASSUME NEW c \in Conns, NEW r \in 1..MaxCalls, Dispatch(c, r)
      PROVE  InTurn' /\ ReplyOrder'
    <2> DEFINE k == <<c, r>>
    <2>1. /\ k \in Calls /\ gor[k][0].dir = "none"
          /\ r > 1 => gor[<<c, r - 1>>][0].dir # "none"
          /\ server = "tcp" => Idle(c)
          /\ UNCHANGED <<server, timedOut, replies>>
        BY <1>6, DispatchMoves
    <2>2. /\ gor'[k][0].dir \in {"down", "over"}
          /\ \A j \in Calls, h \in Goroutines : j # k \/ h # 0 => gor'[j][h] = gor[j][h]
        BY <1>6, DispatchMoves DEF MovedTo
    <2>3. gor[k][1].dir = "none"
        BY <2>1 DEF Placed
    <2>4. \A d \in Conns, s \in 1..MaxCalls : <<d, s>> # k =>
            /\ Begun(d, s)' = Begun(d, s) /\ Alive(d, s)' = Alive(d, s)
            /\ \A g \in Goroutines : Working(<<d, s>>, g)' = Working(<<d, s>>, g)
        BY <1>2, <2>2 DEF Begun, Alive, Working, Goroutines
    <2>5. ~Begun(c, r) /\ Begun(c, r)'
        BY <2>1, <2>2 DEF Begun
    <2>6. \A s \in 1..MaxCalls : s < r => Begun(c, s)
        <3> SUFFICES ASSUME NEW s \in 1..MaxCalls, s < r PROVE Begun(c, s)
            OBVIOUS
        <3>1. r > 1 /\ r - 1 \in 1..MaxCalls
            BY DispatchAssumption
        <3>2. Begun(c, r - 1)
            BY <2>1, <3>1 DEF Begun
        <3>3. s = r - 1 \/ s < r - 1
            BY DispatchAssumption
        <3> QED
            BY <1>1, <3>1, <3>2, <3>3
    <2>7. server = "tcp" => \A s \in 1..MaxCalls : ~Alive(c, s)
        BY <2>1 DEF Idle, Alive
    <2>8. Ordered'
        <3> SUFFICES ASSUME NEW d \in Conns, NEW s \in 1..MaxCalls, NEW t \in 1..MaxCalls, s < t
                     PROVE  /\ Begun(d, t)' => Begun(d, s)'
                            /\ server = "tcp" => ~(Alive(d, s)' /\ Begun(d, t)')
            BY <2>1
        <3>1. s # t
            BY DispatchAssumption
        <3>2. CASE <<d, s>> = k
            BY <1>1, <2>4, <2>5, <3>1, <3>2
        <3>3. CASE <<d, t>> = k
            BY <2>4, <2>6, <2>7, <3>1, <3>3
        <3>4. CASE <<d, s>> # k /\ <<d, t>> # k
            BY <1>1, <2>4, <3>4
        <3> QED
            BY <3>2, <3>3, <3>4
    <2>9. Awaited'
        <3> SUFFICES ASSUME NEW j \in Calls, Working(j, 1)', j \notin timedOut
                     PROVE  gor'[j][0].dir = "wait"
            BY <2>1
        <3>1. gor'[j][1] = gor[j][1]
            BY <2>2 DEF Goroutines
        <3>2. Working(j, 1) /\ j # k
            BY <2>3, <3>1 DEF Working
        <3>3. gor'[j][0] = gor[j][0]
            BY <2>2, <3>2 DEF Goroutines
        <3> QED
            BY <1>1, <3>2, <3>3
    <2>10. Answered'
        <3> SUFFICES ASSUME NEW d \in Conns, NEW i \in DOMAIN replies[d]
                     PROVE  Done(d, replies[d][i])'
            BY <2>1
        <3>1. replies[d][i] \in 1..MaxCalls /\ Done(d, replies[d][i])
            BY <1>1, <1>4
        <3>2. <<d, replies[d][i]>> # k
            BY <2>5, <3>1
        <3> QED
            BY <2>1, <2>4, <3>1, <3>2
    <2>11. ReplyOrder'
        BY <2>1 DEF ReplyOrder
    <2> QED
        BY <1>5, <2>8, <2>9, <2>10, <2>11
<1>7. ASSUME NEW k \in Calls, NEW g \in Goroutines, Step(k, g)
      PROVE  InTurn' /\ ReplyOrder'
    <2>1. /\ gor[k][g].dir \notin {"none", "wait", "over"} /\ gor'[k][g].dir # "none"
          /\ Working(k, g)' => Working(k, g)
          /\ \A j \in Calls, h \in Goroutines : j # k \/ h # g => gor'[j][h] = gor[j][h]
          /\ UNCHANGED <<server, timedOut>>
        BY <1>7, StepReplies
    <2>2. PICK c \in Conns, r \in 1..MaxCalls : k = <<c, r>>
        BY DEF Calls
    <2>3. k[1] = c /\ k[2] = r
        BY <2>2
    <2>4. \A j \in Calls, h \in Goroutines : Working(j, h)' => Working(j, h)
        BY <2>1 DEF Working
    <2>5. \A j \in Calls : /\ gor'[j][0].dir # "none" <=> gor[j][0].dir # "none"
                           /\ gor'[j][0].dir \notin {"none", "over"} =>
                                gor[j][0].dir \notin {"none", "over"}
        BY <2>1 DEF Goroutines
    <2>6. \A d \in Conns, s \in 1..MaxCalls :
            (Begun(d, s)' <=> Begun(d, s)) /\ (Alive(d, s)' => Alive(d, s))
        BY <1>2, <2>5 DEF Begun, Alive
    <2>7. Ordered'
        BY <1>1, <2>1, <2>6
    <2>8. Awaited'
        <3> SUFFICES ASSUME NEW j \in Calls, Working(j, 1)', j \notin timedOut
                     PROVE  gor'[j][0].dir = "wait"
            BY <2>1
        <3>1. gor[j][0].dir = "wait"
            BY <1>1, <2>4 DEF Goroutines
        <3>2. ~(j = k /\ g = 0)
            BY <2>1, <3>1
        <3> QED
            BY <2>1, <3>1, <3>2 DEF Goroutines
    <2>9. \A d \in Conns, s \in 1..MaxCalls : Done(d, s) => Done(d, s)'
        BY <1>2, <2>4, <2>6
    <2>10. CASE replies' = replies
        <3>1. Answered'
            BY <1>1, <1>4, <2>9, <2>10
        <3>2. ReplyOrder'
            BY <2>1, <2>10 DEF ReplyOrder
        <3> QED
            BY <1>5, <2>7, <2>8, <3>1, <3>2
    <2>11. CASE /\ replies' = [replies EXCEPT ![c] = Append(replies[c], r)]
                /\ gor[k][g].dir = "send" /\ gor'[k][g].dir = "up"
        <3> DEFINE old == replies[c]
                   n == Len(replies[c])
                   new == Append(replies[c], r)
        <3>1. replies'[c] = new /\ \A d \in Conns \ {c} : replies'[d] = replies[d]
            BY <2>11 DEF TypeOK
        <3>2. /\ n \in Nat /\ DOMAIN old = 1..n /\ DOMAIN new = 1..(n + 1) /\ new[n + 1] = r
              /\ \A i \in 1..n : new[i] = old[i] /\ old[i] \in 1..MaxCalls
            <4>1. old \in Seq(1..MaxCalls) /\ n = Len(old) /\ r \in 1..MaxCalls
                BY <1>3
            <4>2. n \in Nat /\ DOMAIN old = 1..n /\ \A i \in 1..n : old[i] \in 1..MaxCalls
                BY <4>1, ElementOfSeq, LenProperties
            <4> HIDE DEF old, n
            <4>3. /\ new = Append(old, r) /\ Append(old, r) \in Seq(1..MaxCalls)
                  /\ Len(Append(old, r)) = n + 1 /\ Append(old, r)[n + 1] = r
                  /\ \A i \in 1..n : Append(old, r)[i] = old[i]
                BY <4>1, AppendProperties DEF old
            <4>4. DOMAIN Append(old, r) = 1..(n + 1)
                BY <4>3, LenProperties
            <4> QED
                BY <4>2, <4>3, <4>4
        <3>3. \A i \in 1..(n + 1) : i \in 1..n \/ i = n + 1
            BY <3>2
        <3> HIDE DEF old, n, new
        <3>4. Working(k, g) /\ ~Working(k, g)'
            BY <2>11 DEF Working
        <3>5. \A h \in Goroutines : ~Working(k, h)'
            <4> SUFFICES ASSUME NEW h \in Goroutines, Working(k, h)' PROVE FALSE
                OBVIOUS
            <4>1. h # g /\ Working(k, h)
                BY <2>4, <3>4
            <4>2. Working(k, 1) /\ Working(k, 0)
                BY <3>4, <4>1 DEF Goroutines
            <4> QED
                BY <4>2 DEF Working, Placed
        <3>6. Begun(c, r)
            BY <2>2, <3>4 DEF Begun, Working, Placed, Goroutines
        <3>7. Done(c, r)'
            BY <2>2, <2>6, <3>5, <3>6
        <3>8. Answered'
            <4> SUFFICES ASSUME NEW d \in Conns, NEW i \in DOMAIN replies'[d]
                         PROVE  Done(d, replies[d][i])'
                OBVIOUS
            <4>1. CASE d # c
                BY <1>1, <1>4, <2>9, <3>1, <4>1
            <4>2. CASE d = c
                <5>1. CASE i \in 1..n
                    <6>1. Done(c, old[i]) /\ old[i] \in 1..MaxCalls
                        BY <1>1, <3>2, <5>1 DEF old
                    <6>2. replies'[c][i] = old[i]
                        BY <3>1, <3>2, <5>1
                    <6> QED
                        BY <2>9, <4>2, <6>1, <6>2
                <5>2. CASE i = n + 1
                    BY <3>1, <3>2, <3>7, <4>2, <5>2
                <5> QED
                    BY <3>1, <3>2, <3>3, <4>2, <5>1, <5>2
            <4> QED
                BY <4>1, <4>2
        <3>9. k \notin timedOut => Alive(c, r)
            BY <1>1, <2>2, <3>4 DEF Alive, Working, Goroutines
        <3>10. server = "tcp" => \A i \in 1..n : old[i] >= r => k \in timedOut
            <4> SUFFICES ASSUME server = "tcp", NEW i \in 1..n, old[i] >= r, k \notin timedOut
                         PROVE  FALSE
                OBVIOUS
            <4>1. Done(c, old[i]) /\ old[i] \in 1..MaxCalls
                BY <1>1, <3>2 DEF old
            <4>2. old[i] # r
                BY <2>2, <3>4, <4>1
            <4>3. r < old[i]
                BY <4>1, <4>2, DispatchAssumption
            <4> QED
                BY <1>1, <3>9, <4>1, <4>3
        <3>11. ReplyOrder'
            <4> SUFFICES ASSUME server = "tcp", NEW d \in Conns,
                                NEW i \in DOMAIN replies'[d], NEW j \in DOMAIN replies'[d],
                                i < j, replies'[d][i] >= replies'[d][j]
                         PROVE  <<d, replies'[d][j]>> \in timedOut
                BY <2>1 DEF ReplyOrder
            <4>1. CASE d # c
                BY <3>1, <4>1 DEF ReplyOrder
            <4>2. CASE d = c /\ j = n + 1
                <5>1. i \in 1..n
                    BY <3>1, <3>2, <4>2
                <5>2. old[i] >= r
                    BY <3>1, <3>2, <4>2, <5>1
                <5> QED
                    BY <2>2, <3>1, <3>2, <3>10, <4>2, <5>1, <5>2
            <4>3. CASE d = c /\ j # n + 1
                <5>1. i \in 1..n /\ j \in 1..n
                    BY <3>1, <3>2, <4>3
                <5>2. replies'[c][i] = old[i] /\ replies'[c][j] = old[j]
                    BY <3>1, <3>2, <5>1
                <5>3. i \in DOMAIN replies[c] /\ j \in DOMAIN replies[c]
                    BY <3>2, <5>1 DEF old
                <5> QED
                    BY <4>3, <5>2, <5>3 DEF ReplyOrder, old
            <4> QED
                BY <4>1, <4>2, <4>3
        <3> QED
            BY <1>5, <2>7, <2>8, <3>8, <3>11
    <2> QED
        BY <1>7, <2>3, <2>10, <2>11, StepReplies
<1>8. ASSUME NEW k \in Calls, Wait(k) PROVE InTurn' /\ ReplyOrder'
    <2>1. /\ UNCHANGED <<server, replies>>
          /\ \/ (Starts(k) \/ GetsResult(k)) /\ UNCHANGED timedOut
             \/ GivesUp(k) /\ timedOut' = timedOut \cup {k}
        BY <1>8, WaitMoves
    <2>2. \A j \in Calls : /\ gor'[j][0].dir # "none" <=> gor[j][0].dir # "none"
                           /\ gor'[j][0].dir \notin {"none", "over"} =>
                                gor[j][0].dir \notin {"none", "over"}
        BY <2>1 DEF Starts, GetsResult, GivesUp, MovedTo, Goroutines
    <2>3. \A d \in Conns, s \in 1..MaxCalls :
            (Begun(d, s)' <=> Begun(d, s)) /\ (Alive(d, s)' => Alive(d, s))
        BY <1>2, <2>2 DEF Begun, Alive
    <2>4. Ordered'
        BY <1>1, <2>1, <2>3
    <2>5. \A j \in Calls, h \in Goroutines :
            Working(j, h)' => Working(j, h) \/ (j = k /\ Working(k, 0))
        BY <2>1 DEF Starts, GetsResult, GivesUp, MovedTo, Goroutines, Working
    <2>6. Awaited'
        <3> SUFFICES ASSUME NEW j \in Calls, Working(j, 1)', j \notin timedOut'
                     PROVE  gor'[j][0].dir = "wait"
            OBVIOUS
        <3>1. CASE j # k
            <4>1. gor'[j][0] = gor[j][0] /\ gor'[j][1] = gor[j][1] /\ j \notin timedOut
                BY <2>1, <3>1 DEF Starts, GetsResult, GivesUp, MovedTo, Goroutines
            <4> QED
                BY <1>1, <4>1 DEF Working
        <3>2. CASE j = k
            <4>1. ~GivesUp(k) \/ timedOut' # timedOut \cup {k}
                BY <3>2
            <4>2. CASE Starts(k)
                BY <3>2, <4>2 DEF Starts
            <4>3. CASE GetsResult(k)
                BY <3>2, <4>3 DEF GetsResult, MovedTo, Working, Goroutines
            <4> QED
                BY <2>1, <4>1, <4>2, <4>3
        <3> QED
            BY <3>1, <3>2
    <2>7. \A d \in Conns, s \in 1..MaxCalls : Done(d, s) => Done(d, s)'
        BY <1>2, <2>3, <2>5 DEF Goroutines
    <2>8. Answered'
        BY <1>1, <1>4, <2>1, <2>7
    <2>9. ReplyOrder'
        <3>1. timedOut \subseteq timedOut'
            BY <2>1
        <3> QED
            BY <2>1, <3>1 DEF ReplyOrder
    <2> QED
        BY <1>5, <2>4, <2>6, <2>8, <2>9
<1>9. CASE Tick
    BY <1>9 DEF Tick, callVars, InTurn, ReplyOrder, Begun, Alive, Working
<1>10. CASE UNCHANGED vars
    BY <1>10 DEF vars, callVars, InTurn, ReplyOrder, Begun, Alive, Working
<1> QED
    BY <1>6, <1>7, <1>8, <1>9, <1>10 DEF Next, Goroutines

-----------------------------------------------------------------------------
(* The theorems                                                             *)

Inv == /\ TypeOK /\ Placed
       /\ Escaping /\ PanicContained
       /\ Budget /\ RateBound
       /\ Cleared /\ AuthRequired
       /\ InTurn /\ ReplyOrder

LEMMA InitInv == Init => Inv
<1> SUFFICES ASSUME Init PROVE Inv
    OBVIOUS
<1>1. TypeOK /\ Placed
    BY InitTypes
<1>2. \A k \in Calls, g \in Goroutines : gor[k][g].dir = "none" /\ gor[k][g].res = "ok"
    BY DEF Init, Goroutines
<1>3. Escaping /\ PanicContained
    BY <1>2 DEF Init, Escaping, PanicContained
<1>4. Budget /\ RateBound
    <2>1. Burst * Token \in Nat
        BY DispatchAssumption DEF Token
    <2>2. bucket.tokens = Burst * Token /\ bucket.last = 0 /\ bucket.allowed = <<>> /\ now = 0
        BY DEF Init
    <2>3. DOMAIN bucket.allowed = {}
        BY <2>2
    <2>4. bucket.tokens <= Burst * Token /\ bucket.last <= now
        BY <2>1, <2>2
    <2> QED
        BY <2>3, <2>4 DEF Budget, RateBound
<1>5. Cleared /\ AuthRequired
    BY <1>2 DEF Init, Cleared, AuthRequired, Working
<1>6. InTurn /\ ReplyOrder
    <2>1. \A c \in Conns, r \in 1..MaxCalls : ~Begun(c, r)
        BY <1>2 DEF Begun, Calls, Goroutines
    <2>2. \A k \in Calls, g \in Goroutines : ~Working(k, g)
        BY <1>2 DEF Working
    <2>3. \A c \in Conns : DOMAIN replies[c] = {}
        BY DEF Init
    <2> QED
        BY <2>1, <2>2, <2>3 DEF InTurn, ReplyOrder, Goroutines
<1> QED
    BY <1>1, <1>3, <1>4, <1>5, <1>6 DEF Inv

LEMMA StepInv == Inv /\ [Next]_vars => Inv'
<1> SUFFICES ASSUME Inv, [Next]_vars PROVE Inv'
    OBVIOUS
<1>1. TypeOK' /\ Placed'
    BY StepTypes, StepPlaced DEF Inv
<1>2. Escaping' /\ PanicContained'
    BY StepContained DEF Inv
<1>3. Budget' /\ RateBound'
    <2>1. ASSUME NEW k \in Calls, NEW g \in Goroutines, RateLimit(k, g)
          PROVE  Budget' /\ RateBound'
        BY <2>1, StepBudget DEF Inv
    <2>2. CASE UNCHANGED bucket /\ now' \in {now, now + 1}
        BY <2>2, TimeKeepsBudget DEF Inv
    <2>3. ASSUME NEW k \in Calls, NEW g \in Goroutines, Step(k, g), ~RateLimit(k, g)
          PROVE  UNCHANGED <<bucket, now>>
        BY <2>3
        DEF Step, Enter, Auth, AuthWithCode, AuthWithStorage, Checked, HandlerFails, Register,
            SaveDevice, Location, Heartbeat, Send, Return, End
    <2>4. ASSUME NEW k \in Calls, Wait(k) PROVE UNCHANGED <<bucket, now>>
        BY <2>4 DEF Wait, Timeout, TimeoutResult, TimeoutExpired
    <2>5. ASSUME NEW c \in Conns, NEW r \in 1..MaxCalls, Dispatch(c, r)
          PROVE  UNCHANGED <<bucket, now>>
        BY <2>5 DEF Dispatch
    <2>6. Tick => UNCHANGED bucket /\ now' = now + 1
        BY DEF Tick
    <2>7. UNCHANGED vars => UNCHANGED <<bucket, now>>
        BY DEF vars
    <2> QED
        BY <2>1, <2>2, <2>3, <2>4, <2>5, <2>6, <2>7 DEF Next, Goroutines
<1>4. Cleared' /\ AuthRequired'
    BY StepCleared DEF Inv
<1>5. InTurn' /\ ReplyOrder'
    BY StepInTurn DEF Inv
<1> QED
    BY <1>1, <1>2, <1>3, <1>4, <1>5 DEF Inv

LEMMA Invariance == Spec => []Inv
<1>1. Init => Inv
    BY InitInv
<1>2. Inv /\ [Next]_vars => Inv'
    BY StepInv
<1> QED
    BY <1>1, <1>2, PTL DEF Spec

(* Every variable keeps its type; in particular SaveDevice never saves a    *)
(* device without an identifier.                                            *)
THEOREM TypeCorrectness == Spec => []TypeOK
<1>1. Inv => TypeOK
    BY DEF Inv
<1> QED
    BY <1>1, Invariance, PTL

(* Whatever the chain, a panic ends the process only if every Recovery in   *)
(* it stands outside of a Timeout.                                          *)
THEOREM PanicContainedHolds == Spec => []PanicContained
<1>1. Inv => PanicContained
    BY DEF Inv
<1> QED
    BY <1>1, Invariance, PTL

(* The TCP server's replies come in the order of the messages, but for      *)
(* those of calls Timeout has given up.                                     *)
THEOREM ReplyOrderHolds == Spec => []ReplyOrder
<1>1. Inv => ReplyOrder
    BY DEF Inv
<1> QED
    BY <1>1, Invariance, PTL

(* RateLimit keeps to burst and rate in every span of time, for every rate  *)
(* and burst.                                                               *)
THEOREM RateBoundHolds == Spec => []RateBound
<1>1. Inv => RateBound
    BY DEF Inv
<1> QED
    BY <1>1, Invariance, PTL

(* Behind an authenticating middleware a location message is handled on     *)
(* authenticated connections only.                                          *)
THEOREM AuthRequiredHolds == Spec => []AuthRequired
<1>1. Inv => AuthRequired
    BY DEF Inv
<1> QED
    BY <1>1, Invariance, PTL
=============================================================================
