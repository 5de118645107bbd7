--------------------------------- MODULE Config ---------------------------------
(***************************************************************************)
(* config/config.go: values under a lock, and watchers that every Set      *)
(* calls in goroutines of their own, which nothing keeps in order. A       *)
(* callback reads the configuration again and then keeps what it read and  *)
(* its argument; a guarded one does both under a lock of its own.          *)
(***************************************************************************)
EXTENDS Naturals, Sequences

CONSTANTS
    Keys,
    Watchers,    \* callbacks, each registered once
    Guarded,     \* those whose runs wait for each other
    Values,      \* records with a type and a value v
    Unset,       \* a value of no type: the key is not set
    MaxSets      \* bound: calls of Set

VARIABLES
    values,      \* by key
    watchers,    \* by key, the callbacks in the order of Watch
    notes,       \* goroutines started by Set that have not read yet
    running,     \* those that have read and not kept it yet
    sets,        \* calls of Set
    latest,      \* by key, the number of the last Set
    told,        \* by watcher, the Sets whose goroutine has ended
    got,         \* by watcher, the argument kept last
    reread,      \* by watcher, the reading kept last
    due,         \* watchers with a Set since their Watch
    raced        \* watchers with two goroutines at once since they had none

Zero == 0
Typed(k, type) == IF values[k].type = type THEN values[k].v ELSE Zero
GetString(k) == Typed(k, "string")
GetInt(k) == Typed(k, "int")
GetBool(k) == Typed(k, "bool")
GetDuration(k) == Typed(k, "duration")
Getters(k) == <<GetString(k), GetInt(k), GetBool(k), GetDuration(k)>>

Init ==
    /\ values = [k \in Keys |-> Unset]
    /\ watchers = [k \in Keys |-> <<>>]
    /\ notes = {} /\ running = {} /\ sets = 0
    /\ latest = [k \in Keys |-> 0] /\ told = [w \in Watchers |-> {}]
    /\ got = [w \in Watchers |-> Unset] /\ reread = [w \in Watchers |-> <<>>]
    /\ due = {} /\ raced = {}

Watching(k) == {watchers[k][i] : i \in DOMAIN watchers[k]}
Waiting == {n.w : n \in notes}
Running == {n.w : n \in running}
Pending == Waiting \cup Running

Watch(k, w) ==
    /\ \A l \in Keys : w \notin Watching(l)
    /\ watchers' = [watchers EXCEPT ![k] = Append(@, w)]
    /\ UNCHANGED <<values, notes, running, sets, latest, told, got, reread, due, raced>>

(* Fault: the loop ends before the last watcher.                            *)
FaultNotLast(k, v) ==
    LET most == {watchers[k][i] : i \in 1..Len(watchers[k]) - 1} IN
    /\ sets < MaxSets /\ sets' = sets + 1
    /\ values' = [values EXCEPT ![k] = v] /\ latest' = [latest EXCEPT ![k] = sets']
    /\ notes' = notes \cup {[w |-> w, k |-> k, v |-> v, n |-> sets'] : w \in most}
    /\ due' = due \cup Watching(k)
    /\ raced' = (raced \ Watching(k)) \cup (Watching(k) \cap Pending)
    /\ UNCHANGED <<watchers, running, told, got, reread>>

Set(k, v) ==
    /\ sets < MaxSets /\ sets' = sets + 1
    /\ values' = [values EXCEPT ![k] = v] /\ latest' = [latest EXCEPT ![k] = sets']
    /\ notes' = notes \cup {[w |-> w, k |-> k, v |-> v, n |-> sets'] : w \in Watching(k)}
    /\ due' = due \cup Watching(k)
    /\ raced' = (raced \ Watching(k)) \cup (Watching(k) \cap Pending)
    /\ UNCHANGED <<watchers, running, told, got, reread>>

(* go watcher(value): the callback reads the configuration again ...        *)
Call(n) ==
    /\ n.w \in Guarded => n.w \notin Running
    /\ notes' = notes \ {n}
    /\ running' = running \cup {[w |-> n.w, k |-> n.k, v |-> n.v, n |-> n.n, read |-> Getters(n.k)]}
    /\ UNCHANGED <<values, watchers, sets, latest, told, got, reread, due, raced>>

(* ... and keeps it.                                                        *)
Keep(n) ==
    /\ running' = running \ {n}
    /\ told' = [told EXCEPT ![n.w] = @ \cup {n.n}]
    /\ got' = [got EXCEPT ![n.w] = n.v]
    /\ reread' = [reread EXCEPT ![n.w] = n.read]
    /\ UNCHANGED <<values, watchers, notes, sets, latest, due, raced>>

Next ==
    \/ \E k \in Keys, w \in Watchers : Watch(k, w)
    \/ \E k \in Keys, v \in Values : Set(k, v)
    \/ \E n \in notes : Call(n)
    \/ \E n \in running : Keep(n)

-----------------------------------------------------------------------------
(* When its goroutines have ended, a watcher was told of the last change,   *)
(* though perhaps before an older one. So what it kept is current only if   *)
(* it ran no two of them at once, or, of what it read again, if they waited *)
(* for each other: two that do not may keep their readings in reverse, and  *)
(* waiting does not put their arguments in order.                           *)
WatchersCurrent ==
    \A k \in Keys : \A w \in (Watching(k) \cap due) \ Pending :
        /\ latest[k] \in told[w]
        /\ w \notin raced \/ w \in Guarded => reread[w] = Getters(k)
        /\ w \notin raced => got[w] = values[k]
================================================================================
