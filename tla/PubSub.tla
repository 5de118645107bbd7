-------------------------------- MODULE PubSub --------------------------------
(***************************************************************************)
(* The publishers and subscribers of publisher/rabbitmq, publisher/kafka   *)
(* and publisher/redis, each with the broker it talks to: one publishing   *)
(* goroutine, one topic (one partition in Kafka) and one subscriber, which *)
(* may lose its connection or crash at any moment and be started again.    *)
(* The brokers are modelled by what their clients rely on: a RabbitMQ      *)
(* queue takes back what was not acknowledged, Kafka keeps a log and the   *)
(* committed offset of the group, Redis hands a message to whoever is      *)
(* subscribed and keeps nothing. The subscriber has a handler. The numbers *)
(* of times the clients try, ten and four, are left out.                   *)
(***************************************************************************)
EXTENDS Naturals, Sequences, FiniteSets

CONSTANTS
    Msgs,
    MaxDrops,    \* bound: lost connections in a behaviour
    MaxSends     \* bound: requests to publish in a behaviour

VARIABLES
    broker,
    calls,       \* messages in the order of the calls that publish them
    inFlight,    \* messages in a goroutine of PublishAsync
    async,       \* messages published by PublishAsync
    retrying,    \* the message of a call of Publish that waits to send it again
    sends,       \* messages in the order of the requests to publish them
    line,        \* RabbitMQ: the queue, Kafka: the log
    out,         \* messages the subscriber's client has received
    held,        \* RabbitMQ: received by a Subscribe that was left, not acknowledged
    sub,         \* where Subscribe is
    consuming,   \* the consumer has not been cancelled by Unsubscribe
    pos, pending, committed,   \* Kafka: offset read, to be committed, committed
    handled,     \* messages in the order in which the handler got them
    interrupted, \* messages received but not settled when the connection was lost
    passedOver,  \* Kafka: messages a reader without committed offset started after
    skipped,     \* Kafka: fetched by a ReadMessage that then returned an error
    reached,     \* RabbitMQ: messages that reached the queue
    stranded,    \* messages that were ever held or skipped
    drops

publishVars == <<calls, inFlight, async, retrying, sends, reached>>
holdVars == <<held, stranded, skipped>>
offsetVars == <<pos, pending, committed, passedOver>>
subVars == <<sub, consuming, handled, interrupted, drops>>
pubsubVars == <<broker, publishVars, line, out, holdVars, offsetVars, subVars>>

Elems(s) == {s[i] : i \in DOMAIN s}

Init ==
    /\ broker \in {"rabbitmq", "kafka", "redis"}
    /\ calls = <<>> /\ inFlight = {} /\ async = {} /\ retrying = {} /\ sends = <<>> /\ reached = {}
    /\ line = <<>> /\ out = <<>> /\ held = <<>> /\ stranded = {} /\ skipped = {}
    /\ sub = "off" /\ consuming = FALSE
    /\ pos = 0 /\ pending = 0 /\ committed = 0 /\ passedOver = {}
    /\ handled = <<>> /\ interrupted = {} /\ drops = 0

-----------------------------------------------------------------------------
(* A request to publish reaches the broker or is lost, with an error or,    *)
(* RabbitMQ's publishes being unconfirmed, without.                         *)

RabbitPublish(m) ==
    /\ broker = "rabbitmq" /\ UNCHANGED out
    /\ \/ line' = Append(line, m) /\ reached' = reached \cup {m}
       \/ UNCHANGED <<line, reached>>
KafkaPublish(m) ==
    /\ broker = "kafka" /\ UNCHANGED <<out, reached>>
    /\ line' \in {line, Append(line, m)}
RedisPublish(m) ==
    /\ broker = "redis" /\ UNCHANGED <<line, reached>>
    /\ out' \in IF consuming THEN {out, Append(out, m)} ELSE {out}

Send(m) ==
    /\ sends' = Append(sends, m)
    /\ RabbitPublish(m) \/ KafkaPublish(m) \/ RedisPublish(m)

(* The clients of Kafka and Redis send a message again when the answer does *)
(* not come, whether or not it had reached the broker.                      *)
NoAnswer == broker # "rabbitmq" /\ Len(sends) + 1 < MaxSends

(* Fault: Publish hands the message to a goroutine and returns.             *)
FaultNotAwaited(m) ==
    /\ m \notin Elems(calls) /\ calls' = Append(calls, m)
    /\ inFlight' = inFlight \cup {m}
    /\ UNCHANGED <<broker, async, retrying, sends, reached, line, out, holdVars, offsetVars, subVars>>

Publish(m) ==
    /\ retrying = {} /\ m \notin Elems(calls) /\ calls' = Append(calls, m)
    /\ Send(m)
    /\ retrying' = {} \/ (NoAnswer /\ retrying' = {m})
    /\ UNCHANGED <<broker, inFlight, async, holdVars, offsetVars, subVars>>

Resend(m) ==
    /\ m \in retrying /\ Send(m)
    /\ retrying' = {} \/ (NoAnswer /\ UNCHANGED retrying)
    /\ UNCHANGED <<broker, calls, inFlight, async, holdVars, offsetVars, subVars>>

(* The context ends while Publish waits to try again.                       *)
GiveUp ==
    /\ retrying # {} /\ retrying' = {}
    /\ UNCHANGED <<broker, calls, inFlight, async, sends, reached, line, out, holdVars, offsetVars, subVars>>

(* PublishAsync of the three packages: the same code. With a context that   *)
(* is done nothing is published.                                            *)
RabbitPublishAsync(m) ==
    /\ retrying = {} /\ m \notin Elems(calls) /\ calls' = Append(calls, m)
    /\ inFlight' \in {inFlight, inFlight \cup {m}} /\ async' = async \cup {m}
    /\ UNCHANGED <<broker, retrying, sends, reached, line, out, holdVars, offsetVars, subVars>>
KafkaPublishAsync(m) == RabbitPublishAsync(m)
RedisPublishAsync(m) == RabbitPublishAsync(m)

PublishAsync(m) ==
    \/ broker = "rabbitmq" /\ RabbitPublishAsync(m)
    \/ broker = "kafka" /\ KafkaPublishAsync(m)
    \/ broker = "redis" /\ RedisPublishAsync(m)

(* The goroutine publishes, perhaps again, or gives up or ends with the     *)
(* program; the error is dropped.                                           *)
AsyncPublish(m) ==
    /\ m \in inFlight
    /\ \/ Send(m) /\ inFlight' = inFlight \ {m}
       \/ Send(m) /\ NoAnswer /\ UNCHANGED inFlight
       \/ UNCHANGED <<sends, reached, line, out>> /\ inFlight' = inFlight \ {m}
    /\ UNCHANGED <<broker, calls, async, retrying, holdVars, offsetVars, subVars>>

-----------------------------------------------------------------------------
(* Subscribing                                                              *)

On == sub' = "wait" /\ consuming' = TRUE /\ UNCHANGED <<handled, interrupted, drops>>

RabbitSubscribe ==
    /\ broker = "rabbitmq" /\ sub = "off" /\ On
    /\ UNCHANGED <<broker, publishVars, holdVars, line, out, offsetVars>>

(* After Unsubscribe the same subscriber may subscribe again, while what    *)
(* the Subscribe before it had received stays unacknowledged.               *)
RabbitResubscribe ==
    /\ broker = "rabbitmq" /\ sub = "left" /\ ~consuming /\ On
    /\ held' = held \o out /\ stranded' = stranded \cup Elems(out)
    /\ out' = <<>>
    /\ UNCHANGED <<broker, publishVars, line, skipped, offsetVars>>

RedisSubscribe ==
    /\ broker = "redis" /\ sub = "off" /\ On
    /\ UNCHANGED <<broker, publishVars, holdVars, line, out, offsetVars>>

(* NewReader with StartOffset LastOffset, which counts as long as the group *)
(* has committed nothing.                                                   *)
KafkaSubscribe ==
    /\ broker = "kafka" /\ sub = "off" /\ On
    /\ pos' = IF committed > 0 THEN committed ELSE Len(line)
    /\ pending' = committed
    /\ passedOver' = IF committed > 0 THEN passedOver ELSE Elems(line)
    /\ UNCHANGED <<broker, publishVars, holdVars, line, out, committed>>

(* Subscribe after its context was cancelled, with the reader still open.   *)
KafkaResume ==
    /\ broker = "kafka" /\ sub = "left" /\ On
    /\ UNCHANGED <<broker, publishVars, holdVars, line, out, offsetVars>>

RabbitDeliver ==
    /\ broker = "rabbitmq" /\ consuming /\ line # <<>>
    /\ out' = Append(out, Head(line)) /\ line' = Tail(line)
    /\ UNCHANGED <<broker, publishVars, holdVars, offsetVars, subVars>>

(* ReadMessage fetches a message and then notes its offset for the next     *)
(* commit ...                                                               *)
KafkaFetch ==
    /\ broker = "kafka" /\ sub = "wait" /\ out = <<>> /\ pos < Len(line)
    /\ sub' = "fetched" /\ out' = <<line[pos + 1]>> /\ pos' = pos + 1
    /\ skipped' = skipped \ {line[pos + 1]}
    /\ UNCHANGED <<broker, publishVars, held, stranded, line, pending, committed, passedOver,
                   consuming, handled, interrupted, drops>>

KafkaNote ==
    /\ sub = "fetched" /\ sub' = "wait" /\ pending' = pos
    /\ UNCHANGED <<broker, publishVars, holdVars, line, out, pos, committed, passedOver,
                   consuming, handled, interrupted, drops>>

(* ... unless the context was cancelled meanwhile: the reader has gone past *)
(* the message, and Subscribe returns without handling it.                  *)
KafkaSkip ==
    /\ sub = "fetched" /\ sub' = "left" /\ out' = <<>>
    /\ skipped' = skipped \cup Elems(out) /\ stranded' = stranded \cup Elems(out)
    /\ UNCHANGED <<broker, publishVars, held, line, offsetVars, consuming, handled, interrupted, drops>>

(* The reader's own goroutine commits every second.                         *)
KafkaCommit ==
    /\ broker = "kafka" /\ sub # "off" /\ committed < pending
    /\ committed' = pending
    /\ UNCHANGED <<broker, publishVars, holdVars, line, out, pos, pending, passedOver, subVars>>

(* The loop of Subscribe: the handler runs; RabbitMQ is then acknowledged.  *)
Handle ==
    /\ sub = "wait" /\ out # <<>>
    /\ handled' = Append(handled, Head(out))
    /\ IF broker = "rabbitmq" THEN sub' = "ack" /\ UNCHANGED out
                              ELSE out' = Tail(out) /\ UNCHANGED sub
    /\ UNCHANGED <<broker, publishVars, holdVars, line, offsetVars, consuming, interrupted, drops>>

(* Fault: the message is rejected, and the broker delivers it again.        *)
FaultNack ==
    /\ sub = "ack" /\ sub' = "wait"
    /\ out' = Tail(out) /\ line' = <<Head(out)>> \o line
    /\ UNCHANGED <<broker, publishVars, holdVars, offsetVars, consuming, handled, interrupted, drops>>

RabbitAck ==
    /\ sub = "ack" /\ sub' = "wait"
    /\ out' = Tail(out)
    /\ UNCHANGED <<broker, publishVars, holdVars, line, offsetVars, consuming, handled, interrupted, drops>>

(* Unsubscribe cancels the consumer; Kafka's closes the reader (Drop).      *)
Unsubscribe ==
    /\ broker # "kafka" /\ consuming /\ consuming' = FALSE
    /\ UNCHANGED <<broker, publishVars, holdVars, line, out, offsetVars, sub, handled, interrupted, drops>>

(* The context is cancelled between two messages and Subscribe returns.     *)
(* What RabbitMQ's client has received stays unacknowledged, what Redis'    *)
(* has received is thrown away.                                             *)
Leave ==
    /\ sub = "wait" /\ (broker = "kafka" => out = <<>>)
    /\ IF broker = "redis" THEN sub' = "off" /\ out' = <<>> /\ consuming' = FALSE
                           ELSE sub' = "left" /\ UNCHANGED <<out, consuming>>
    /\ UNCHANGED <<broker, publishVars, holdVars, line, offsetVars, handled, interrupted, drops>>

Unsettled == Elems(held \o out) \cup ({line[i] : i \in committed+1..pos} \cap Elems(handled))

(* Fault: the consumer asks for automatic acknowledgement, and the broker   *)
(* has nothing to take back.                                                *)
FaultAutoAck ==
    /\ sub # "off" /\ sub' = "off" /\ consuming' = FALSE
    /\ drops < MaxDrops /\ drops' = drops + 1
    /\ interrupted' = interrupted \cup Unsettled
    /\ out' = <<>> /\ held' = <<>>
    /\ UNCHANGED <<broker, publishVars, line, stranded, skipped, offsetVars, handled>>

(* The connection ends: Close, a failed Ack or a crash. RabbitMQ takes back *)
(* what was not acknowledged.                                               *)
Drop ==
    /\ sub # "off" /\ sub' = "off" /\ consuming' = FALSE
    /\ drops < MaxDrops /\ drops' = drops + 1
    /\ interrupted' = interrupted \cup Unsettled
    /\ line' = IF broker = "rabbitmq" THEN held \o out \o line ELSE line
    /\ out' = <<>> /\ held' = <<>>
    /\ UNCHANGED <<broker, publishVars, stranded, skipped, offsetVars, handled>>

-----------------------------------------------------------------------------
SubscriberNext ==
    \/ RabbitSubscribe \/ RabbitResubscribe \/ RedisSubscribe \/ KafkaSubscribe \/ KafkaResume
    \/ RabbitDeliver \/ KafkaFetch \/ KafkaNote \/ KafkaSkip \/ KafkaCommit \/ Handle \/ RabbitAck
    \/ Unsubscribe \/ Leave \/ Drop

Next ==
    \/ \E m \in Msgs : Publish(m) \/ Resend(m) \/ PublishAsync(m) \/ AsyncPublish(m)
    \/ GiveUp
    \/ SubscriberNext

-----------------------------------------------------------------------------
(* Properties                                                               *)

Times(m) == Cardinality({i \in DOMAIN handled : handled[i] = m})
First(m) == CHOOSE i \in DOMAIN handled : handled[i] = m /\ m \notin Elems(SubSeq(handled, 1, i - 1))

(* How often the broker has a message: Kafka's log keeps every copy, the    *)
(* others had at most one for each request.                                 *)
Copies(m) ==
    LET all == IF broker = "kafka" THEN line ELSE sends IN
    Cardinality({i \in DOMAIN all : all[i] = m})

(* What has reached the broker is handled or still there. RabbitMQ's        *)
(* messages always, since they are acknowledged after the handler; Kafka's  *)
(* unless the connection was lost between the commit, which does not wait   *)
(* for the handler, and the handler, the context of Subscribe was cancelled *)
(* between the fetch and the note of the offset and a later one was         *)
(* committed, or the message is older than the first reader.                *)
NothingDropped ==
    /\ reached \subseteq Elems(line \o held \o out \o handled)
    /\ broker = "kafka" =>
        {line[i] : i \in 1..committed}
            \subseteq Elems(handled \o out) \cup interrupted \cup skipped \cup passedOver

(* A message is handled more often than the broker has it only if the       *)
(* connection was lost while it was neither acknowledged (RabbitMQ) nor     *)
(* committed (Kafka). RabbitMQ and Redis have a message once more only if   *)
(* the client sends it again, as those of Kafka and Redis may.              *)
DuplicatesExplained ==
    \A m \in Msgs : Times(m) > Copies(m) => broker # "redis" /\ m \in interrupted

(* Messages published with Publish, one after the other, are first handled  *)
(* in that order, across redeliveries and repeated requests. PublishAsync   *)
(* promises no order, and a subscriber passes over what RabbitMQ delivered  *)
(* to an earlier Subscribe or what Kafka's reader skipped.                  *)
OrderKept ==
    \A i, j \in DOMAIN calls :
        (i < j /\ {calls[i], calls[j]} \subseteq Elems(handled) \ async /\ calls[i] \notin stranded)
            => First(calls[i]) < First(calls[j])
===============================================================================
