---------------------------- MODULE Notification ----------------------------
(***************************************************************************)
(* The e-mail about a change of status: OrderStatusListener publishes the  *)
(* event, RabbitMQ keeps it in order.status.changed, RabbitMqConsumer      *)
(* hands it to EmailService, sends it to the end of the queue for another  *)
(* try, or to the dead letters.  Publisher and consumer live in the API    *)
(* process and have an AmqpConnectionManager each.                         *)
(*                                                                         *)
(* RabbitMQ, Node and SMTP are the environment: connections close, frames  *)
(* written to a closing connection are lost, unsettled messages go back to *)
(* the head of the queue, delivery tags count from 1 on each channel, a    *)
(* tag the channel does not know takes the connection down (no listener    *)
(* handles the error of a channel), and a rejection nobody handles ends    *)
(* the process, which is started again.                                    *)
(***************************************************************************)
EXTENDS AmqpConnection, SequencesExt

CONSTANTS
  Events,       \* OrderStatusChangedEvents; each gets a messageId of its own
  Backlog,      \* the queue an earlier process has left, with its retries
  Malformed,    \* messages of other producers that are no such event
  Loops,        \* runs of connectWithRetry that may overlap
  MaxRetries,   \* MAX_RETRIES
  Prefetch,     \* unsettled messages per subscription
  Remembered,   \* REMEMBERED_MESSAGES
  MaxFaults     \* "link": connections cut, frames lost and processes ended;
                \* "tag": connections that a refused delivery tag takes down

ASSUME NotificationAssumption ==
  /\ MaxRetries \in Nat /\ MaxFaults \in [{"link", "tag"} -> Nat]
  /\ Prefetch \in Nat \ {0} /\ Remembered \in Nat \ {0}
  /\ Managers = {"publisher", "consumer"}
  /\ Callers = Events \cup Loops
  /\ Events \cap (Loops \cup Malformed) = {}
  /\ Backlog \in Seq([id : Events \cup Malformed, retries : 0..MaxRetries])
  /\ \E first \in Loops : \A l \in Loops : first <= l

VARIABLES
  broker,         \* queue, dead letters, deliveries of each channel, subscriptions
  outbox,         \* how far publish has come with each event
  loops,          \* the runs of connectWithRetry
  awaited,        \* the channel whose answer each of them awaits
  channel,        \* RabbitMqConsumer.channel
  destroyed,      \* onModuleDestroy has run
  handlers,       \* the calls of handleMessage at an await
  sentMessageIds, \* RecentMessageIds, oldest first
  faults,
  history         \* what happened to each message; read by properties only

ManyMails == 2   \* more e-mails about one message are not counted

processVars == <<outbox, loops, awaited, channel, destroyed, handlers, sentMessageIds>>
vars == <<amqpVars, broker, processVars, faults, history>>
-----------------------------------------------------------------------------
Ids == Events \cup Malformed
Queued == {m.id : m \in Range(Backlog)}
Messages == [id : Ids, retries : 0..MaxRetries]
Deliveries == [message : Messages, settled : BOOLEAN]
Handlers == [link : Links, tag : Nat \ {0}, message : Messages,
             step : {"sending", "backoff"}]

Unsettled(b, c) ==
  {tag \in DOMAIN b.deliveries[c] : ~b.deliveries[c][tag].settled}
UnsettledIds(b, C) ==
  UNION {{b.deliveries[c][tag].message.id : tag \in Unsettled(b, c)} : c \in C}

Usable == Open(channel)
Fault(kind) == faults[kind] < MaxFaults[kind] /\ faults' = [faults EXCEPT ![kind] = @ + 1]

(* The elements of s that are in K: SelectSeq, written as a recursive       *)
(* function, which can be reasoned about.                                   *)
Keep(s, K) ==
  LET kept[i \in 0..Len(s)] ==
        IF i = 0 THEN <<>>
        ELSE IF s[i] \in K THEN Append(kept[i - 1], s[i]) ELSE kept[i - 1]
  IN  kept[Len(s)]

(* RecentMessageIds.add: the newest Remembered ids stay. *)
Newest(ids) == SubSeq(ids, Max({1, Len(ids) - Remembered + 1}), Len(ids))
Remember(ids, id) == Newest(Append(Keep(ids, Range(ids) \ {id}), id))

(* The process ends, for whatever reason, and starts again. *)
ProcessEnds(past) ==
  /\ links' = Cut(Links)
  /\ managers' = [m \in Managers |-> Fresh]
  /\ getting' = [g \in Callers |-> NotGetting]
  /\ closing' = [m \in Managers |-> "no"]
  /\ outbox' = [e \in Events |-> IF outbox[e] = "none" THEN "none" ELSE "done"]
  /\ loops' = [l \in Loops |-> IF l = Min(Loops) THEN "start" ELSE "idle"]
  /\ awaited' = [l \in Loops |-> NoLink]
  /\ channel' = NoLink
  /\ destroyed' = FALSE
  /\ handlers' = {}
  /\ sentMessageIds' = <<>>
  /\ history' = [past EXCEPT !.disturbed = @ \cup UnsettledIds(broker, Links)]

(* Connection c closes.  The consumer forgets its channel and connects      *)
(* anew, even if c was not the connection of that channel.                  *)
Reconnects_Never == UNCHANGED loops
Reconnects ==
  \E l \in Loops :
    /\ loops[l] = "idle"
    /\ \A k \in Loops : loops[k] = "idle" => l <= k
    /\ loops' = [loops EXCEPT ![l] = "start"]
Closes(c) ==
  /\ links' = Cut({c})
  /\ managers' = AfterClose(links[c])
  /\ UNCHANGED <<closing, awaited>>
  /\ IF links[c] = "consumer" /\ ~destroyed
     THEN channel' = NoLink /\ Reconnects
     ELSE UNCHANGED <<channel, loops>>
-----------------------------------------------------------------------------
(* What a frame does at the broker. *)
Frame(kind, tag, message) == [kind |-> kind, tag |-> tag, message |-> message]

Accepts(b, c, f) == f.kind = "publish" \/ f.tag \in Unsettled(b, c)

Settled(b, c, f) == b.deliveries[c][f.tag].message

Marked(deliveries, tags) ==
  [tag \in DOMAIN deliveries |->
     [deliveries[tag] EXCEPT !.settled = @ \/ tag \in tags]]

Arrive(b, c, frames) ==
  LET of(kind) == {f \in Range(frames) : f.kind = kind}
      published == Keep(frames, of("publish"))
      tags == {f.tag : f \in of("ack") \cup of("nack")}
  IN  [b EXCEPT
         !.queue = @ \o [i \in DOMAIN published |-> published[i].message],
         !.dead = @ \cup {Settled(b, c, f) : f \in of("nack")},
         !.deliveries[c] = Marked(@, tags)]

(* Messages settled on behalf of another one. *)
Misdirected(b, c, frames) ==
  {Settled(b, c, f).id :
     f \in {g \in Range(frames) : g.kind # "publish" /\ Settled(b, c, g) # g.message}}

(* The broker gets the frames written to channel c, or c closes in between. *)
Transmit(b, c, frames, past) ==
  \E k \in 0..Len(frames) :
    LET arrived == SubSeq(frames, 1, k)
        after == Arrive(b, c, arrived)
    IN  /\ \A f \in Range(arrived) : Accepts(b, c, f)
        /\ broker' = after
        /\ \/ /\ k = Len(frames)
              /\ UNCHANGED <<links, managers, closing, channel, loops, awaited, faults>>
           \/ /\ k < Len(frames)
              /\ Closes(c)
              /\ IF Accepts(b, c, frames[k + 1]) THEN Fault("link") ELSE Fault("tag")
        /\ history' =
             [past EXCEPT
                !.accepted = @ \cup {f.message.id : f \in {g \in Range(arrived) : g.kind = "publish"}},
                !.misdirected = @ \cup Misdirected(b, c, arrived),
                !.disturbed = @ \cup (IF k < Len(frames) THEN UnsettledIds(after, {c}) ELSE {})]
-----------------------------------------------------------------------------
(* OrderStatusListener and RabbitMqPublisher. *)

Sent(e, ch) ==
  /\ outbox' = [outbox EXCEPT ![e] = "done"]
  /\ Transmit(broker, ch, <<Frame("publish", 0, [id |-> e, retries |-> 0])>>,
              history)
  /\ UNCHANGED <<destroyed, handlers, sentMessageIds>>

PublishUnchanged == UNCHANGED <<broker, loops, awaited, channel, destroyed, handlers,
                                sentMessageIds, faults, history>>

(* The event emitter calls the listener: publish sends on the channel at    *)
(* hand, which throws when close() has ended it, or begins to connect.      *)
HandleOrderStatusChanged(e) ==
  /\ outbox[e] = "none"
  /\ \/ /\ Open(managers["publisher"].channel)
        /\ Sent(e, managers["publisher"].channel)
        /\ UNCHANGED getting
     \/ /\ managers["publisher"].channel # NoLink
        /\ ~Open(managers["publisher"].channel)
        /\ outbox' = [outbox EXCEPT ![e] = "done"]
        /\ UNCHANGED amqpVars
        /\ PublishUnchanged
     \/ /\ StartGetting("publisher", e)
        /\ outbox' = [outbox EXCEPT ![e] = "publishing"]
        /\ PublishUnchanged

Publish(e) ==
  LET ch == managers["publisher"].channel
  IN  /\ outbox[e] = "publishing"
      /\ Returns("publisher", e, ch)
      /\ getting' = [getting EXCEPT ![e] = NotGetting]
      /\ Sent(e, ch)

(* The listener logs the failure and drops the event. *)
PublishFails(e) ==
  /\ outbox[e] = "publishing"
  /\ GetFails("publisher", e)
  /\ Got(e)
  /\ outbox' = [outbox EXCEPT ![e] = "done"]
  /\ PublishUnchanged
-----------------------------------------------------------------------------
(* Steps of getChannel of either manager. *)

Owner(g) == IF g \in Events THEN "publisher" ELSE "consumer"

(* A name is free when nothing remembers the connection that last had it. *)
FreeLinks ==
  {c \in Links : /\ links[c] = Closed
                 /\ broker.deliveries[c] = <<>> /\ broker.subscriptions[c] = 0
                 /\ \A g \in Callers : getting[g].link # c
                 /\ \A m \in Managers : managers[m].channel # c
                 /\ \A l \in Loops : awaited[l] # c
                 /\ \A h \in handlers : h.link # c
                 /\ channel # c}

Connects(g) ==
  /\ \E c \in FreeLinks : /\ \A d \in FreeLinks : c <= d
                          /\ Connect(Owner(g), g, c)
  /\ UNCHANGED <<broker, processVars, faults, history>>

ChannelOpens(g) ==
  /\ OpenChannel(Owner(g), g)
  /\ UNCHANGED <<broker, processVars, faults, history>>
-----------------------------------------------------------------------------
(* connectWithRetry. *)

LoopUnchanged == UNCHANGED <<broker, outbox, destroyed, handlers,
                             sentMessageIds, faults, history>>
Goto(l, step) == loops' = [loops EXCEPT ![l] = step]
Awaits(l, c) == awaited' = [awaited EXCEPT ![l] = c]

LoopStarts(l) ==
  /\ loops[l] = "start"
  /\ \/ /\ destroyed
        /\ Goto(l, "idle")
        /\ UNCHANGED <<amqpVars, awaited, channel>>
     \/ /\ ~destroyed
        /\ managers["consumer"].channel # NoLink
        /\ channel' = managers["consumer"].channel
        /\ Awaits(l, channel')
        /\ Goto(l, "prefetching")
        /\ UNCHANGED amqpVars
     \/ /\ ~destroyed
        /\ StartGetting("consumer", l)
        /\ Goto(l, "getting")
        /\ UNCHANGED <<awaited, channel>>
  /\ LoopUnchanged

LoopGetsChannel(l) ==
  /\ loops[l] = "getting"
  /\ Returns("consumer", l, managers["consumer"].channel)
  /\ Got(l)
  /\ channel' = managers["consumer"].channel
  /\ Awaits(l, channel')
  /\ Goto(l, "prefetching")
  /\ LoopUnchanged

(* prefetch has its answer; consume goes to what is this.channel now. *)
LoopPrefetches(l) ==
  /\ loops[l] = "prefetching"
  /\ Open(awaited[l])
  /\ Usable
  /\ Awaits(l, channel)
  /\ Goto(l, "subscribing")
  /\ UNCHANGED <<amqpVars, channel>>
  /\ LoopUnchanged

LoopSubscribes(l) ==
  /\ loops[l] = "subscribing"
  /\ Open(awaited[l])
  /\ broker' = [broker EXCEPT !.subscriptions[awaited[l]] = @ + 1]
  /\ Awaits(l, NoLink)
  /\ Goto(l, "idle")
  /\ UNCHANGED <<amqpVars, outbox, channel, destroyed, handlers,
                 sentMessageIds, faults, history>>

(* It starts again after RECONNECT_DELAY_MS, so no earlier than at once. *)
LoopFails(l) ==
  /\ \/ loops[l] = "getting" /\ GetFails("consumer", l) /\ Got(l)
     \/ loops[l] = "prefetching" /\ ~Usable /\ UNCHANGED amqpVars
     \/ /\ loops[l] \in {"prefetching", "subscribing"}
        /\ ~Open(awaited[l])
        /\ UNCHANGED amqpVars
  /\ Awaits(l, NoLink)
  /\ Goto(l, "start")
  /\ UNCHANGED channel
  /\ LoopUnchanged
-----------------------------------------------------------------------------
(* handleMessage. *)

Ack(h) == Frame("ack", h.tag, h.message)
Nack(h) == Frame("nack", h.tag, h.message)

(* A handler about to settle its message finds another channel, or none. *)
Settling(h, past) ==
  IF h.link = channel THEN past ELSE [past EXCEPT !.disturbed = @ \cup {h.message.id}]

(* The frames go to the channel the consumer has now, whether or not the    *)
(* message came from it.  Without one requireChannel throws, and nobody     *)
(* awaits handleMessage.                                                    *)
Settle(b, h, frames, ids, past) ==
  \/ /\ Usable
     /\ Transmit(b, channel, frames, Settling(h, past))
     /\ handlers' = handlers \ {h}
     /\ sentMessageIds' = ids
     /\ UNCHANGED <<getting, outbox, destroyed>>
  \/ /\ ~Usable
     /\ broker' = b
     /\ ProcessEnds([past EXCEPT !.disturbed = @ \cup UnsettledIds(b, Links)])
     /\ UNCHANGED faults

(* A delivery on channel c, and handleMessage up to its first await. *)
IsOrderStatusChangedEvent(message) == message.id \notin Malformed

IsDuplicate(message) == message.id \in Range(sentMessageIds)

Deliver(c) ==
  LET message == Head(broker.queue)
      tag == Len(broker.deliveries[c]) + 1
      h == [link |-> c, tag |-> tag, message |-> message, step |-> "sending"]
      b == [broker EXCEPT !.queue = Tail(@),
                          !.deliveries[c] = Append(@, [message |-> message,
                                                       settled |-> FALSE])]
  IN  /\ Open(c)
      /\ broker.queue # <<>>
      /\ Cardinality(Unsettled(broker, c)) < Prefetch * broker.subscriptions[c]
      /\ \/ /\ ~IsOrderStatusChangedEvent(message)
            /\ Settle(b, h, <<Nack(h)>>, sentMessageIds, history)
         \/ /\ IsOrderStatusChangedEvent(message)
            /\ IsDuplicate(message)
            /\ Settle(b, h, <<Ack(h)>>, sentMessageIds, history)
         \/ /\ IsOrderStatusChangedEvent(message)
            /\ ~IsDuplicate(message)
            /\ broker' = b
            /\ handlers' = handlers \cup {h}
            /\ UNCHANGED <<amqpVars, outbox, loops, awaited, channel, destroyed,
                           sentMessageIds, faults, history>>

(* retryOrDeadLetter: wait for RETRY_BACKOFF_MS, then send a copy to the    *)
(* end of the queue and acknowledge the original.                           *)
CanRetry_OnceLess(h) == h.message.retries + 1 < MaxRetries
CanRetry_OnceMore(h) == h.message.retries <= MaxRetries
CanRetry(h) == h.message.retries + 1 <= MaxRetries

RetryCopy(h) == [h.message EXCEPT !.retries = @ + 1]

RetryFrames_AckFirst(h) == <<Ack(h), Frame("publish", 0, RetryCopy(h))>>
RetryFrames_NoAck(h) == <<Frame("publish", 0, RetryCopy(h))>>
RetryFrames(h) == <<Frame("publish", 0, RetryCopy(h)), Ack(h)>>

BacksOff(h, ids, past) ==
  /\ handlers' = (handlers \ {h}) \cup {[h EXCEPT !.step = "backoff"]}
  /\ sentMessageIds' = ids
  /\ history' = past
  /\ UNCHANGED <<amqpVars, broker, outbox, loops, awaited, channel, destroyed, faults>>

BackoffEnds(h) ==
  /\ h.step = "backoff"
  /\ Settle(broker, h, RetryFrames(h), sentMessageIds, history)

(* sendMail resolves.  An acknowledgement that throws counts as a failure. *)
MailSent(h) ==
  LET id == h.message.id
      ids == Remember(sentMessageIds, id)
      past == [Settling(h, history) EXCEPT
                 !.mails[id] = IF @ < ManyMails THEN @ + 1 ELSE @]
  IN  /\ h.step = "sending"
      /\ \/ Usable /\ Settle(broker, h, <<Ack(h)>>, ids, past)
         \/ ~Usable /\ CanRetry(h) /\ BacksOff(h, ids, past)
         \/ ~Usable /\ ~CanRetry(h) /\ Settle(broker, h, <<Nack(h)>>, ids, past)

(* sendMail rejects.  A refused recipient is a PermanentEmailError. *)
SmtpFailures == [code : {"EENVELOPE", "other"}, responseCode : {"none", "4xx", "5xx"},
                 command : {"RCPT TO", "other"}]
IsPermanentSmtpFailure(f) ==
  f.code = "EENVELOPE" \/ (f.responseCode = "5xx" /\ f.command = "RCPT TO")

MailFails(h) ==
  \E permanent \in {IsPermanentSmtpFailure(f) : f \in SmtpFailures} :
    LET early == IF h.message.retries < MaxRetries /\ permanent THEN {h.message.id} ELSE {}
        past == [history EXCEPT !.refused = @ \cup early]
    IN  /\ h.step = "sending"
        /\ IF ~permanent /\ CanRetry(h)
           THEN BacksOff(h, sentMessageIds, past)
           ELSE Settle(broker, h, <<Nack(h)>>, sentMessageIds, past)
-----------------------------------------------------------------------------
(* The environment, and onModuleDestroy. *)

ConnectionDrops(c) ==
  /\ Open(c)
  /\ Fault("link")
  /\ Closes(c)
  /\ history' = [history EXCEPT !.disturbed = @ \cup UnsettledIds(broker, {c})]
  /\ UNCHANGED <<broker, getting, outbox, destroyed, handlers, sentMessageIds>>

(* RabbitMQ notices, and the unsettled messages are first in line again. *)
Requeue(c) ==
  LET back == Keep(broker.deliveries[c], {d \in Range(broker.deliveries[c]) : ~d.settled})
  IN  /\ links[c] = Closed
      /\ broker.deliveries[c] # <<>> \/ broker.subscriptions[c] > 0
      /\ broker' = [broker EXCEPT
                      !.queue = [i \in DOMAIN back |-> back[i].message] \o @,
                      !.deliveries[c] = <<>>,
                      !.subscriptions[c] = 0]
      /\ UNCHANGED <<amqpVars, processVars, faults, history>>

Crash == Fault("link") /\ ProcessEnds(history) /\ UNCHANGED broker

(* onModuleDestroy of both sides calls close() of both managers. *)
ShutdownUnchanged == UNCHANGED <<broker, outbox, loops, awaited, channel, handlers,
                                 sentMessageIds>>
OnModuleDestroy ==
  LET shared == {managers[m].channel : m \in Managers} \ {NoLink}
  IN  /\ ~destroyed
      /\ Fault("link")
      /\ destroyed' = TRUE
      /\ CloseChannels
      /\ history' = [history EXCEPT !.disturbed = @ \cup UnsettledIds(broker, shared)]
      /\ ShutdownUnchanged

OnModuleDestroyContinues(m) ==
  /\ CloseConnection(m)
  /\ history' = [history EXCEPT !.disturbed =
                   @ \cup UnsettledIds(broker, {managers[m].connection} \ {NoLink})]
  /\ UNCHANGED <<destroyed, faults>>
  /\ ShutdownUnchanged

(* The shutdown hooks are done. *)
Exit ==
  /\ destroyed
  /\ \A m \in Managers : closing[m] = "done"
  /\ ProcessEnds(history)
  /\ UNCHANGED <<broker, faults>>
-----------------------------------------------------------------------------
Init ==
  /\ AmqpInit
  /\ broker = [queue |-> Backlog, dead |-> {},
               deliveries |-> [c \in Links |-> <<>>],
               subscriptions |-> [c \in Links |-> 0]]
  /\ history = [accepted |-> Queued, disturbed |-> {}, misdirected |-> {}, refused |-> {},
                mails |-> [i \in Ids |-> 0]]
  /\ outbox = [e \in Events |-> IF e \in Queued THEN "done" ELSE "none"]
  /\ loops = [l \in Loops |-> IF l = Min(Loops) THEN "start" ELSE "idle"]
  /\ awaited = [l \in Loops |-> NoLink]
  /\ channel = NoLink
  /\ destroyed = FALSE
  /\ handlers = {}
  /\ sentMessageIds = <<>>
  /\ faults = [kind \in DOMAIN MaxFaults |-> 0]

PublisherContinues(e) == Publish(e) \/ PublishFails(e)
LoopContinues(l) ==
  LoopStarts(l) \/ LoopGetsChannel(l) \/ LoopPrefetches(l) \/ LoopSubscribes(l)
HandlerContinues ==
  \E h \in handlers :
    MailSent(h) \/ MailFails(h) \/ BackoffEnds(h)

Next ==
  \/ \E e \in Events : HandleOrderStatusChanged(e) \/ PublisherContinues(e)
  \/ \E g \in Callers : Connects(g) \/ ChannelOpens(g)
  \/ \E l \in Loops : LoopContinues(l) \/ LoopFails(l)
  \/ \E c \in Links : Deliver(c) \/ Requeue(c) \/ ConnectionDrops(c)
  \/ HandlerContinues
  \/ Crash
  \/ OnModuleDestroy
  \/ \E m \in Managers : OnModuleDestroyContinues(m)
  \/ Exit

(* Timers fire, promises settle and RabbitMQ delivers; a broker that may    *)
(* refuse connections for a while accepts one in the end.                   *)
Fairness ==
  /\ \A l \in Loops : WF_vars(LoopContinues(l) \/ LoopFails(l))
  /\ \A g \in Callers : SF_vars(Connects(g)) /\ WF_vars(ChannelOpens(g))
  /\ \A c \in Links : WF_vars(Deliver(c)) /\ WF_vars(Requeue(c))
  /\ WF_vars(HandlerContinues)
  /\ \A m \in Managers : WF_vars(OnModuleDestroyContinues(m))
  /\ WF_vars(Exit)

Spec == Init /\ [][Next]_vars /\ Fairness
-----------------------------------------------------------------------------
(* Properties. *)

LoopSteps == {"idle", "start", "getting", "prefetching", "subscribing"}

(* What is in the queue, at the consumer and in memory has its type; no     *)
(* copy of a message carries more than MAX_RETRIES retries.                 *)
NotificationTypeOK ==
  /\ AmqpTypeOK
  /\ broker.queue \in Seq(Messages) /\ broker.dead \subseteq Messages
  /\ broker.deliveries \in [Links -> Seq(Deliveries)]
  /\ broker.subscriptions \in [Links -> Nat]
  /\ outbox \in [Events -> {"none", "publishing", "done"}]
  /\ loops \in [Loops -> LoopSteps]
  /\ awaited \in [Loops -> Links \cup {NoLink}]
  /\ channel \in Links \cup {NoLink}
  /\ destroyed \in BOOLEAN
  /\ handlers \subseteq Handlers
  /\ sentMessageIds \in Seq(Events) /\ Len(sentMessageIds) <= Remembered
  /\ \A kind \in DOMAIN MaxFaults : faults[kind] \in 0..MaxFaults[kind]

(* Where a message is in the queue, and where it is unsettled.              *)
Places(id) ==
  {<<NoLink, i>> : i \in {j \in DOMAIN broker.queue : broker.queue[j].id = id}}
  \cup UNION {{<<c, tag>> : tag \in {u \in Unsettled(broker, c) :
                                      broker.deliveries[c][u].message.id = id}} : c \in Links}
DeadLetters(id) == Cardinality({m \in broker.dead : m.id = id})

(* "Mensagem só recebe ack depois do envio bem-sucedido" (the comment on    *)
(* RabbitMqConsumer): a message that left the queue was e-mailed, is a dead *)
(* letter, or has a copy in the queue.                                      *)
AckedOnlyAfterSend ==
  \A id \in history.accepted :
    Places(id) # {} \/ DeadLetters(id) > 0 \/ history.mails[id] > 0

(* The only way to lose a message is the acknowledgement of another one     *)
(* that reaches the broker on a later channel, where its delivery tag means *)
(* this message.  Crashes, lost frames and reconnections lose nothing.      *)
LostOnlyByMisdirectedAck ==
  \A id \in history.accepted \ history.misdirected :
    Places(id) # {} \/ DeadLetters(id) > 0 \/ history.mails[id] > 0

(* Unless the broker took a message back from a connection that closed, or  *)
(* an acknowledgement went to another channel, a message is in exactly one  *)
(* place: waiting or being tried, once, or e-mailed, once, or among the     *)
(* dead letters.                                                            *)
ExactlyOnceUnlessReturned ==
  \A id \in history.accepted \ (history.disturbed \cup history.misdirected) :
    Cardinality(Places(id)) + DeadLetters(id) + history.mails[id] = 1

(* A message reaches the dead letters for a reason: no one can read it, its *)
(* recipient was refused, every retry failed, or the nack was not meant for *)
(* it.                                                                       *)
DeadLettersJustified ==
  \A m \in broker.dead :
    \/ m.id \in Malformed \cup history.refused \cup history.misdirected
    \/ m.retries = MaxRetries

(* A consumer that was not told to stop is subscribed to the queue on some  *)
(* open connection, or some run of connectWithRetry is still at it.         *)
NeverDeaf ==
  destroyed \/ \E l \in Loops : loops[l] # "idle"
            \/ \E c \in Links : Open(c) /\ broker.subscriptions[c] > 0

(* Once the faults are over every message leaves the queue for good,        *)
(* whatever SMTP answers: nothing is redelivered for ever.  Only a          *)
(* connection the manager has forgotten may keep messages unsettled.        *)
QueueDrains ==
  <>[](/\ broker.queue = <<>>
       /\ \A c \in Links : Unsettled(broker, c) # {} => managers["consumer"].channel # c)
=============================================================================
