------------------------- MODULE NotificationProofs -------------------------
(***************************************************************************)
(* Proofs about Notification, for any events, backlog, loops, limits and   *)
(* number of faults.                                                       *)
(***************************************************************************)
EXTENDS Notification, TLAPS

(* The connection a call of getChannel waits on belongs to the manager it   *)
(* was called on, unless it has closed and no other took its name.          *)
GettingInv ==
  \A g \in Callers :
    /\ getting[g].step \in {"opening", "declaring"} => getting[g].link \in Links
    /\ getting[g].link # NoLink => links[getting[g].link] \in {Owner(g), Closed}

(* A shared channel is on an open connection of the same manager, so the    *)
(* close event that takes the connection also takes the channel; only       *)
(* close() leaves a channel behind that it has closed.                      *)
ChannelInv ==
  \A m \in Managers :
    managers[m].channel # NoLink =>
      /\ links[managers[m].channel] \in {m, Closed}
      /\ closing[m] = "no" => links[managers[m].channel] = m

(* Both managers are closed together.                                       *)
ClosingInv ==
  (\A m \in Managers : closing[m] = "no") \/ (\A m \in Managers : closing[m] # "no")

AmqpInv == AmqpTypeOK /\ GettingInv /\ ChannelInv /\ ClosingInv

(* What any step of the pipeline does to connections and managers.          *)
GetStep ==
  \E g \in Callers :
    \/ StartGetting(Owner(g), g)
    \/ \E c \in FreeLinks : Connect(Owner(g), g, c)
    \/ OpenChannel(Owner(g), g)

Forgets ==
  getting' = getting \/ \E g \in Callers : getting' = [getting EXCEPT ![g] = NotGetting]

CloseStep ==
  /\ \/ UNCHANGED <<links, managers, closing>>
     \/ \E c : /\ links' = Cut({c}) /\ managers' = AfterClose(links[c])
               /\ UNCHANGED closing
     \/ /\ links' = Cut(Links)
        /\ managers' = [m \in Managers |-> Fresh]
        /\ closing' = [m \in Managers |-> "no"]
  /\ \/ UNCHANGED getting
     \/ \E g \in Callers : getting' = [getting EXCEPT ![g] = NotGetting]
     \/ getting' = [g \in Callers |-> NotGetting]

ShutdownStep == CloseChannels \/ \E m \in Managers : CloseConnection(m)
-----------------------------------------------------------------------------
LEMMA OwnerManages == \A g \in Callers : Owner(g) \in Managers
BY NotificationAssumption DEF Owner

LEMMA NoLinkIsNoLink == NoLink \notin Links /\ Closed \notin Managers
BY NotificationAssumption DEF NoLink, Links, Closed

LEMMA InitEstablishes == Init => AmqpInv
BY NoLinkIsNoLink DEF Init, AmqpInit, AmqpInv, AmqpTypeOK, GettingInv, ChannelInv,
   ClosingInv, Fresh, NotGetting, GetSteps

LEMMA GetStepPreserves == AmqpInv /\ GetStep => AmqpInv'
<1> SUFFICES ASSUME AmqpInv, NEW g \in Callers,
                    \/ StartGetting(Owner(g), g)
                    \/ \E c \in FreeLinks : Connect(Owner(g), g, c)
                    \/ OpenChannel(Owner(g), g)
             PROVE  AmqpInv'
  BY DEF GetStep
<1>0. Owner(g) \in Managers /\ ClosingInv'
  BY OwnerManages DEF AmqpInv, ClosingInv, StartGetting, Connect, OpenChannel
<1>1. CASE StartGetting(Owner(g), g)
  BY <1>1, <1>0 DEF StartGetting, AmqpInv, AmqpTypeOK, GettingInv, ChannelInv, NotGetting,
     GetSteps
<1>2. ASSUME NEW c \in FreeLinks, Connect(Owner(g), g, c)
      PROVE  AmqpInv'
  <2>1. /\ c \in Links /\ links[c] = Closed
        /\ \A k \in Callers : getting[k].link # c
        /\ \A m \in Managers : managers[m].channel # c
    BY DEF FreeLinks
  <2>2. AmqpTypeOK'
    BY <1>2, <1>0, <2>1 DEF Connect, AmqpInv, AmqpTypeOK, GetSteps
  <2>3. GettingInv'
    BY <1>2, <1>0, <2>1 DEF Connect, AmqpInv, AmqpTypeOK, GettingInv, GetSteps
  <2>4. ChannelInv'
    BY <1>2, <1>0, <2>1, NoLinkIsNoLink DEF Connect, AmqpInv, AmqpTypeOK, ChannelInv
  <2> QED
    BY <1>0, <2>2, <2>3, <2>4 DEF AmqpInv
<1>3. CASE OpenChannel(Owner(g), g)
  <2>1. getting[g].link \in Links /\ links[getting[g].link] = Owner(g)
    BY <1>3 DEF OpenChannel, Open, AmqpInv, AmqpTypeOK, GettingInv
  <2> QED
    BY <1>0, <1>3, <2>1 DEF OpenChannel, AmqpInv, AmqpTypeOK, GettingInv, ChannelInv, GetSteps
<1> QED
  BY <1>1, <1>2, <1>3

LEMMA CloseStepPreserves == AmqpInv /\ CloseStep => AmqpInv'
<1> SUFFICES ASSUME AmqpInv, CloseStep PROVE AmqpInv'
  OBVIOUS
<1>1. /\ managers' \in [Managers -> [connection : Links \cup {NoLink},
                                     channel : Links \cup {NoLink}]]
      /\ links' \in [Links -> Managers \cup {Closed}]
      /\ closing' \in [Managers -> {"no", "channel", "done"}]
  BY DEF CloseStep, AfterClose, Cut, Fresh, AmqpInv, AmqpTypeOK
<1>2. \A c \in Links : links'[c] \in {links[c], Closed}
  BY DEF CloseStep, Cut, AmqpInv, AmqpTypeOK
<1>3. /\ getting' \in [Callers -> [step : GetSteps, link : Links \cup {NoLink}]]
      /\ \A g \in Callers : getting'[g] \in {getting[g], NotGetting}
  BY DEF CloseStep, AmqpInv, AmqpTypeOK, NotGetting, GetSteps
<1>4. ChannelInv'
  <2> SUFFICES ASSUME NEW m \in Managers, managers'[m].channel # NoLink
               PROVE  /\ links'[managers'[m].channel] \in {m, Closed}
                      /\ closing'[m] = "no" => links'[managers'[m].channel] = m
    BY DEF ChannelInv
  <2>1. managers'[m] = managers[m]
    <3>1. managers'[m] # Fresh
      BY DEF Fresh
    <3>2. managers'[m] = managers[m] \/ managers'[m] = Fresh
      BY DEF CloseStep, AfterClose, AmqpInv, AmqpTypeOK
    <3> QED
      BY <3>1, <3>2
  <2>2. /\ managers[m].channel \in Links
        /\ links[managers[m].channel] \in {m, Closed}
        /\ closing[m] = "no" => links[managers[m].channel] = m
    BY <2>1 DEF AmqpInv, AmqpTypeOK, ChannelInv
  <2>3. CASE UNCHANGED <<links, managers, closing>>
    BY <2>1, <2>2, <2>3
  <2>4. ASSUME NEW c, links' = Cut({c}), managers' = AfterClose(links[c]), UNCHANGED closing
        PROVE  /\ links'[managers'[m].channel] \in {m, Closed}
               /\ closing'[m] = "no" => links'[managers'[m].channel] = m
    <3>1. closing[m] = "no" => managers[m].channel # c
      BY <2>1, <2>2, <2>4 DEF AfterClose, Fresh, AmqpInv, AmqpTypeOK
    <3> QED
      BY <2>1, <2>2, <2>4, <3>1 DEF Cut
  <2>5. managers' # [k \in Managers |-> Fresh]
    BY DEF Fresh
  <2> QED
    BY <2>3, <2>4, <2>5 DEF CloseStep
<1>5. GettingInv'
  BY <1>2, <1>3, NoLinkIsNoLink DEF GettingInv, AmqpInv, AmqpTypeOK, NotGetting
<1>6. ClosingInv'
  BY DEF CloseStep, ClosingInv, AmqpInv
<1> QED
  BY <1>1, <1>3, <1>4, <1>5, <1>6 DEF AmqpInv, AmqpTypeOK

LEMMA ShutdownStepPreserves == AmqpInv /\ ShutdownStep => AmqpInv'
<1> SUFFICES ASSUME AmqpInv, ShutdownStep PROVE AmqpInv'
  OBVIOUS
<1>1. /\ UNCHANGED getting
      /\ \A c \in Links : links'[c] \in {links[c], Closed}
      /\ links' \in [Links -> Managers \cup {Closed}]
  BY DEF ShutdownStep, CloseChannels, CloseConnection, Cut, AmqpInv, AmqpTypeOK
<1>2. /\ managers' \in [Managers -> [connection : Links \cup {NoLink},
                                     channel : Links \cup {NoLink}]]
      /\ \A m \in Managers : managers'[m] \in {managers[m], Fresh}
  <2>1. UNCHANGED managers \/ \E m \in Managers : managers' = [managers EXCEPT ![m] = Fresh]
    BY DEF ShutdownStep, CloseChannels, CloseConnection, AfterClose
  <2>2. Fresh \in [connection : Links \cup {NoLink}, channel : Links \cup {NoLink}]
    BY DEF Fresh
  <2> QED
    BY <2>1, <2>2 DEF AmqpInv, AmqpTypeOK
<1>3. /\ closing' \in [Managers -> {"no", "channel", "done"}]
      /\ \A m \in Managers : closing'[m] # "no"
  <2>1. CASE CloseChannels
    BY <2>1 DEF CloseChannels
  <2>2. ASSUME NEW m \in Managers, CloseConnection(m)
        PROVE  /\ closing' \in [Managers -> {"no", "channel", "done"}]
               /\ \A k \in Managers : closing'[k] # "no"
    BY <2>2 DEF CloseConnection, AmqpInv, AmqpTypeOK, ClosingInv
  <2> QED
    BY <2>1, <2>2 DEF ShutdownStep
<1>4. ChannelInv'
  BY <1>1, <1>2, <1>3 DEF ChannelInv, AmqpInv, AmqpTypeOK, Fresh
<1>5. GettingInv'
  BY <1>1, NoLinkIsNoLink DEF GettingInv, AmqpInv, AmqpTypeOK
<1> QED
  BY <1>1, <1>2, <1>3, <1>4, <1>5 DEF AmqpInv, AmqpTypeOK, ClosingInv
-----------------------------------------------------------------------------
(* Every action is one of these steps. *)
LEMMA ClosesIsCloseStep ==
  ASSUME NEW c, Closes(c), UNCHANGED getting
  PROVE  CloseStep
BY DEF Closes, CloseStep

LEMMA TransmitIsCloseStep ==
  ASSUME NEW b, NEW ch, NEW frames, NEW past, Transmit(b, ch, frames, past),
         \/ UNCHANGED getting
         \/ \E g \in Callers : getting' = [getting EXCEPT ![g] = NotGetting]
  PROVE  CloseStep
<1>1. \/ UNCHANGED <<links, managers, closing>>
      \/ links' = Cut({ch}) /\ managers' = AfterClose(links[ch]) /\ UNCHANGED closing
  BY DEF Transmit, Closes
<1> QED
  BY <1>1 DEF CloseStep

LEMMA ProcessEndsIsCloseStep ==
  ASSUME NEW past, ProcessEnds(past)
  PROVE  CloseStep
BY DEF ProcessEnds, CloseStep

LEMMA SettleIsCloseStep ==
  ASSUME NEW b, NEW h, NEW frames, NEW ids, NEW past, Settle(b, h, frames, ids, past)
  PROVE  CloseStep
BY TransmitIsCloseStep, ProcessEndsIsCloseStep DEF Settle

LEMMA UnchangedIsCloseStep == UNCHANGED amqpVars => CloseStep
BY DEF amqpVars, CloseStep

LEMMA PublisherSteps ==
  ASSUME NEW e \in Events, HandleOrderStatusChanged(e) \/ Publish(e) \/ PublishFails(e)
  PROVE  GetStep \/ CloseStep
<1>0. e \in Callers /\ Owner(e) = "publisher"
  BY NotificationAssumption DEF Owner
<1>1. CASE HandleOrderStatusChanged(e)
  <2>1. CASE StartGetting("publisher", e)
    BY <1>0, <2>1 DEF GetStep
  <2>2. CASE Sent(e, managers["publisher"].channel) /\ UNCHANGED getting
    BY <2>2, TransmitIsCloseStep DEF Sent
  <2>3. CASE UNCHANGED amqpVars
    BY <2>3, UnchangedIsCloseStep
  <2> QED
    BY <1>1, <2>1, <2>2, <2>3 DEF HandleOrderStatusChanged
<1>2. CASE Publish(e)
  BY <1>0, <1>2, TransmitIsCloseStep DEF Publish, Sent
<1>3. CASE PublishFails(e)
  BY <1>0, <1>3 DEF PublishFails, Got, CloseStep
<1> QED
  BY <1>1, <1>2, <1>3

LEMMA ConsumerSteps ==
  ASSUME NEW l \in Loops, LoopContinues(l) \/ LoopFails(l)
  PROVE  GetStep \/ CloseStep
<1>0. l \in Callers /\ Owner(l) = "consumer"
  BY NotificationAssumption DEF Owner
<1>1. CASE LoopStarts(l)
  BY <1>0, <1>1, UnchangedIsCloseStep DEF LoopStarts, GetStep
<1>2. CASE LoopGetsChannel(l)
  BY <1>0, <1>2 DEF LoopGetsChannel, Got, CloseStep
<1>3. CASE LoopPrefetches(l) \/ LoopSubscribes(l)
  BY <1>3, UnchangedIsCloseStep DEF LoopPrefetches, LoopSubscribes
<1>4. CASE LoopFails(l)
  BY <1>0, <1>4, UnchangedIsCloseStep DEF LoopFails, Got, CloseStep
<1> QED
  BY <1>1, <1>2, <1>3, <1>4 DEF LoopContinues

LEMMA HandlerSteps ==
  ASSUME NEW h \in handlers, MailSent(h) \/ MailFails(h) \/ BackoffEnds(h)
  PROVE  CloseStep
<1>1. CASE MailSent(h)
  BY <1>1, SettleIsCloseStep, UnchangedIsCloseStep DEF MailSent, BacksOff
<1>2. CASE MailFails(h)
  BY <1>2, SettleIsCloseStep, UnchangedIsCloseStep DEF MailFails, BacksOff
<1>3. CASE BackoffEnds(h)
  BY <1>3, SettleIsCloseStep DEF BackoffEnds
<1> QED
  BY <1>1, <1>2, <1>3

LEMMA EnvironmentSteps ==
  ASSUME NEW c \in Links, Deliver(c) \/ Requeue(c) \/ ConnectionDrops(c)
  PROVE  CloseStep
<1>1. CASE Deliver(c)
  BY <1>1, SettleIsCloseStep, UnchangedIsCloseStep DEF Deliver
<1>2. CASE Requeue(c)
  BY <1>2, UnchangedIsCloseStep DEF Requeue
<1>3. CASE ConnectionDrops(c)
  BY <1>3, ClosesIsCloseStep DEF ConnectionDrops
<1> QED
  BY <1>1, <1>2, <1>3

LEMMA ProcessSteps ==
  ASSUME Crash \/ Exit
  PROVE  CloseStep
<1>1. CASE Crash
  BY <1>1, ProcessEndsIsCloseStep DEF Crash
<1>2. CASE Exit
  BY <1>2, ProcessEndsIsCloseStep DEF Exit
<1> QED
  BY <1>1, <1>2

LEMMA NextSteps == [Next]_vars => GetStep \/ CloseStep \/ ShutdownStep
<1> SUFFICES ASSUME [Next]_vars PROVE GetStep \/ CloseStep \/ ShutdownStep
  OBVIOUS
<1>1. ASSUME NEW g \in Callers, Connects(g) \/ ChannelOpens(g)
      PROVE  GetStep
  BY <1>1 DEF Connects, ChannelOpens, GetStep
<1>2. CASE UNCHANGED vars
  BY <1>2, UnchangedIsCloseStep DEF vars
<1>3. ASSUME NEW m \in Managers, OnModuleDestroy \/ OnModuleDestroyContinues(m)
      PROVE  ShutdownStep
  BY <1>3 DEF OnModuleDestroy, OnModuleDestroyContinues, ShutdownStep
<1>4. Managers # {}
  BY NotificationAssumption
<1> QED
  BY <1>1, <1>2, <1>3, <1>4, PublisherSteps, ConsumerSteps, HandlerSteps, EnvironmentSteps, ProcessSteps
     DEF Next, PublisherContinues, HandlerContinues
-----------------------------------------------------------------------------
(* CachedChannelsAreOpen: until close(), getChannel never finds a channel   *)
(* that has closed, however many calls connect at once and whenever         *)
(* connections close.                                                       *)
THEOREM ChannelsStayOpen == Spec => []CachedChannelsAreOpen
<1>1. AmqpInv /\ [Next]_vars => AmqpInv'
  BY NextSteps, GetStepPreserves, CloseStepPreserves, ShutdownStepPreserves
<1>2. AmqpInv => CachedChannelsAreOpen
  BY NoLinkIsNoLink DEF AmqpInv, ChannelInv, CachedChannelsAreOpen, Open
<1> QED
  BY <1>1, <1>2, InitEstablishes, PTL DEF Spec
-----------------------------------------------------------------------------
(* Only channels of the consumer have subscriptions, so the close event of  *)
(* the connection that takes the last one starts a loop.                    *)
ConsumerInv ==
  /\ DOMAIN broker = {"queue", "dead", "deliveries", "subscriptions"}
  /\ broker.subscriptions \in [Links -> Nat]
  /\ loops \in [Loops -> LoopSteps]
  /\ awaited \in [Loops -> Links \cup {NoLink}]
  /\ \A l \in Loops : awaited[l] # NoLink => links[awaited[l]] \in {"consumer", Closed}
  /\ (\E m \in Managers : closing[m] # "no") => destroyed
  /\ channel \in Links \cup {NoLink}
  /\ channel # NoLink => links[channel] \in {"consumer", Closed}
  /\ \A c \in Links : broker.subscriptions[c] > 0 => links[c] \in {"consumer", Closed}

DeafInv == AmqpInv /\ ConsumerInv /\ NeverDeaf

(* The kinds of step, by what they do to links, loops and subscriptions.    *)
SameSubscriptions ==
  DOMAIN broker' = DOMAIN broker /\ broker'.subscriptions = broker.subscriptions

QuietStep ==
  SameSubscriptions /\ UNCHANGED <<links, closing, loops, awaited, channel, destroyed>>

ConnectionCloses ==
  SameSubscriptions /\ UNCHANGED destroyed /\ \E c : Closes(c)

Restart ==
  SameSubscriptions /\ \E past : ProcessEnds(past)

LEMMA FirstLoop == Min(Loops) \in Loops
BY NotificationAssumption DEF Min

LEMMA QuietStepKeeps == DeafInv /\ QuietStep => ConsumerInv' /\ NeverDeaf'
BY DEF DeafInv, QuietStep, SameSubscriptions, ConsumerInv, NeverDeaf, Open

LEMMA RestartKeeps == DeafInv /\ Restart => ConsumerInv' /\ NeverDeaf'
<1> SUFFICES ASSUME DeafInv, SameSubscriptions, NEW past, ProcessEnds(past)
             PROVE  ConsumerInv' /\ NeverDeaf'
  BY DEF Restart
<1>1. loops' \in [Loops -> LoopSteps] /\ loops'[Min(Loops)] = "start"
  BY FirstLoop DEF ProcessEnds, LoopSteps
<1>2. \A c \in Links : links'[c] = Closed
  BY DEF ProcessEnds, Cut
<1>3. /\ channel' = NoLink
      /\ awaited' = [l \in Loops |-> NoLink]
      /\ closing' = [m \in Managers |-> "no"]
  BY DEF ProcessEnds
<1> QED
  BY <1>1, <1>2, <1>3, FirstLoop DEF DeafInv, SameSubscriptions, ConsumerInv, NeverDeaf

LEMMA ConnectionClosesKeeps == DeafInv /\ ConnectionCloses => ConsumerInv' /\ NeverDeaf'
<1> SUFFICES ASSUME DeafInv, SameSubscriptions, UNCHANGED destroyed, NEW c, Closes(c)
             PROVE  ConsumerInv' /\ NeverDeaf'
  BY DEF ConnectionCloses
<1>1. /\ \A d \in Links : links'[d] = IF d = c THEN Closed ELSE links[d]
      /\ UNCHANGED <<closing, awaited>>
  BY DEF Closes, Cut
<1>2. CASE links[c] = "consumer" /\ ~destroyed
  <2>1. PICK l \in Loops : loops' = [loops EXCEPT ![l] = "start"]
    BY <1>2 DEF Closes, Reconnects
  <2>2. loops' \in [Loops -> LoopSteps] /\ loops'[l] = "start"
    BY <2>1 DEF DeafInv, ConsumerInv, LoopSteps
  <2>3. channel' = NoLink
    BY <1>2 DEF Closes
  <2> QED
    BY <1>1, <2>2, <2>3 DEF DeafInv, SameSubscriptions, ConsumerInv, NeverDeaf
<1>3. CASE ~(links[c] = "consumer" /\ ~destroyed)
  <2>1. UNCHANGED <<channel, loops>>
    BY <1>3 DEF Closes
  <2>2. ConsumerInv'
    BY <1>1, <2>1 DEF DeafInv, SameSubscriptions, ConsumerInv, NoLink, Links
  <2>3. ASSUME NEW d \in Links, Open(d), broker.subscriptions[d] > 0, ~destroyed
        PROVE  Open(d)'
    <3>1. links[d] = "consumer"
      BY <2>3 DEF Open, DeafInv, ConsumerInv
    <3>2. d # c
      BY <1>3, <2>3, <3>1
    <3> QED
      BY <1>1, <2>3, <3>2 DEF Open
  <2>4. NeverDeaf'
    BY <2>1, <2>3 DEF DeafInv, SameSubscriptions, NeverDeaf
  <2> QED
    BY <2>2, <2>4
<1> QED
  BY <1>2, <1>3
-----------------------------------------------------------------------------
(* Every action is one of these steps, or an action of the loops, the       *)
(* connections or onModuleDestroy.                                          *)
LEMMA ArriveKeepsSubscriptions ==
  ASSUME NEW b, NEW c, NEW frames,
         DOMAIN b = {"queue", "dead", "deliveries", "subscriptions"}
  PROVE  /\ DOMAIN Arrive(b, c, frames) = DOMAIN b
         /\ Arrive(b, c, frames).subscriptions = b.subscriptions
BY DEF Arrive

LEMMA TransmitKinds ==
  ASSUME NEW b, NEW ch, NEW frames, NEW past,
         DOMAIN b = {"queue", "dead", "deliveries", "subscriptions"},
         b.subscriptions = broker.subscriptions, ConsumerInv,
         Transmit(b, ch, frames, past), UNCHANGED destroyed
  PROVE  QuietStep \/ ConnectionCloses
<1>1. \E arrived : broker' = Arrive(b, ch, arrived)
  BY DEF Transmit
<1>2. SameSubscriptions
  BY <1>1, ArriveKeepsSubscriptions DEF SameSubscriptions, ConsumerInv
<1>3. UNCHANGED <<links, closing, channel, loops, awaited>> \/ Closes(ch)
  BY DEF Transmit
<1> QED
  BY <1>2, <1>3 DEF QuietStep, ConnectionCloses

LEMMA SettleKinds ==
  ASSUME NEW b, NEW h, NEW frames, NEW ids, NEW past,
         DOMAIN b = {"queue", "dead", "deliveries", "subscriptions"},
         b.subscriptions = broker.subscriptions, ConsumerInv,
         Settle(b, h, frames, ids, past)
  PROVE  QuietStep \/ ConnectionCloses \/ Restart
<1>1. ASSUME NEW p, ProcessEnds(p), broker' = b
      PROVE  Restart
  BY <1>1 DEF Restart, SameSubscriptions, ConsumerInv
<1>2. ASSUME NEW p, Transmit(b, channel, frames, p), UNCHANGED destroyed
      PROVE  QuietStep \/ ConnectionCloses
  BY <1>2, TransmitKinds
<1> QED
  BY <1>1, <1>2 DEF Settle

LEMMA HandlerKinds ==
  ASSUME ConsumerInv, NEW h \in handlers, MailSent(h) \/ MailFails(h) \/ BackoffEnds(h)
  PROVE  QuietStep \/ ConnectionCloses \/ Restart
<1>0. DOMAIN broker = {"queue", "dead", "deliveries", "subscriptions"}
  BY DEF ConsumerInv
<1>1. ASSUME NEW ids, NEW past, BacksOff(h, ids, past)
      PROVE  QuietStep
  BY <1>1 DEF BacksOff, amqpVars, QuietStep, SameSubscriptions
<1>2. ASSUME NEW frames, NEW ids, NEW past, Settle(broker, h, frames, ids, past)
      PROVE  QuietStep \/ ConnectionCloses \/ Restart
  BY <1>0, <1>2, SettleKinds
<1>3. CASE MailSent(h)
  BY <1>1, <1>2, <1>3 DEF MailSent
<1>4. CASE MailFails(h)
  BY <1>1, <1>2, <1>4 DEF MailFails
<1>5. CASE BackoffEnds(h)
  BY <1>2, <1>5 DEF BackoffEnds
<1> QED
  BY <1>3, <1>4, <1>5

LEMMA DeliverKinds ==
  ASSUME ConsumerInv, NEW c \in Links, Deliver(c)
  PROVE  QuietStep \/ ConnectionCloses \/ Restart
<1> DEFINE message == Head(broker.queue)
           b == [broker EXCEPT !.queue = Tail(@),
                               !.deliveries[c] = Append(@, [message |-> message,
                                                            settled |-> FALSE])]
<1>1. /\ DOMAIN broker = {"queue", "dead", "deliveries", "subscriptions"}
      /\ DOMAIN b = DOMAIN broker /\ b.subscriptions = broker.subscriptions
  BY DEF ConsumerInv
<1>2. \/ \E h, frames : Settle(b, h, frames, sentMessageIds, history)
      \/ broker' = b /\ UNCHANGED <<amqpVars, loops, awaited, channel, destroyed>>
  BY DEF Deliver
<1> HIDE DEF b
<1>3. ASSUME NEW h, NEW frames, Settle(b, h, frames, sentMessageIds, history)
      PROVE  QuietStep \/ ConnectionCloses \/ Restart
  BY <1>1, <1>3, SettleKinds
<1>4. CASE broker' = b /\ UNCHANGED <<amqpVars, loops, awaited, channel, destroyed>>
  BY <1>1, <1>4 DEF QuietStep, SameSubscriptions, amqpVars
<1> QED
  BY <1>2, <1>3, <1>4

LEMMA PublisherKinds ==
  ASSUME ConsumerInv, NEW e \in Events,
         HandleOrderStatusChanged(e) \/ Publish(e) \/ PublishFails(e)
  PROVE  QuietStep \/ ConnectionCloses
<1>1. ASSUME NEW ch, Sent(e, ch)
      PROVE  QuietStep \/ ConnectionCloses
  BY <1>1, TransmitKinds DEF Sent, ConsumerInv
<1>2. CASE HandleOrderStatusChanged(e)
  BY <1>1, <1>2 DEF HandleOrderStatusChanged, StartGetting, PublishUnchanged, amqpVars,
     QuietStep, SameSubscriptions
<1>3. CASE Publish(e)
  BY <1>1, <1>3 DEF Publish
<1>4. CASE PublishFails(e)
  BY <1>4 DEF PublishFails, Got, PublishUnchanged, QuietStep, SameSubscriptions
<1> QED
  BY <1>2, <1>3, <1>4

LEMMA LoopsKeep ==
  ASSUME DeafInv, NEW l \in Loops, LoopContinues(l) \/ LoopFails(l)
  PROVE  ConsumerInv' /\ NeverDeaf'
<1> DEFINE own(c) == c = NoLink \/ (c \in Links /\ links[c] \in {"consumer", Closed})
<1>0. own(managers["consumer"].channel) /\ own(channel)
  BY NotificationAssumption DEF DeafInv, AmqpInv, AmqpTypeOK, ChannelInv, ConsumerInv
<1>1. CASE LoopStarts(l) \/ LoopGetsChannel(l) \/ LoopPrefetches(l) \/ LoopFails(l)
  <2>1. /\ UNCHANGED <<links, closing, destroyed, broker>>
        /\ channel' \in {channel, managers["consumer"].channel}
    BY <1>1 DEF LoopStarts, LoopGetsChannel, LoopPrefetches, LoopFails, LoopUnchanged,
       StartGetting, Got, amqpVars
  <2>2. \E s \in LoopSteps : loops' = [loops EXCEPT ![l] = s] /\ (s = "idle" => destroyed)
    BY <1>1 DEF LoopStarts, LoopGetsChannel, LoopPrefetches, LoopFails, Goto, LoopSteps
  <2>6. \/ UNCHANGED awaited
        \/ \E c \in {NoLink, channel, managers["consumer"].channel} :
             awaited' = [awaited EXCEPT ![l] = c]
    BY <1>1 DEF LoopStarts, LoopGetsChannel, LoopPrefetches, LoopFails, Awaits
  <2>7. /\ awaited' \in [Loops -> Links \cup {NoLink}]
        /\ \A k \in Loops : awaited'[k] # NoLink => links[awaited'[k]] \in {"consumer", Closed}
    BY <1>0, <2>6 DEF DeafInv, ConsumerInv
  <2>3. loops' \in [Loops -> LoopSteps] /\ (destroyed \/ loops'[l] # "idle")
    BY <2>2 DEF DeafInv, ConsumerInv
  <2>4. ConsumerInv'
    BY <1>0, <2>1, <2>3, <2>7 DEF DeafInv, ConsumerInv
  <2>5. NeverDeaf'
    BY <2>1, <2>3 DEF NeverDeaf
  <2> QED
    BY <2>4, <2>5
<1>2. CASE LoopSubscribes(l)
  <2> DEFINE ch == awaited[l]
  <2>1. ch \in Links /\ links[ch] = "consumer"
    BY <1>2 DEF LoopSubscribes, Open, DeafInv, ConsumerInv
  <2>2. /\ DOMAIN broker' = DOMAIN broker
        /\ broker'.subscriptions =
             [broker.subscriptions EXCEPT ![ch] = broker.subscriptions[ch] + 1]
    BY <1>2 DEF LoopSubscribes, DeafInv, ConsumerInv
  <2>3. broker'.subscriptions \in [Links -> Nat] /\ broker'.subscriptions[ch] > 0
    BY <2>1, <2>2 DEF DeafInv, ConsumerInv
  <2>4. \A c \in Links \ {ch} : broker'.subscriptions[c] = broker.subscriptions[c]
    BY <2>1, <2>2 DEF DeafInv, ConsumerInv
  <2>5. /\ UNCHANGED <<links, closing, channel, destroyed>>
        /\ loops' = [loops EXCEPT ![l] = "idle"]
        /\ awaited' = [awaited EXCEPT ![l] = NoLink]
    BY <1>2 DEF LoopSubscribes, Goto, Awaits, amqpVars
  <2>6. loops' \in [Loops -> LoopSteps]
    BY <2>5 DEF DeafInv, ConsumerInv, LoopSteps
  <2>7. ConsumerInv'
    BY <2>1, <2>2, <2>3, <2>4, <2>5, <2>6 DEF DeafInv, ConsumerInv
  <2>8. NeverDeaf'
    BY <1>2, <2>1, <2>3, <2>5 DEF NeverDeaf, Open, LoopSubscribes
  <2> QED
    BY <2>7, <2>8
<1> QED
  BY <1>1, <1>2 DEF LoopContinues

LEMMA ConnectsKeeps ==
  ASSUME DeafInv, NEW g \in Callers, Connects(g)
  PROVE  ConsumerInv' /\ NeverDeaf'
<1>1. PICK c \in FreeLinks : links' = [links EXCEPT ![c] = Owner(g)]
  BY DEF Connects, Connect
<1>2. /\ c \in Links /\ links[c] = Closed /\ broker.subscriptions[c] = 0 /\ channel # c
      /\ \A l \in Loops : awaited[l] # c
  BY <1>1 DEF FreeLinks
<1>3. \A d \in Links \ {c} : links'[d] = links[d]
  BY <1>1 DEF DeafInv, AmqpInv, AmqpTypeOK
<1>4. UNCHANGED <<closing, broker, loops, awaited, channel, destroyed>>
  BY DEF Connects, Connect, processVars
<1> QED
  BY <1>2, <1>3, <1>4 DEF DeafInv, ConsumerInv, NeverDeaf, Open

LEMMA RequeueKeeps ==
  ASSUME DeafInv, NEW c \in Links, Requeue(c)
  PROVE  ConsumerInv' /\ NeverDeaf'
<1>1. /\ DOMAIN broker' = DOMAIN broker
      /\ broker'.subscriptions = [broker.subscriptions EXCEPT ![c] = 0]
  BY DEF Requeue, DeafInv, ConsumerInv
<1>2. /\ broker'.subscriptions \in [Links -> Nat]
      /\ broker'.subscriptions[c] = 0
      /\ \A d \in Links \ {c} : broker'.subscriptions[d] = broker.subscriptions[d]
  BY <1>1 DEF DeafInv, ConsumerInv
<1>3. UNCHANGED <<links, closing, loops, awaited, channel, destroyed>> /\ links[c] = Closed
  BY DEF Requeue, amqpVars, processVars
<1> QED
  BY <1>1, <1>2, <1>3 DEF DeafInv, ConsumerInv, NeverDeaf, Open

LEMMA OnModuleDestroyKeeps ==
  ASSUME DeafInv, OnModuleDestroy \/ \E m \in Managers : OnModuleDestroyContinues(m)
  PROVE  ConsumerInv' /\ NeverDeaf'
<1>1. \A c \in Links : links'[c] \in {links[c], Closed}
  BY DEF OnModuleDestroy, OnModuleDestroyContinues, CloseChannels, CloseConnection, Cut
<1>2. UNCHANGED <<broker, loops, awaited, channel>>
  BY DEF OnModuleDestroy, OnModuleDestroyContinues, ShutdownUnchanged
<1>3. destroyed' = TRUE
  <2>1. ASSUME NEW m \in Managers, OnModuleDestroyContinues(m)
        PROVE  destroyed' = TRUE
    <3>1. closing[m] # "no" /\ UNCHANGED destroyed
      BY <2>1 DEF OnModuleDestroyContinues, CloseConnection
    <3> QED
      BY <3>1 DEF DeafInv, ConsumerInv
  <2> QED
    BY <2>1 DEF OnModuleDestroy
<1> QED
  BY <1>1, <1>2, <1>3 DEF DeafInv, ConsumerInv, NeverDeaf

LEMMA InitNeverDeaf == Init => ConsumerInv /\ NeverDeaf
<1> SUFFICES ASSUME Init PROVE ConsumerInv /\ NeverDeaf
  OBVIOUS
<1>1. loops \in [Loops -> LoopSteps] /\ loops[Min(Loops)] = "start"
  BY FirstLoop DEF Init, LoopSteps
<1> QED
  BY <1>1, FirstLoop DEF Init, AmqpInit, ConsumerInv, NeverDeaf

LEMMA NextKeeps == DeafInv /\ [Next]_vars => ConsumerInv' /\ NeverDeaf'
<1> SUFFICES ASSUME DeafInv, [Next]_vars PROVE ConsumerInv' /\ NeverDeaf'
  OBVIOUS
<1>0. ConsumerInv
  BY DEF DeafInv
<1>1. CASE QuietStep \/ ConnectionCloses \/ Restart
  BY <1>1, QuietStepKeeps, ConnectionClosesKeeps, RestartKeeps
<1>2. ASSUME NEW e \in Events, HandleOrderStatusChanged(e) \/ PublisherContinues(e)
      PROVE  ConsumerInv' /\ NeverDeaf'
  BY <1>0, <1>1, <1>2, PublisherKinds DEF PublisherContinues
<1>3. ASSUME NEW g \in Callers, Connects(g) \/ ChannelOpens(g)
      PROVE  ConsumerInv' /\ NeverDeaf'
  <2>1. CASE Connects(g)
    BY <2>1, ConnectsKeeps
  <2>2. CASE ChannelOpens(g)
    BY <1>1, <2>2 DEF ChannelOpens, OpenChannel, processVars, QuietStep, SameSubscriptions
  <2> QED
    BY <1>3, <2>1, <2>2
<1>4. ASSUME NEW l \in Loops, LoopContinues(l) \/ LoopFails(l)
      PROVE  ConsumerInv' /\ NeverDeaf'
  BY <1>4, LoopsKeep
<1>5. ASSUME NEW c \in Links, Deliver(c) \/ Requeue(c) \/ ConnectionDrops(c)
      PROVE  ConsumerInv' /\ NeverDeaf'
  <2>1. CASE Deliver(c)
    BY <1>0, <1>1, <2>1, DeliverKinds
  <2>2. CASE Requeue(c)
    BY <2>2, RequeueKeeps
  <2>3. CASE ConnectionDrops(c)
    BY <1>1, <2>3 DEF ConnectionDrops, ConnectionCloses, SameSubscriptions
  <2> QED
    BY <1>5, <2>1, <2>2, <2>3
<1>6. CASE HandlerContinues
  BY <1>0, <1>1, <1>6, HandlerKinds DEF HandlerContinues
<1>7. CASE Crash \/ Exit
  BY <1>1, <1>7 DEF Crash, Exit, Restart, SameSubscriptions
<1>8. CASE OnModuleDestroy \/ \E m \in Managers : OnModuleDestroyContinues(m)
  BY <1>8, OnModuleDestroyKeeps
<1>9. CASE UNCHANGED vars
  BY <1>1, <1>9 DEF vars, amqpVars, processVars, QuietStep, SameSubscriptions
<1> QED
  BY <1>2, <1>3, <1>4, <1>5, <1>6, <1>7, <1>8, <1>9 DEF Next

(* NeverDeaf: unless it was told to stop, the consumer is subscribed on an  *)
(* open connection, or a run of connectWithRetry is still at it, whatever   *)
(* closes, crashes or overlaps.                                             *)
THEOREM ConsumerNeverDeaf == Spec => []NeverDeaf
<1>1. Init => DeafInv
  BY InitEstablishes, InitNeverDeaf DEF DeafInv
<1>2. DeafInv /\ [Next]_vars => DeafInv'
  BY NextSteps, GetStepPreserves, CloseStepPreserves, ShutdownStepPreserves, NextKeeps
     DEF DeafInv
<1>3. DeafInv => NeverDeaf
  BY DEF DeafInv
<1> QED
  BY <1>1, <1>2, <1>3, PTL DEF Spec
=============================================================================
