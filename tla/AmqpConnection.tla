--------------------------- MODULE AmqpConnection ---------------------------
(***************************************************************************)
(* AmqpConnectionManager: the lazy connection and channel that its owner   *)
(* shares among all calls of getChannel.  A call that finds no channel     *)
(* goes through three awaits,                                              *)
(*                                                                         *)
(*   connect --> createChannel --> assertQueue (twice) --> this.channel    *)
(*   "connecting"   "opening"          "declaring"                         *)
(*                                                                         *)
(* and other calls, the close event of a connection, or close() may run    *)
(* between them.  close() has two awaits of its own, channel.close() and   *)
(* connection.close().  A connection carries one channel, so one name, a   *)
(* link, stands for both; it is open while the channel can be written to.  *)
(***************************************************************************)
EXTENDS Integers, FiniteSets, Sequences

CONSTANTS
  Managers,    \* the instances of AmqpConnectionManager
  Callers,     \* the calls of getChannel that may overlap
  MaxLinks     \* connections that are in use, or still leave a trace, at a time

ASSUME AmqpConnectionAssumption == MaxLinks \in Nat \ {0}

Links == 1..MaxLinks
NoLink == 0
Closed == "closed"

VARIABLES
  links,       \* the manager that opened each connection, or Closed
  managers,    \* this.connection and this.channel of each manager
  getting,     \* the calls of getChannel in progress
  closing      \* how far close() of each manager has come

amqpVars == <<links, managers, getting, closing>>

GetSteps == {"none", "connecting", "opening", "declaring"}

AmqpTypeOK ==
  /\ links \in [Links -> Managers \cup {Closed}]
  /\ managers \in [Managers -> [connection : Links \cup {NoLink},
                                channel : Links \cup {NoLink}]]
  /\ getting \in [Callers -> [step : GetSteps, link : Links \cup {NoLink}]]
  /\ closing \in [Managers -> {"no", "channel", "done"}]

Fresh == [connection |-> NoLink, channel |-> NoLink]
NotGetting == [step |-> "none", link |-> NoLink]

AmqpInit ==
  /\ links = [c \in Links |-> Closed]
  /\ managers = [m \in Managers |-> Fresh]
  /\ getting = [g \in Callers |-> NotGetting]
  /\ closing = [m \in Managers |-> "no"]
-----------------------------------------------------------------------------
Open(c) == c # NoLink /\ links[c] # Closed

(* A call that finds no channel starts to connect ... *)
StartGetting(m, g) ==
  /\ managers[m].channel = NoLink
  /\ getting' = [getting EXCEPT ![g] = [NotGetting EXCEPT !.step = "connecting"]]
  /\ UNCHANGED <<links, managers, closing>>

(* ... over a connection c that replaces whatever this.connection held, ... *)
Connect(m, g, c) ==
  /\ getting[g].step = "connecting"
  /\ links' = [links EXCEPT ![c] = m]
  /\ managers' = [managers EXCEPT ![m].connection = c]
  /\ getting' = [getting EXCEPT ![g] = [step |-> "opening", link |-> c]]
  /\ UNCHANGED closing

(* ... shares the new channel before the queues are declared, ... *)
OpenChannel(m, g) ==
  /\ getting[g].step = "opening"
  /\ Open(getting[g].link)
  /\ managers' = [managers EXCEPT ![m].channel = getting[g].link]
  /\ getting' = [getting EXCEPT ![g].step = "declaring"]
  /\ UNCHANGED <<links, closing>>

(* ... and returns what this.channel holds in the end: the second          *)
(* assertQueue and the return read it again.                                *)
Returns(m, g, ch) ==
  /\ getting[g].step = "declaring"
  /\ ch = managers[m].channel
  /\ Open(ch)
Got(g) ==
  /\ getting' = [getting EXCEPT ![g] = NotGetting]
  /\ UNCHANGED <<links, managers, closing>>

(* The broker refuses the connection, it closes during a later await, or    *)
(* this.channel is undefined or closed by then.                             *)
GetFails(m, g) ==
  \/ getting[g].step = "connecting"
  \/ getting[g].step \in {"opening", "declaring"} /\ ~Open(getting[g].link)
  \/ getting[g].step = "declaring" /\ ~Open(managers[m].channel)

(* The listener of the close event, whichever connection it belongs to.     *)
AfterClose_KeepsChannel(m) == [managers EXCEPT ![m].connection = NoLink]
AfterClose(m) == [managers EXCEPT ![m] = Fresh]

Cut(C) == [c \in Links |-> IF c \in C THEN Closed ELSE links[c]]

(* close() of every manager ends its channel first, which it keeps ...      *)
CloseChannels ==
  /\ closing' = [m \in Managers |-> "channel"]
  /\ links' = Cut({managers[m].channel : m \in Managers})
  /\ UNCHANGED <<managers, getting>>

(* ... and then the connection it knows by that time.                       *)
CloseConnection(m) ==
  LET c == managers[m].connection
  IN  /\ closing[m] = "channel"
      /\ closing' = [closing EXCEPT ![m] = "done"]
      /\ links' = Cut({c})
      /\ managers' = IF c = NoLink THEN managers ELSE AfterClose(m)
      /\ UNCHANGED getting
-----------------------------------------------------------------------------
(* No manager that is not closing hands out a channel that is gone,         *)
(* although several calls may connect at once and overwrite each other's    *)
(* channel.                                                                 *)
CachedChannelsAreOpen ==
  \A m \in Managers :
    closing[m] = "no" /\ managers[m].channel # NoLink => Open(managers[m].channel)
=============================================================================
