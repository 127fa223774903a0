------------------------ MODULE RabbitMQManagerProofs ------------------------
(***************************************************************************)
(* Safety of the connection manager, for any number of callers, retries    *)
(* and losses.  Connections and channels are only ever appended, so what a *)
(* call or the manager refers to keeps existing.  A connection is strayed  *)
(* from only by assigning over it while it is open; StrayInv says that the *)
(* one call that connects found it closed.                                 *)
(***************************************************************************)
EXTENDS RabbitMQManager, TLAPS

(* No call is on its way while the process starts, except the lifespan's,  *)
(* which connects, nor after the lifespan has ended.                       *)
PhaseInv ==
  /\ call[Lifespan].step # "reopen"
  /\ phase # "starting" => call[Lifespan].step \in { "returned", "raised" }
  /\ phase # "serving" => \A a \in Callers : call[a].step = "idle"

StrayInv ==
  /\ ~ overlapped =>
       \A a, b \in Actors : Connecting(a) /\ Connecting(b) => a = b
  /\ ~ overlapped /\ ~ retried =>
       \A a \in Actors : call[a].step = "connect" => ~ ConnectionAlive

(* Once there is a channel, self.channel is one.                           *)
AssignedInv == Channel # {} => channel # 0

IInv ==
  ManagerTypeOK /\ PhaseInv /\ AssignedInv /\ StrayInv /\ NoStrayConnection

LEMMA InitInv == ManagerInit => IInv
<1> SUFFICES ASSUME ManagerInit PROVE IInv
  OBVIOUS
<1> USE ManagerAssumption
<1>1. ManagerTypeOK
  <2>1. call \in [Actors -> CallState]
    BY DEF ManagerInit, CallState, ConnectAttempt, Idle, At
  <2>2. \A a \in Actors : CallRefersTo(a)
    BY DEF ManagerInit, CallRefersTo, Connecting, ConnectAttempt, Idle, At
  <2>3. /\ connections \in Seq(BOOLEAN)
        /\ channels \in Seq([on : Connection, open : BOOLEAN])
        /\ 0 \in 0..MaxLosses
    BY DEF ManagerInit
  <2> QED
    BY <2>1, <2>2, <2>3 DEF ManagerInit, ManagerTypeOK
<1>2. PhaseInv
  BY DEF ManagerInit, PhaseInv, Idle, ConnectAttempt, At, Actors
<1>3. StrayInv
  BY DEF ManagerInit, StrayInv, Connecting, ConnectAttempt, Idle, At, Actors,
         ConnectionAlive
<1>4. NoStrayConnection
  BY DEF ManagerInit, NoStrayConnection, Connection
<1>5. AssignedInv
  BY DEF ManagerInit, AssignedInv, Channel
<1> QED
  BY <1>1, <1>2, <1>3, <1>4, <1>5 DEF IInv

(* One call moves, the others stay.                                        *)
LEMMA OneCallMoves ==
  ASSUME call \in [Actors -> CallState], NEW a \in Actors,
         NEW state \in CallState, To(a, state)
  PROVE  /\ call' \in [Actors -> CallState]
         /\ call'[a] = state
         /\ \A b \in Actors \ {a} : call'[b] = call[b]
  BY DEF To

(* Connections and channels are not forgotten.                             *)
LEMMA StillRefersTo ==
  ASSUME NEW a \in Actors, CallRefersTo(a), call'[a] = call[a],
         Connection \subseteq Connection', Channel \subseteq Channel'
  PROVE  CallRefersTo(a)'
  BY DEF CallRefersTo, Connecting

LEMMA ClosesWithChannels ==
  ASSUME ManagerTypeOK, NEW x \in Connection, ConnectionCloses(x)
  PROVE  /\ connections' \in Seq(BOOLEAN)
         /\ channels' \in Seq([on : Connection', open : BOOLEAN])
         /\ Connection' = Connection /\ Channel' = Channel
         /\ ~ connections'[x]
         /\ \A y \in Connection \ {x} : connections'[y] = connections[y]
<1>1. /\ connections' \in Seq(BOOLEAN) /\ Connection' = Connection
      /\ ~ connections'[x]
      /\ \A y \in Connection \ {x} : connections'[y] = connections[y]
  BY DEF ManagerTypeOK, ConnectionCloses, Connection
<1>2. channels' \in Seq([on : Connection, open : BOOLEAN]) /\ Channel' = Channel
  <2> DEFINE S == [on : Connection, open : BOOLEAN]
  <2>1. Len(channels) \in Nat /\ Channel = 1..Len(channels)
    BY DEF ManagerTypeOK, Channel
  <2>2. channels' \in [1..Len(channels) -> S]
    <3>1. \A ch \in Channel : channels[ch].on \in Connection
                                /\ channels[ch].open \in BOOLEAN
      <4>1. channels \in Seq(S)
        BY DEF ManagerTypeOK
      <4>2. \A ch \in Channel : channels[ch] \in S
        <5> HIDE DEF S
        <5> QED
          BY <2>1, <4>1
      <4> QED
        BY <4>2
    <3> QED
      BY <2>1, <3>1 DEF ConnectionCloses
  <2>3. channels' \in Seq(S) /\ DOMAIN channels' = 1..Len(channels)
    <3> HIDE DEF S
    <3> QED
      BY <2>1, <2>2
  <2> QED
    BY <2>1, <2>3 DEF Channel
<1> QED
  BY <1>1, <1>2

LEMMA ChannelOpens ==
  ASSUME ManagerTypeOK, NEW x \in Connection, OpenChannelOn(x)
  PROVE  /\ channels' \in Seq([on : Connection', open : BOOLEAN])
         /\ Channel \subseteq Channel' /\ channel' \in Channel'
         /\ Connection' = Connection /\ channels'[channel'].open
  BY DEF ManagerTypeOK, OpenChannelOn, Channel, Connection

(*------------------------------- get_channel ---------------------------*)

LEMMA GetChannelInv ==
  ASSUME IInv, NEW a \in Callers, GetChannel(a)
  PROVE  IInv'
<1> USE ManagerAssumption DEF IInv
<1>1. a \in Actors /\ a # Lifespan /\ phase = "serving" /\ call[a].step = "idle"
  BY DEF GetChannel, Actors
<1>2. /\ phase' = phase /\ UNCHANGED << server, manager, losses, retried >>
      /\ Connection' = Connection /\ Channel' = Channel
      /\ ConnectionAlive' = ConnectionAlive
  BY <1>1 DEF GetChannel, Return, Finish, Connection, Channel, ConnectionAlive,
              server, manager
<1>3. PICK state \in CallState :
        /\ To(a, state)
        /\ \/ ChannelAlive /\ state = At("returned", 0, channel)
                /\ UNCHANGED overlapped
           \/ ConnectionAlive /\ state = At("reopen", 0, connection)
                /\ UNCHANGED overlapped
           \/ ~ ConnectionAlive /\ state = ConnectAttempt(1)
                /\ overlapped' = (overlapped
                                    \/ \E b \in Actors \ {a} : Connecting(b))
  <2>1. channel \in Nat /\ connection \in Nat /\ 1 \in 0..MaxRetries
    BY DEF ManagerTypeOK, Channel, Connection
  <2>2. /\ At("returned", 0, channel) \in CallState
        /\ At("reopen", 0, connection) \in CallState
        /\ ConnectAttempt(1) \in CallState
    BY <2>1 DEF CallState, At, ConnectAttempt
  <2> QED
    BY <1>1, <2>2 DEF GetChannel, Return, Finish
<1>4. /\ call' \in [Actors -> CallState] /\ call'[a] = state
      /\ \A b \in Actors \ {a} : call'[b] = call[b]
  BY <1>1, <1>3, OneCallMoves DEF ManagerTypeOK
<1>5. ManagerTypeOK'
  <2>1. CallRefersTo(a)'
    BY <1>2, <1>3, <1>4 DEF CallRefersTo, Connecting, At, ConnectAttempt,
       ManagerTypeOK, ChannelAlive, ConnectionAlive
  <2>2. \A b \in Actors : CallRefersTo(b)'
    BY <1>2, <1>4, <2>1, StillRefersTo DEF ManagerTypeOK
  <2>3. overlapped' \in BOOLEAN
    BY <1>3 DEF ManagerTypeOK
  <2> QED
    BY <1>2, <1>4, <2>2, <2>3 DEF ManagerTypeOK, server, manager
<1>6. PhaseInv'
  BY <1>1, <1>2, <1>4 DEF PhaseInv, Actors
<1>7. StrayInv'
  <2>1. Connecting(a)' <=> state = ConnectAttempt(1)
    BY <1>3, <1>4 DEF Connecting, At, ConnectAttempt
  <2>2. \A b \in Actors \ {a} : Connecting(b)' = Connecting(b)
    BY <1>4 DEF Connecting
  <2>3. state = ConnectAttempt(1) =>
          /\ ~ ConnectionAlive
          /\ ~ overlapped' => \A b \in Actors \ {a} : ~ Connecting(b)
    <3>1. state = ConnectAttempt(1) =>
            state # At("returned", 0, channel) /\ state # At("reopen", 0, connection)
      BY DEF At, ConnectAttempt
    <3> QED
      BY <1>3, <3>1, Zenon
  <2>4. overlapped => overlapped'
    BY <1>3 DEF ManagerTypeOK
  <2>5. call'[a].step = "connect" => state = ConnectAttempt(1)
    BY <1>3, <1>4 DEF At, ConnectAttempt
  <2>6. ~ overlapped' =>
          \A b, c \in Actors : Connecting(b)' /\ Connecting(c)' => b = c
    BY <2>1, <2>2, <2>3, <2>4 DEF StrayInv
  <2>7. ~ overlapped' /\ ~ retried' =>
          \A b \in Actors : call'[b].step = "connect" => ~ ConnectionAlive'
    BY <1>2, <1>4, <2>3, <2>4, <2>5 DEF StrayInv
  <2> QED
    BY <2>6, <2>7 DEF StrayInv
<1>8. NoStrayConnection'
  BY <1>2, <1>3 DEF NoStrayConnection, server, manager, ManagerTypeOK
<1>9. AssignedInv'
  BY <1>2 DEF AssignedInv, manager
<1> QED
  BY <1>5, <1>6, <1>7, <1>8, <1>9

LEMMA ReopenedInv ==
  ASSUME IInv, NEW a \in Actors, Reopened(a) \/ ReopenFails(a)
  PROVE  IInv'
<1> USE ManagerAssumption DEF IInv
<1>1. /\ call[a].step = "reopen" /\ call[a].of \in Connection
      /\ a \in Callers /\ phase = "serving"
  <2>1. call[a].step = "reopen"
    BY DEF Reopened, ReopenFails
  <2>2. call[a].of \in Connection
    BY <2>1 DEF ManagerTypeOK, CallRefersTo
  <2> QED
    BY <2>1, <2>2 DEF PhaseInv, Actors
<1>2. /\ phase' = phase /\ UNCHANGED << connections, connection, losses, history >>
      /\ Connection' = Connection /\ ConnectionAlive' = ConnectionAlive
      /\ Channel \subseteq Channel' /\ channel' \in Channel' \cup {0}
      /\ channels' \in Seq([on : Connection', open : BOOLEAN])
      /\ AssignedInv'
  <2>1. phase' = phase /\ UNCHANGED << connections, connection, losses, history >>
    BY <1>1 DEF Reopened, ReopenFails, Return, Raise, Finish, OpenChannelOn,
                server, manager, ManagerAssumption
  <2>2. CASE Reopened(a)
    BY <1>1, <2>1, <2>2, ChannelOpens DEF Reopened, ConnectionAlive,
       AssignedInv, ManagerTypeOK, Channel
  <2>3. CASE ReopenFails(a)
    BY <2>1, <2>3 DEF ReopenFails, server, manager, ManagerTypeOK, Connection,
                      Channel, ConnectionAlive, AssignedInv
  <2> QED
    BY <2>1, <2>2, <2>3
<1>3. PICK state \in CallState :
        /\ To(a, state)
        /\ \/ state.step = "returned" /\ state.of \in Channel'
           \/ state.step = "raised"
  <2>1. CASE Reopened(a)
    <3>1. channel' \in Channel' /\ channel' \in Nat
      BY <1>1, <2>1, ChannelOpens DEF Reopened, ManagerTypeOK, Channel
    <3> QED
      BY <2>1, <3>1 DEF Reopened, Return, Finish, At, CallState
  <2>2. CASE ReopenFails(a)
    BY <2>2 DEF ReopenFails, Raise, Finish, At, CallState
  <2> QED
    BY <2>1, <2>2
<1>4. /\ call' \in [Actors -> CallState] /\ call'[a] = state
      /\ \A b \in Actors \ {a} : call'[b] = call[b]
  BY <1>3, OneCallMoves DEF ManagerTypeOK
<1>5. ManagerTypeOK'
  <2>1. CallRefersTo(a)'
    BY <1>3, <1>4 DEF CallRefersTo, Connecting
  <2>2. \A b \in Actors : CallRefersTo(b)'
    BY <1>2, <1>4, <2>1, StillRefersTo DEF ManagerTypeOK
  <2> QED
    BY <1>2, <1>4, <2>2 DEF ManagerTypeOK, history, Connection
<1>6. PhaseInv'
  BY <1>1, <1>2, <1>4 DEF PhaseInv, Actors
<1>7. StrayInv'
  <2>1. /\ ~ Connecting(a)' /\ call'[a].step # "connect"
        /\ \A b \in Actors \ {a} : Connecting(b)' = Connecting(b)
    BY <1>3, <1>4 DEF Connecting
  <2> QED
    BY <1>2, <1>4, <2>1 DEF StrayInv, history
<1>8. NoStrayConnection'
  BY <1>2 DEF NoStrayConnection, history
<1> QED
  BY <1>2, <1>5, <1>6, <1>7, <1>8

(*--------------------------------- connect -----------------------------*)

LEMMA ConnectedInv ==
  ASSUME IInv, NEW a \in Actors, Connected(a)
  PROVE  IInv'
<1> USE ManagerAssumption DEF IInv
<1>1. /\ call[a].step = "connect" /\ Connecting(a)
      /\ call[a].attempt \in 1..MaxRetries
  BY DEF Connected, ManagerTypeOK, CallRefersTo, Connecting, CallState
<1>2. /\ UNCHANGED << phase, channels, channel, losses, history >>
      /\ connections' = Append(connections, TRUE)
      /\ connections' \in Seq(BOOLEAN)
      /\ connection' \in Connection' /\ connection' \notin Connection
      /\ Connection' = Connection \cup {connection'}
      /\ \A x \in Connection : connections'[x] = connections[x]
  <2>1. /\ UNCHANGED << phase, channels, channel, losses, history >>
        /\ connections' = Append(connections, TRUE)
        /\ connection' = Len(connections) + 1
    BY DEF Connected
  <2>2. connections \in Seq(BOOLEAN) /\ Len(connections) \in Nat
        /\ Connection = 1..Len(connections)
    BY DEF ManagerTypeOK, Connection
  <2>3. connections' \in Seq(BOOLEAN) /\ Len(connections') = Len(connections) + 1
        /\ \A x \in 1..Len(connections) : connections'[x] = connections[x]
    BY <2>1, <2>2
  <2>4. Connection' = 1..(Len(connections) + 1)
    BY <2>3 DEF Connection
  <2> QED
    BY <2>1, <2>2, <2>3, <2>4
<1>3. channels' \in Seq([on : Connection', open : BOOLEAN]) /\ Channel' = Channel
  <2> DEFINE S == [on : Connection, open : BOOLEAN]
             T == [on : Connection', open : BOOLEAN]
  <2>1. S \subseteq T
    BY <1>2
  <2>2. channels \in Seq(S) /\ channels' = channels
    BY <1>2 DEF ManagerTypeOK
  <2>3. channels' \in Seq(T)
    <3> HIDE DEF S, T
    <3> QED
      BY <2>1, <2>2
  <2> QED
    BY <2>2, <2>3 DEF Channel
<1>4. /\ At("channel", call[a].attempt, connection') \in CallState
      /\ To(a, At("channel", call[a].attempt, connection'))
  BY <1>1, <1>2 DEF Connected, At, CallState, Connection
<1>5. /\ call' \in [Actors -> CallState]
      /\ call'[a] = At("channel", call[a].attempt, connection')
      /\ \A b \in Actors \ {a} : call'[b] = call[b]
  BY <1>4, OneCallMoves DEF ManagerTypeOK
<1>6. ManagerTypeOK'
  <2>1. CallRefersTo(a)'
    BY <1>1, <1>2, <1>5 DEF CallRefersTo, Connecting, At
  <2>2. \A b \in Actors : CallRefersTo(b)'
    BY <1>2, <1>3, <1>5, <2>1, StillRefersTo DEF ManagerTypeOK
  <2> QED
    BY <1>2, <1>3, <1>5, <2>2 DEF ManagerTypeOK, history
<1>7. PhaseInv'
  <2>1. phase = "serving" \/ (phase = "starting" /\ a = Lifespan)
    BY <1>1 DEF PhaseInv, Actors, ManagerTypeOK
  <2> QED
    BY SMTT(30), <1>1, <1>2, <1>5, <2>1 DEF PhaseInv, Actors, At
<1>8. StrayInv'
  <2>1. /\ Connecting(a)' /\ call'[a].step # "connect"
        /\ \A b \in Actors \ {a} : Connecting(b)' = Connecting(b)
    BY <1>5 DEF Connecting, At
  <2>2. ~ overlapped' => \A b \in Actors \ {a} : call'[b].step # "connect"
    BY <1>1, <1>2, <1>5 DEF StrayInv, Connecting, history
  <2> QED
    BY <1>1, <1>2, <2>1, <2>2 DEF StrayInv, history
<1>9. NoStrayConnection'
  <2>1. phase # "closed"
    BY <1>1 DEF PhaseInv, Actors
  <2>2. ~ retried /\ ~ overlapped => \A x \in Connection : ~ connections[x]
    BY <1>1 DEF StrayInv, NoStrayConnection, ConnectionAlive, Connection, ManagerTypeOK
  <2> QED
    BY <1>2, <2>1, <2>2 DEF NoStrayConnection, history
<1>10. AssignedInv'
  BY <1>2, <1>3 DEF AssignedInv
<1> QED
  BY <1>6, <1>7, <1>8, <1>9, <1>10

LEMMA ChannelOpenedInv ==
  ASSUME IInv, NEW a \in Actors, ChannelOpened(a)
  PROVE  IInv'
<1> USE ManagerAssumption DEF IInv
<1>1. /\ call[a].step = "channel" /\ Connecting(a)
      /\ call[a].attempt \in 1..MaxRetries /\ call[a].of \in Connection
  BY DEF ChannelOpened, ManagerTypeOK, CallRefersTo, Connecting, CallState
<1>2. /\ UNCHANGED << phase, connections, connection, losses, history >>
      /\ Connection' = Connection /\ ConnectionAlive' = ConnectionAlive
  BY DEF ChannelOpened, OpenChannelOn, Connection, ConnectionAlive
<1>3. /\ channels' \in Seq([on : Connection', open : BOOLEAN])
      /\ Channel \subseteq Channel' /\ channel' \in Channel'
  BY <1>1, ChannelOpens DEF ChannelOpened
<1>4. /\ At("declare", call[a].attempt, channel') \in CallState
      /\ To(a, At("declare", call[a].attempt, channel'))
  <2>1. channel' \in Nat
    BY <1>3 DEF Channel
  <2> QED
    BY <1>1, <2>1 DEF ChannelOpened, At, CallState
<1>5. /\ call' \in [Actors -> CallState]
      /\ call'[a] = At("declare", call[a].attempt, channel')
      /\ \A b \in Actors \ {a} : call'[b] = call[b]
  BY <1>4, OneCallMoves DEF ManagerTypeOK
<1>6. ManagerTypeOK'
  <2>1. CallRefersTo(a)'
    BY <1>1, <1>3, <1>5 DEF CallRefersTo, Connecting, At
  <2>2. \A b \in Actors : CallRefersTo(b)'
    BY <1>2, <1>3, <1>5, <2>1, StillRefersTo DEF ManagerTypeOK
  <2> QED
    BY <1>2, <1>3, <1>5, <2>2 DEF ManagerTypeOK, history, Connection
<1>7. PhaseInv'
  <2>1. phase = "serving" \/ (phase = "starting" /\ a = Lifespan)
    BY <1>1 DEF PhaseInv, Actors, ManagerTypeOK
  <2> QED
    BY <1>1, <1>2, <1>5, <2>1 DEF PhaseInv, Actors, At
<1>8. StrayInv'
  <2>1. /\ Connecting(a)' /\ call'[a].step # "connect"
        /\ \A b \in Actors \ {a} : Connecting(b)' = Connecting(b)
    BY <1>5 DEF Connecting, At
  <2> QED
    BY <1>1, <1>2, <1>5, <2>1 DEF StrayInv, history
<1>9. NoStrayConnection'
  BY <1>2 DEF NoStrayConnection, history
<1>10. AssignedInv'
  <2>1. 0 \notin Channel'
    BY <1>3 DEF Channel
  <2> QED
    BY <1>3, <2>1 DEF AssignedInv
<1> QED
  BY <1>6, <1>7, <1>8, <1>9, <1>10

LEMMA QueueDeclaredInv ==
  ASSUME IInv, NEW a \in Actors, QueueDeclared(a)
  PROVE  IInv'
<1> USE ManagerAssumption DEF IInv
<1>1. call[a].step = "declare" /\ Connecting(a) /\ call[a].of \in Channel
  BY DEF QueueDeclared, ManagerTypeOK, CallRefersTo, Connecting
<1>2. /\ UNCHANGED << connections, channels, connection, channel, losses, history >>
      /\ Connection' = Connection /\ Channel' = Channel
      /\ ConnectionAlive' = ConnectionAlive
  BY DEF QueueDeclared, server, manager, Connection, Channel, ConnectionAlive
<1>3. channel \in Channel /\ channel \in Nat
  BY <1>1 DEF ManagerTypeOK, AssignedInv, Channel
<1>4. At("returned", 0, channel) \in CallState /\ To(a, At("returned", 0, channel))
  BY <1>3 DEF QueueDeclared, Return, Finish, At, CallState
<1>5. /\ call' \in [Actors -> CallState]
      /\ call'[a] = At("returned", 0, channel)
      /\ \A b \in Actors \ {a} : call'[b] = call[b]
  BY <1>4, OneCallMoves DEF ManagerTypeOK
<1>6. phase' = IF a = Lifespan THEN "serving" ELSE phase
  BY DEF QueueDeclared, Return, Finish
<1>7. ManagerTypeOK'
  <2>1. CallRefersTo(a)'
    BY <1>2, <1>3, <1>5 DEF CallRefersTo, Connecting, At
  <2>2. \A b \in Actors : CallRefersTo(b)'
    BY <1>2, <1>5, <2>1, StillRefersTo DEF ManagerTypeOK
  <2> QED
    BY <1>2, <1>5, <1>6, <2>2 DEF ManagerTypeOK, history
<1>8. PhaseInv'
  <2>1. phase = "serving" \/ (phase = "starting" /\ a = Lifespan)
    BY <1>1 DEF PhaseInv, Actors, ManagerTypeOK
  <2> QED
    BY <1>1, <1>5, <1>6, <2>1 DEF PhaseInv, Actors, At
<1>9. StrayInv'
  <2>1. /\ ~ Connecting(a)' /\ call'[a].step # "connect"
        /\ \A b \in Actors \ {a} : Connecting(b)' = Connecting(b)
    BY <1>5 DEF Connecting, At
  <2> QED
    BY <1>2, <1>5, <2>1 DEF StrayInv, history
<1>10. NoStrayConnection'
  <2>1. phase' # "closed"
    BY <1>1, <1>6 DEF PhaseInv, Actors
  <2> QED
    BY <1>2, <2>1 DEF NoStrayConnection, history
<1>11. AssignedInv'
  BY <1>2 DEF AssignedInv
<1> QED
  BY <1>7, <1>8, <1>9, <1>10, <1>11

(* A second attempt over a connection that is open is what `retried' says. *)
LEMMA AttemptFailsInv ==
  ASSUME IInv, NEW a \in Actors, AttemptFails(a)
  PROVE  IInv'
<1> USE ManagerAssumption DEF IInv
<1>1. Connecting(a) /\ call[a].attempt \in 1..MaxRetries
  BY DEF AttemptFails, ManagerTypeOK, CallRefersTo, Connecting, CallState
<1>2. /\ UNCHANGED << connections, channels, connection, channel, losses, overlapped >>
      /\ retried' = (retried \/ call[a].step # "connect")
      /\ Connection' = Connection /\ Channel' = Channel
      /\ ConnectionAlive' = ConnectionAlive
  BY DEF AttemptFails, server, manager, Connection, Channel, ConnectionAlive
<1>3. PICK state \in CallState :
        /\ To(a, state)
        /\ \/ state.step = "connect" /\ state.attempt > 0 /\ UNCHANGED phase
           \/ /\ state.step = "raised"
              /\ phase' = IF a = Lifespan THEN "failed" ELSE phase
  <2>1. call[a].attempt < MaxRetries =>
          /\ ConnectAttempt(call[a].attempt + 1) \in CallState
          /\ ConnectAttempt(call[a].attempt + 1).step = "connect"
          /\ ConnectAttempt(call[a].attempt + 1).attempt > 0
    BY <1>1 DEF ConnectAttempt, At, CallState
  <2>2. At("raised", 0, 0) \in CallState /\ At("raised", 0, 0).step = "raised"
    BY DEF At, CallState
  <2> QED
    BY <2>1, <2>2 DEF AttemptFails, Raise, Finish
<1>4. /\ call' \in [Actors -> CallState] /\ call'[a] = state
      /\ \A b \in Actors \ {a} : call'[b] = call[b]
  BY <1>3, OneCallMoves DEF ManagerTypeOK
<1>5. phase = "serving" \/ (phase = "starting" /\ a = Lifespan)
  BY <1>1 DEF PhaseInv, Actors, ManagerTypeOK, Connecting
<1>6. ManagerTypeOK'
  <2>1. CallRefersTo(a)'
    BY <1>3, <1>4 DEF CallRefersTo, Connecting
  <2>2. \A b \in Actors : CallRefersTo(b)'
    BY <1>2, <1>4, <2>1, StillRefersTo DEF ManagerTypeOK
  <2>3. phase' \in { "starting", "serving", "closed", "failed" }
        /\ retried' \in BOOLEAN
    BY <1>2, <1>3 DEF ManagerTypeOK
  <2> QED
    BY <1>2, <1>4, <2>2, <2>3 DEF ManagerTypeOK
<1>7. PhaseInv'
  <2>1. a = Lifespan => phase = "starting"
    BY <1>1 DEF PhaseInv, Connecting
  <2> QED
    BY <1>3, <1>4, <1>5, <2>1 DEF PhaseInv, Actors
<1>8. StrayInv'
  <2>1. \A b \in Actors \ {a} : Connecting(b)' = Connecting(b)
    BY <1>4 DEF Connecting
  <2>2. ~ overlapped => \A b \in Actors \ {a} : ~ Connecting(b)
    BY <1>1 DEF StrayInv
  <2>3. ~ overlapped' /\ ~ retried' => ~ ConnectionAlive'
    BY <1>1, <1>2 DEF StrayInv
  <2> QED
    BY <1>2, <2>1, <2>2, <2>3 DEF StrayInv, Connecting
<1>9. NoStrayConnection'
  <2>1. phase' # "closed"
    BY <1>3, <1>5
  <2> QED
    BY <1>2, <2>1 DEF NoStrayConnection
<1>10. AssignedInv'
  BY <1>2 DEF AssignedInv
<1> QED
  BY <1>6, <1>7, <1>8, <1>9, <1>10

(*----------------------- the process and the server --------------------*)

LEMMA EndRequestInv ==
  ASSUME IInv, NEW a \in Callers, EndRequest(a)
  PROVE  IInv'
<1> USE ManagerAssumption DEF IInv
<1>1. /\ UNCHANGED << phase, connections, channels, connection, channel >>
      /\ UNCHANGED << losses, history >>
      /\ Connection' = Connection /\ Channel' = Channel
      /\ ConnectionAlive' = ConnectionAlive
  BY DEF EndRequest, server, manager, Connection, Channel, ConnectionAlive
<1>2. a \in Actors /\ a # Lifespan /\ Idle \in CallState /\ To(a, Idle)
  BY DEF EndRequest, Actors, Idle, At, CallState
<1>3. /\ call' \in [Actors -> CallState] /\ call'[a] = Idle
      /\ \A b \in Actors \ {a} : call'[b] = call[b]
  BY <1>2, OneCallMoves DEF ManagerTypeOK
<1>4. ManagerTypeOK'
  <2>1. CallRefersTo(a)'
    BY <1>3 DEF CallRefersTo, Connecting, Idle, At
  <2>2. \A b \in Actors : CallRefersTo(b)'
    BY <1>1, <1>3, <2>1, StillRefersTo DEF ManagerTypeOK
  <2> QED
    BY <1>1, <1>3, <2>2 DEF ManagerTypeOK, history
<1>5. PhaseInv'
  BY <1>1, <1>2, <1>3 DEF PhaseInv, Actors, Idle, At
<1>6. StrayInv'
  <2>1. /\ ~ Connecting(a)' /\ call'[a].step # "connect"
        /\ \A b \in Actors \ {a} : Connecting(b)' = Connecting(b)
    BY <1>3 DEF Connecting, Idle, At
  <2> QED
    BY <1>1, <1>3, <2>1 DEF StrayInv, history
<1>7. NoStrayConnection' /\ AssignedInv'
  BY <1>1 DEF NoStrayConnection, AssignedInv, history
<1> QED
  BY <1>4, <1>5, <1>6, <1>7

(* What the server does to connections and channels: none is added, and no *)
(* connection opens again.                                                 *)
LEMMA ServerStepInv ==
  ASSUME IInv, UNCHANGED << phase, manager, call, history >>,
         connections' \in Seq(BOOLEAN), Connection' = Connection,
         channels' \in Seq([on : Connection', open : BOOLEAN]),
         Channel' = Channel, losses' \in 0..MaxLosses,
         \A x \in Connection : connections'[x] => connections[x]
  PROVE  IInv'
<1> USE DEF IInv
<1>1. \A a \in Actors : CallRefersTo(a)'
  BY StillRefersTo DEF ManagerTypeOK
<1>2. ManagerTypeOK'
  BY <1>1 DEF ManagerTypeOK, manager, history
<1>3. PhaseInv' /\ AssignedInv'
  BY DEF PhaseInv, AssignedInv, manager
<1>4. ConnectionAlive' => ConnectionAlive
  BY DEF ConnectionAlive, manager, ManagerTypeOK
<1>5. StrayInv'
  BY <1>4 DEF StrayInv, Connecting, history
<1>6. NoStrayConnection'
  BY DEF NoStrayConnection, manager, history
<1> QED
  BY <1>2, <1>3, <1>5, <1>6

(* One channel opens or closes.                                            *)
LEMMA OneChannelChanges ==
  ASSUME ManagerTypeOK, NEW ch \in Channel, NEW b \in BOOLEAN,
         channels' = [channels EXCEPT ![ch].open = b],
         connections' = connections
  PROVE  /\ channels' \in Seq([on : Connection', open : BOOLEAN])
         /\ Connection' = Connection /\ Channel' = Channel
<1> DEFINE S == [on : Connection, open : BOOLEAN]
<1>1. channels \in Seq(S) /\ Connection' = Connection
  BY DEF ManagerTypeOK, Connection
<1>2. [channels[ch] EXCEPT !.open = b] \in S
  <2>1. channels[ch] \in S
    <3> HIDE DEF S
    <3> QED
      BY <1>1 DEF Channel
  <2> QED
    BY <2>1
<1>3. channels' = [channels EXCEPT ![ch] = [channels[ch] EXCEPT !.open = b]]
  OBVIOUS
<1>4. channels' \in Seq(S) /\ Channel' = Channel
  <2> HIDE DEF S
  <2> QED
    BY <1>1, <1>2, <1>3 DEF Channel
<1> QED
  BY <1>1, <1>4

LEMMA ServerNextInv ==
  ASSUME IInv, ServerNext
  PROVE  IInv'
<1> USE ManagerAssumption DEF IInv
<1>1. losses \in 0..MaxLosses /\ (Lose => losses' \in 0..MaxLosses)
  BY DEF ManagerTypeOK, Lose
<1>2. ASSUME NEW ch \in Channel, LoseChannel(ch) PROVE IInv'
  <2>1. /\ channels' = [channels EXCEPT ![ch].open = FALSE]
        /\ connections' = connections
    BY <1>2 DEF LoseChannel
  <2>2. /\ channels' \in Seq([on : Connection', open : BOOLEAN])
        /\ Connection' = Connection /\ Channel' = Channel
    BY <2>1, OneChannelChanges
  <2> QED
    BY <1>1, <1>2, <2>2, ServerStepInv DEF LoseChannel, ManagerTypeOK
<1>3. ASSUME NEW ch \in Channel, RestoreChannel(ch) PROVE IInv'
  <2>1. /\ channels' = [channels EXCEPT ![ch].open = TRUE]
        /\ connections' = connections
    BY <1>3 DEF RestoreChannel
  <2>2. /\ channels' \in Seq([on : Connection', open : BOOLEAN])
        /\ Connection' = Connection /\ Channel' = Channel
    BY <2>1, OneChannelChanges
  <2> QED
    BY <1>1, <1>3, <2>2, ServerStepInv DEF RestoreChannel, ManagerTypeOK
<1>4. ASSUME NEW x \in Connection, LoseConnection(x) PROVE IInv'
  <2>1. /\ connections' \in Seq(BOOLEAN)
        /\ channels' \in Seq([on : Connection', open : BOOLEAN])
        /\ Connection' = Connection /\ Channel' = Channel
        /\ ~ connections'[x]
        /\ \A y \in Connection \ {x} : connections'[y] = connections[y]
    BY <1>4, ClosesWithChannels DEF LoseConnection
  <2> QED
    BY <1>1, <1>4, <2>1, ServerStepInv DEF LoseConnection
<1> QED
  BY <1>2, <1>3, <1>4 DEF ServerNext

LEMMA CloseInv ==
  ASSUME IInv, Close
  PROVE  IInv'
<1> USE ManagerAssumption DEF IInv
<1>1. /\ phase = "serving" /\ phase' = "closed"
      /\ \A a \in Callers : call[a].step = "idle"
      /\ UNCHANGED << connection, channel, call, losses, history >>
  BY DEF Close, manager
<1>2. /\ connections' \in Seq(BOOLEAN)
      /\ channels' \in Seq([on : Connection', open : BOOLEAN])
      /\ Connection' = Connection /\ Channel' = Channel
      /\ connection # 0 => ~ connections'[connection]
      /\ \A y \in Connection \ {connection} : connections'[y] = connections[y]
  <2>1. CASE ConnectionAlive
    <3>1. connection \in Connection
      BY <2>1 DEF ConnectionAlive, ManagerTypeOK
    <3> QED
      BY <2>1, <3>1, ClosesWithChannels DEF Close
  <2>2. CASE ~ ConnectionAlive
    BY <2>2 DEF Close, ConnectionAlive, ManagerTypeOK, Connection, Channel, server
  <2> QED
    BY <2>1, <2>2
<1>3. \A a \in Actors : ~ Connecting(a)
  BY <1>1 DEF PhaseInv, Connecting, Actors
<1>4. ManagerTypeOK'
  <2>1. \A a \in Actors : CallRefersTo(a)'
    BY <1>1, <1>2, StillRefersTo DEF ManagerTypeOK
  <2> QED
    BY <1>1, <1>2, <2>1 DEF ManagerTypeOK, history
<1>5. PhaseInv' /\ AssignedInv'
  BY <1>1, <1>2 DEF PhaseInv, AssignedInv
<1>6. StrayInv'
  BY <1>1, <1>3 DEF StrayInv, Connecting
<1>7. NoStrayConnection'
  <2>1. ~ retried /\ ~ overlapped => \A x \in Connection : ~ connections'[x]
    BY <1>2 DEF NoStrayConnection, Connection
  <2> QED
    BY <1>1, <1>2, <2>1 DEF NoStrayConnection, history
<1> QED
  BY <1>4, <1>5, <1>6, <1>7

(*-------------------------------- theorems -----------------------------*)

LEMMA NextInv == IInv /\ [ManagerNext]_managerVars => IInv'
<1> SUFFICES ASSUME IInv, [ManagerNext]_managerVars PROVE IInv'
  OBVIOUS
<1>1. CASE \E a \in Callers : GetChannel(a) \/ EndRequest(a)
  BY <1>1, GetChannelInv, EndRequestInv
<1>2. CASE \E a \in Actors : Progress(a)
  BY <1>2, ReopenedInv, ConnectedInv, ChannelOpenedInv, QueueDeclaredInv,
     AttemptFailsInv DEF Progress
<1>3. CASE Close
  BY <1>3, CloseInv
<1>4. CASE ServerNext
  BY <1>4, ServerNextInv
<1>5. CASE UNCHANGED managerVars
  BY <1>5 DEF managerVars, server, manager, history, IInv, ManagerTypeOK, PhaseInv,
     AssignedInv, StrayInv, NoStrayConnection, Connection, Channel, CallRefersTo,
     Connecting, ConnectionAlive
<1> QED
  BY <1>1, <1>2, <1>3, <1>4, <1>5 DEF ManagerNext

LEMMA AlwaysIInv == ManagerSpec => []IInv
  BY InitInv, NextInv, PTL DEF ManagerSpec

(* No call is at an attempt beyond max_retries, returns None for a channel *)
(* or uses a connection that was never made.                               *)
THEOREM ManagerTypeCorrect == ManagerSpec => []ManagerTypeOK
  BY AlwaysIInv, PTL DEF IInv

(* Without a failure between connecting and declaring and without two      *)
(* calls connecting together, no connection but the manager's is open, and *)
(* none after close.                                                       *)
THEOREM NoConnectionStrays == ManagerSpec => []NoStrayConnection
  BY AlwaysIInv, PTL DEF IInv
===============================================================================
