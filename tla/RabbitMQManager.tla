--------------------------- MODULE RabbitMQManager ---------------------------
(***************************************************************************)
(* RabbitMQManager in the api process: one connection and one channel,     *)
(* shared by all requests.  The lifespan connects before the first request *)
(* is served and closes after the last; in between, every request asks for *)
(* the channel (Depends), and whichever finds it closed opens it again, or *)
(* connects again.  There is no lock: calls interleave at every await.     *)
(*                                                                         *)
(* A call is at `connect' (connect_robust, with the delay before a retry), *)
(* `channel' (opening one on the new connection), `declare' (the request   *)
(* queue), or `reopen' (a channel on the connection there is).             *)
(***************************************************************************)
EXTENDS Naturals, Sequences

CONSTANTS
  Callers,      \* requests that can be in get_channel at the same time
  Lifespan,     \* the lifespan, which connects at startup
  MaxRetries,   \* max_retries: 5 in the code
  MaxLosses     \* bound on channels and connections that are lost

ASSUME ManagerAssumption ==
  /\ Lifespan \notin Callers
  /\ MaxRetries \in Nat \ {0}
  /\ MaxLosses \in Nat

VARIABLES
  phase,        \* of the process: "starting", "serving", "closed", "failed"
  connections,  \* every connection made, in order: is it open?
  channels,     \* every channel opened: on which connection, is it open?
  connection,   \* self.connection; 0 is None
  channel,      \* self.channel; 0 is None
  call,         \* per caller: where its call is
  losses,       \* channels and connections lost so far
  retried,      \* history: an attempt failed after it had connected
  overlapped    \* history: two calls were connecting at the same time

server == << connections, channels >>
manager == << connection, channel >>
history == << retried, overlapped >>
managerVars == << phase, server, manager, call, losses, history >>

Actors == Callers \cup {Lifespan}

Connection == DOMAIN connections
Channel == DOMAIN channels

(* A call: what it waits for, which attempt it is at while it connects, and *)
(* the connection it opens a channel on, the channel it declares the queue *)
(* with, or the one it has returned.                                       *)
CallState ==
  [ step    : { "idle", "connect", "channel", "declare", "reopen",
                "returned", "raised" },
    attempt : 0..MaxRetries,
    of      : Nat ]

At(step, n, object) == [step |-> step, attempt |-> n, of |-> object]

Idle == At("idle", 0, 0)
ConnectAttempt(n) == At("connect", n, 0)

Connecting(a) == call[a].step \in { "connect", "channel", "declare" }

(* A call refers to what exists and is at an attempt while it connects.    *)
CallRefersTo(a) ==
  /\ call[a].step \in { "channel", "reopen" } => call[a].of \in Connection
  /\ call[a].step \in { "declare", "returned" } => call[a].of \in Channel
  /\ Connecting(a) => call[a].attempt > 0

(* self.connection and self.channel are what was made, or None; a call is  *)
(* at no attempt beyond max_retries and returns a channel, never None.     *)
ManagerTypeOK ==
  /\ phase \in { "starting", "serving", "closed", "failed" }
  /\ connections \in Seq(BOOLEAN)
  /\ channels \in Seq([on : Connection, open : BOOLEAN])
  /\ connection \in Connection \cup {0}
  /\ channel \in Channel \cup {0}
  /\ call \in [Actors -> CallState]
  /\ \A a \in Actors : CallRefersTo(a)
  /\ losses \in 0..MaxLosses
  /\ retried \in BOOLEAN
  /\ overlapped \in BOOLEAN

ManagerInit ==
  /\ phase = "starting"
  /\ connections = << >> /\ channels = << >>
  /\ connection = 0 /\ channel = 0
  /\ call = [a \in Actors |-> IF a = Lifespan THEN ConnectAttempt(1) ELSE Idle]
  /\ losses = 0
  /\ retried = FALSE /\ overlapped = FALSE

ConnectionAlive == connection # 0 /\ connections[connection]
ChannelAlive == channel # 0 /\ channels[channel].open

To(a, state) == call' = [call EXCEPT ![a] = state]

(* What the lifespan gets decides whether the process serves.              *)
Finish(a, state, next) ==
  /\ To(a, state)
  /\ phase' = IF a = Lifespan THEN next ELSE phase

Return(a, ch) == Finish(a, At("returned", 0, ch), "serving")

Raise(a) == Finish(a, At("raised", 0, 0), "failed")

(*------------------------------ get_channel ----------------------------*)

(* Mutant: the connection is not looked at, only the channel.              *)
GetChannelConnects(a) ==
  /\ phase = "serving"
  /\ call[a].step = "idle"
  /\ IF ChannelAlive
       THEN Return(a, channel) /\ UNCHANGED overlapped
       ELSE /\ To(a, ConnectAttempt(1))
            /\ overlapped' = (overlapped \/ \E b \in Actors \ {a} : Connecting(b))
            /\ UNCHANGED phase
  /\ UNCHANGED << server, manager, losses, retried >>

GetChannel(a) ==
  /\ phase = "serving"
  /\ call[a].step = "idle"
  /\ \/ /\ ChannelAlive
        /\ Return(a, channel)
        /\ UNCHANGED overlapped
     \/ /\ ~ ChannelAlive
        /\ ConnectionAlive
        /\ To(a, At("reopen", 0, connection))
        /\ UNCHANGED << phase, overlapped >>
     \/ /\ ~ ChannelAlive
        /\ ~ ConnectionAlive
        /\ To(a, ConnectAttempt(1))
        /\ overlapped' = (overlapped \/ \E b \in Actors \ {a} : Connecting(b))
        /\ UNCHANGED phase
  /\ UNCHANGED << server, manager, losses, retried >>

OpenChannelOn(x) ==
  /\ connections[x]
  /\ channels' = Append(channels, [on |-> x, open |-> TRUE])
  /\ channel' = Len(channels) + 1
  /\ UNCHANGED << connections, connection >>

Reopened(a) ==
  /\ call[a].step = "reopen"
  /\ OpenChannelOn(call[a].of)
  /\ Return(a, channel')
  /\ UNCHANGED << losses, history >>

ReopenFails(a) ==
  /\ call[a].step = "reopen"
  /\ Raise(a)
  /\ UNCHANGED << server, manager, losses, history >>

(*-------------------------------- connect ------------------------------*)

Connected(a) ==
  /\ call[a].step = "connect"
  /\ connections' = Append(connections, TRUE)
  /\ connection' = Len(connections) + 1
  /\ To(a, At("channel", call[a].attempt, connection'))
  /\ UNCHANGED << phase, channels, channel, losses, history >>

ChannelOpened(a) ==
  /\ call[a].step = "channel"
  /\ OpenChannelOn(call[a].of)
  /\ To(a, At("declare", call[a].attempt, channel'))
  /\ UNCHANGED << phase, losses, history >>

(* After connect, get_channel returns self.channel as it is by then.       *)
QueueDeclared(a) ==
  /\ call[a].step = "declare"
  /\ channels[call[a].of].open
  /\ Return(a, channel)
  /\ UNCHANGED << server, manager, losses, history >>

(* Mutant: a declaration whose channel is lost is waited for for ever.     *)
AttemptHangs(a) ==
  /\ call[a].step \in { "connect", "channel" }
  /\ \/ /\ call[a].attempt < MaxRetries
        /\ To(a, ConnectAttempt(call[a].attempt + 1))
        /\ UNCHANGED phase
     \/ /\ call[a].attempt = MaxRetries
        /\ Raise(a)
  /\ retried' = (retried \/ call[a].step # "connect")
  /\ UNCHANGED << server, manager, losses, overlapped >>

(* Mutant: one attempt more than max_retries.                              *)
AttemptFailsLate(a) ==
  /\ Connecting(a)
  /\ \/ /\ call[a].attempt <= MaxRetries
        /\ To(a, ConnectAttempt(call[a].attempt + 1))
        /\ UNCHANGED phase
     \/ /\ call[a].attempt > MaxRetries
        /\ Raise(a)
  /\ retried' = (retried \/ call[a].step # "connect")
  /\ UNCHANGED << server, manager, losses, overlapped >>

(* Any of the three awaits raises.  What the attempt has made stays as it  *)
(* is, and the next attempt assigns over it.                               *)
AttemptFails(a) ==
  /\ Connecting(a)
  /\ \/ /\ call[a].attempt < MaxRetries
        /\ To(a, ConnectAttempt(call[a].attempt + 1))
        /\ UNCHANGED phase
     \/ /\ call[a].attempt = MaxRetries
        /\ Raise(a)
  /\ retried' = (retried \/ call[a].step # "connect")
  /\ UNCHANGED << server, manager, losses, overlapped >>

(*---------------------- the process and the server ---------------------*)

(* The request has used its channel, or has been answered with a 500.      *)
EndRequest(a) ==
  /\ a \in Callers
  /\ call[a].step \in { "returned", "raised" }
  /\ To(a, Idle)
  /\ UNCHANGED << phase, server, manager, losses, history >>

(* A connection closes with its channels.                                  *)
ConnectionCloses(x) ==
  /\ connections' = [connections EXCEPT ![x] = FALSE]
  /\ channels' = [ ch \in Channel |->
       [ on   |-> channels[ch].on,
         open |-> channels[ch].open /\ channels[ch].on # x ] ]

(* uvicorn waits for the requests in flight before the lifespan ends.      *)
Close ==
  /\ phase = "serving"
  /\ \A a \in Callers : call[a].step = "idle"
  /\ phase' = "closed"
  /\ IF ConnectionAlive THEN ConnectionCloses(connection) ELSE UNCHANGED server
  /\ UNCHANGED << manager, call, losses, history >>

Lose == losses < MaxLosses /\ losses' = losses + 1

(* The server closed it, or its connection is just being re-established.   *)
LoseChannel(ch) ==
  /\ channels[ch].open
  /\ Lose
  /\ channels' = [channels EXCEPT ![ch].open = FALSE]
  /\ UNCHANGED << phase, connections, manager, call, history >>

(* For good: `is_closed' of the connection.                                *)
LoseConnection(x) ==
  /\ connections[x]
  /\ Lose
  /\ ConnectionCloses(x)
  /\ UNCHANGED << phase, manager, call, history >>

(* aio_pika restores the channels of a robust connection by itself.        *)
RestoreChannel(ch) ==
  /\ ~ channels[ch].open
  /\ connections[channels[ch].on]
  /\ channels' = [channels EXCEPT ![ch].open = TRUE]
  /\ UNCHANGED << phase, connections, manager, call, losses, history >>

Progress(a) ==
  \/ Reopened(a) \/ ReopenFails(a) \/ Connected(a) \/ ChannelOpened(a)
  \/ QueueDeclared(a) \/ AttemptFails(a)

ServerNext ==
  /\ phase \in { "starting", "serving" }
  /\ \/ \E ch \in Channel : LoseChannel(ch) \/ RestoreChannel(ch)
     \/ \E x \in Connection : LoseConnection(x)

ManagerNext ==
  \/ \E a \in Callers : GetChannel(a) \/ EndRequest(a)
  \/ \E a \in Actors : Progress(a)
  \/ Close
  \/ ServerNext

(* Every await ends, with a result or an exception, and the event loop     *)
(* carries the call on.                                                    *)
ManagerSpec ==
  /\ ManagerInit /\ [][ManagerNext]_managerVars
  /\ \A a \in Actors : WF_managerVars(Progress(a))

(*------------------------------ properties -----------------------------*)

(* "Ensures the channel is alive before returning it": the channel a call  *)
(* returns is open in the step that returns it.  After connecting, it is   *)
(* self.channel that is returned, whichever call put it there and however  *)
(* long ago, and nobody looks at it again.                                 *)
EnsuresLiveChannel ==
  [][ \A a \in Actors :
        call[a].step # "returned" /\ call'[a].step = "returned" =>
          channels'[call'[a].of].open ]_managerVars

(* Calls that neither connect at the same time nor fail between connecting *)
(* and declaring leave one connection at most, the manager's, however      *)
(* often it is lost and whoever reopens a channel meanwhile; so `close'    *)
(* leaves none.  Without either condition connections are assigned over    *)
(* while they are open, and stay open.                                     *)
NoStrayConnection ==
  ~ retried /\ ~ overlapped =>
    /\ \A x \in Connection : connections[x] => x = connection
    /\ phase = "closed" => \A x \in Connection : ~ connections[x]

(* Every call ends: with a channel, or after max_retries attempts with an  *)
(* error; the startup too.                                                 *)
EveryCallEnds ==
  \A a \in Actors :
    call[a].step \notin { "idle", "returned", "raised" }
      ~> call[a].step \in { "returned", "raised" }
===============================================================================
