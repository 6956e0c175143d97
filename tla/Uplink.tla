------------------------------- MODULE Uplink -------------------------------
(***************************************************************************)
(* The link between the mod and the application: the mod's client          *)
(* (mod/.../net/UplinkClient.kt, driven by LowballMod.kt) and the          *)
(* application's server (app/lowball/uplink/server.py).                    *)
(*                                                                         *)
(* The client runs on three kinds of thread. The game thread queues frames.*)
(* The scheduler, a single thread, runs the tasks that were handed to it:  *)
(* drains of the queue, delayed connects and the heartbeat. The HTTP       *)
(* client's threads run the completion of a connect, which drains too, and *)
(* the listener. The server runs one handler per connection, all on one    *)
(* event loop. Delays are left out: a task that is due may run at any time.*)
(*                                                                         *)
(* A selection frame is a number, the count of selections the player has   *)
(* sent: what is in it does not matter to the link, its age does. Frames   *)
(* of the other kinds (trade_completed, hello, heartbeat) share the queue  *)
(* and the connection with the selections; the link does not tell them     *)
(* apart.                                                                  *)
(***************************************************************************)
EXTENDS Naturals, Sequences

CONSTANTS
    None,       \* no connection, no frame
    Other,      \* a frame of another kind than a selection
    Conns,      \* connections, reused once both sides have let go of one
    MaxQueued,  \* bound of the queue (UplinkClient.maxQueued)
    MaxFrames,  \* bound on the selections the player sends and the frames of other kinds
    MaxTasks,   \* bound on the delayed connects that are counted
    MaxFaults   \* bound on breaks, overlapping sends, timeouts and restarts

VARIABLES
    running,    \* the client has been started and not stopped
    socket,     \* the connection in use, or None
    attempt,    \* a connection attempt is in flight
    connecting, \* the flag that keeps it the only one
    adopting,   \* connections whose completion has yet to set the socket
    pending,    \* the queue of frames
    drainsDue,  \* drains handed to the scheduler and not run yet
    others,     \* frames of other kinds sent so far
    delayed,    \* delayed connects, counted up to MaxTasks
    drains,     \* per thread, the drain it is in: its connection, the frame it holds
    latest,     \* the last selection the player sent
    link,       \* per connection: closed, open, or broken
    channel,    \* per connection, the frames on their way
    handler,    \* per connection, the server's: none, running, done
    connected,  \* UplinkStatus.connected
    shown,      \* the selection the application last received
    appUp,      \* the application is running
    faults,     \* faults so far
    astray      \* history: what may have lost or reordered frames

client == <<running, socket, attempt, connecting, adopting, drainsDue, delayed, drains>>
wire   == <<link, channel>>
server == <<handler, connected, shown, appUp>>
vars   == <<client, pending, latest, others, wire, server, faults, astray>>

Scheduler == 0
Threads   == {Scheduler} \cup Conns         \* a completion runs on its own thread

ASSUME UplinkAssumption ==
    /\ Scheduler \notin Conns /\ None \notin Conns
    /\ {MaxQueued, MaxFrames, MaxTasks, MaxFaults} \subseteq Nat
    /\ None \notin 1 .. MaxFrames /\ Other \notin 0 .. MaxFrames /\ Other # None
    /\ MaxQueued > 0

Selection == 1 .. MaxFrames
Frame     == Selection \cup {Other}
Idle      == [live |-> None, frame |-> None]    \* a thread that is not draining

TypeOK ==
    /\ {running, attempt, connecting, appUp, connected} \subseteq BOOLEAN
    /\ socket \in Conns \cup {None}
    /\ adopting \subseteq Conns
    /\ pending \in Seq(Frame) /\ Len(pending) <= MaxQueued
    /\ drains \in [Threads -> [live : Conns \cup {None}, frame : Frame \cup {None}]]
    /\ link \in [Conns -> {"closed", "open", "broken"}]
    /\ channel \in [Conns -> Seq(Frame)]
    /\ handler \in [Conns -> {"none", "running", "done"}]
    /\ {latest, shown} \subseteq 0 .. MaxFrames
    /\ faults \in 0 .. MaxFaults /\ delayed \in 0 .. MaxTasks
    /\ others \in 0 .. MaxFrames - latest /\ drainsDue \in 0 .. MaxFrames
    /\ astray \subseteq {"dropped", "overlap", "restart", "evicted"}

Init ==
    /\ running = TRUE /\ attempt = TRUE /\ connecting = TRUE  \* start() has run its connect
    /\ socket = None /\ adopting = {} /\ pending = <<>> /\ drainsDue = 0 /\ delayed = 0
    /\ drains = [t \in Threads |-> Idle]
    /\ latest = 0 /\ others = 0
    /\ link = [c \in Conns |-> "closed"] /\ channel = [c \in Conns |-> <<>>]
    /\ handler = [c \in Conns |-> "none"]
    /\ connected = FALSE /\ shown = 0 /\ appUp \in BOOLEAN
    /\ faults = 0 /\ astray = {}

Fault   == faults < MaxFaults /\ faults' = faults + 1
Free(c) == /\ link[c] # "open" /\ handler[c] # "running" /\ c \notin adopting /\ socket # c
           /\ \A t \in Threads : drains[t].live # c
           /\ drains[c] = Idle

\* No frame is on its way.
Quiet == /\ pending = <<>> /\ adopting = {}
         /\ \A t \in Threads : drains[t].frame = None
         /\ \A c \in Conns : channel[c] = <<>>

-----------------------------------------------------------------------------
(***************************************************************************)
(* The client: connecting.                                                 *)
(***************************************************************************)
ScheduleReconnect ==
    delayed' = IF running /\ delayed < MaxTasks THEN delayed + 1 ELSE delayed

\* connect(): a no-op once connected, or while another attempt is in flight.
TryConnect ==
    IF running /\ socket = None /\ ~ connecting
    THEN connecting' = TRUE /\ attempt' = TRUE
    ELSE UNCHANGED <<connecting, attempt>>

DelayedConnect ==
    /\ delayed > 0
    /\ drains[Scheduler] = Idle
    /\ delayed' = delayed - 1
    /\ TryConnect
    /\ UNCHANGED <<running, socket, adopting, drainsDue, drains, pending, latest, others,
                   wire, server, faults, astray>>

\* Mutant of Refused: the attempt is never taken as over.
RefusedSilently ==
    /\ attempt
    /\ attempt' = FALSE
    /\ IF appUp THEN Fault ELSE UNCHANGED faults
    /\ ScheduleReconnect
    /\ UNCHANGED <<running, socket, connecting, adopting, drainsDue, drains, pending,
                   latest, others, wire, server, astray>>

\* The attempt fails: the application is down, or too slow to answer.
Refused ==
    /\ attempt
    /\ attempt' = FALSE
    /\ IF appUp THEN Fault ELSE UNCHANGED faults
    /\ connecting' = FALSE
    /\ ScheduleReconnect
    /\ UNCHANGED <<running, socket, adopting, drainsDue, drains, pending, latest, others,
                   wire, server, astray>>

\* The attempt succeeds. Its completion clears `connecting` first and sets the
\* socket afterwards: in between another attempt may start.
Established(c) ==
    /\ attempt /\ appUp
    /\ Free(c)
    /\ attempt' = FALSE
    /\ connecting' = FALSE
    /\ adopting' = adopting \cup {c}
    /\ link' = [link EXCEPT ![c] = "open"]
    /\ handler' = [handler EXCEPT ![c] = "none"]
    /\ channel' = [channel EXCEPT ![c] = <<>>]
    /\ UNCHANGED <<running, socket, drainsDue, delayed, drains, pending, latest, others,
                   connected, shown, appUp, faults, astray>>

\* Mutant of Adopt: what was queued while offline waits for the next frame.
AdoptOnly(c) ==
    /\ c \in adopting
    /\ adopting' = adopting \ {c}
    /\ socket' = c
    /\ astray' = IF socket # None THEN astray \cup {"overlap"} ELSE astray
    /\ UNCHANGED <<running, attempt, connecting, drainsDue, delayed, drains, pending,
                   latest, others, wire, server, faults>>

\* The completion goes on: the socket, onConnected, and a drain on its own thread.
Adopt(c) ==
    /\ c \in adopting
    /\ adopting' = adopting \ {c}
    /\ socket' = c
    /\ drains' = [drains EXCEPT ![c] = [live |-> c, frame |-> None]]
    /\ astray' = IF socket # None THEN astray \cup {"overlap"} ELSE astray
    /\ UNCHANGED <<running, attempt, connecting, drainsDue, delayed, pending, latest,
                   others, wire, server, faults>>

\* handleDisconnect(): only for the connection in use. The connection itself is
\* not closed.
HandleDisconnect(c) ==
    IF socket = c
    THEN socket' = None /\ ScheduleReconnect
    ELSE UNCHANGED <<socket, delayed>>

\* The listener's onClose or onError.
Notice(c) ==
    /\ socket = c /\ link[c] = "broken"
    /\ HandleDisconnect(c)
    /\ UNCHANGED <<running, attempt, connecting, adopting, drainsDue, drains, pending,
                   latest, others, wire, server, faults, astray>>

-----------------------------------------------------------------------------
(***************************************************************************)
(* The client: sending.                                                    *)
(***************************************************************************)

\* Mutant of Enqueue: a full queue refuses the frame.
EnqueueIfRoom(frame) ==
    /\ pending' = IF Len(pending) >= MaxQueued THEN pending ELSE Append(pending, frame)
    /\ drainsDue' = drainsDue + 1
    /\ UNCHANGED astray

\* send(): a full queue drops its oldest frame, of whatever kind. It may be the player's
\* last selection, if what is queued behind it is of other kinds. (The test of the size and
\* the two changes are separate steps in the code, on a queue that the game thread and the
\* heartbeat share: the bound may be passed by one.)
Enqueue(frame) ==
    /\ pending' = Append(IF Len(pending) >= MaxQueued THEN Tail(pending) ELSE pending, frame)
    /\ drainsDue' = drainsDue + 1
    /\ astray' = IF /\ Len(pending) >= MaxQueued /\ Head(pending) = latest
                    /\ frame = Other
                 THEN astray \cup {"evicted"} ELSE astray

\* The player presses Send, or Clear.
SendSelection ==
    /\ running
    /\ latest + others < MaxFrames
    /\ latest' = latest + 1
    /\ Enqueue(latest + 1)
    /\ UNCHANGED <<running, socket, attempt, connecting, adopting, delayed, drains, others,
                   wire, server, faults>>

QueueOther ==
    /\ latest + others < MaxFrames
    /\ others' = others + 1
    /\ Enqueue(Other)

\* A trade is over, or the mod says hello once it is connected.
SendOther ==
    /\ running
    /\ QueueOther
    /\ UNCHANGED <<running, socket, attempt, connecting, adopting, delayed, drains, latest,
                   wire, server, faults>>

\* Every fifteen seconds: with no connection an attempt to connect, with one a frame
\* (beyond the bound on frames it is left out).
Heartbeat ==
    /\ running
    /\ drains[Scheduler] = Idle
    /\ \/ /\ socket = None
          /\ TryConnect
          /\ UNCHANGED <<pending, drainsDue, others, astray>>
       \/ /\ socket # None
          /\ QueueOther
          /\ UNCHANGED <<connecting, attempt>>
       \/ /\ socket # None /\ latest + others = MaxFrames
          /\ UNCHANGED <<connecting, attempt, pending, drainsDue, others, astray>>
    /\ UNCHANGED <<running, socket, adopting, delayed, drains, latest, wire, server, faults>>

\* The scheduler takes a drain: with no connection it asks for one instead.
BeginDrain ==
    /\ drainsDue > 0
    /\ drains[Scheduler] = Idle
    /\ drainsDue' = drainsDue - 1
    /\ IF socket = None
       THEN TryConnect /\ UNCHANGED drains
       ELSE /\ drains' = [drains EXCEPT ![Scheduler] = [live |-> socket, frame |-> None]]
            /\ UNCHANGED <<connecting, attempt>>
    /\ UNCHANGED <<running, socket, adopting, delayed, pending, latest, others, wire, server,
                   faults, astray>>

\* A drain takes the next frame off the queue, or ends. Two drains at once may send
\* the frames they hold in either order.
Poll(t) ==
    /\ drains[t].live # None /\ drains[t].frame = None
    /\ IF pending = <<>>
       THEN drains' = [drains EXCEPT ![t] = Idle] /\ UNCHANGED <<pending, astray>>
       ELSE /\ drains' = [drains EXCEPT ![t].frame = Head(pending)]
            /\ pending' = Tail(pending)
            /\ astray' = IF \E u \in Threads \ {t} : drains[u].frame # None
                         THEN astray \cup {"overlap"} ELSE astray
    /\ UNCHANGED <<running, socket, attempt, connecting, adopting, drainsDue, delayed,
                   latest, others, wire, server, faults>>

SendText(t) ==
    LET c == drains[t].live
    IN /\ drains[t].frame # None
       /\ link[c] = "open"
       /\ channel' = [channel EXCEPT ![c] = Append(@, drains[t].frame)]
       /\ drains' = [drains EXCEPT ![t].frame = None]
       /\ UNCHANGED <<running, socket, attempt, connecting, adopting, drainsDue, delayed,
                      pending, latest, others, link, server, faults, astray>>

\* The send fails: the connection is broken, or the previous send on it has not
\* completed, which a WebSocket refuses. The frame is lost and the connection given up.
\* The drain goes on with the next frame on the same connection if the send failed in
\* the end, and stops if it failed at once.
SendFails(t) ==
    LET c == drains[t].live
    IN /\ drains[t].frame # None
       /\ \/ link[c] = "broken" /\ UNCHANGED faults
          \/ link[c] = "open" /\ Fault
       /\ \/ drains' = [drains EXCEPT ![t].frame = None]
          \/ drains' = [drains EXCEPT ![t] = Idle]
       /\ HandleDisconnect(c)
       /\ astray' = astray \cup {"dropped"}
       /\ UNCHANGED <<running, attempt, connecting, adopting, drainsDue, pending, latest,
                      others, wire, server>>

\* The game closes: stop() closes the connection in use and drops the tasks. A
\* drain that is running goes on, and so does an attempt in flight.
Stop ==
    /\ running /\ Fault
    /\ running' = FALSE
    /\ socket' = None
    /\ link' = [c \in Conns |-> IF c = socket THEN "broken" ELSE link[c]]
    /\ drainsDue' = 0 /\ delayed' = 0
    /\ astray' = astray \cup {"restart"}
    /\ UNCHANGED <<attempt, connecting, adopting, drains, pending, latest, others, channel,
                   server>>

\* The game's process ends, with every connection, and is started again.
Relaunch ==
    /\ ~ running
    /\ running' = TRUE /\ attempt' = TRUE /\ connecting' = TRUE /\ adopting' = {}
    /\ socket' = None /\ pending' = <<>> /\ drainsDue' = 0 /\ delayed' = 0
    /\ drains' = [t \in Threads |-> Idle]
    /\ link' = [c \in Conns |-> IF link[c] = "open" THEN "broken" ELSE link[c]]
    /\ UNCHANGED <<latest, others, channel, server, faults, astray>>

-----------------------------------------------------------------------------
(***************************************************************************)
(* The server. Its library hands a handler what has arrived even after the *)
(* connection is gone, or may find it gone first.                          *)
(***************************************************************************)
Serve(c) ==
    /\ appUp /\ link[c] # "closed" /\ handler[c] = "none"
    /\ handler' = [handler EXCEPT ![c] = "running"]
    /\ connected' = TRUE
    /\ UNCHANGED <<client, pending, latest, others, wire, shown, appUp, faults, astray>>

\* _dispatch(): runs to its end, for it awaits nothing. Only a selection changes what is
\* shown.
Dispatch(c) ==
    LET frame == Head(channel[c])
    IN /\ handler[c] = "running" /\ channel[c] # <<>>
       /\ channel' = [channel EXCEPT ![c] = Tail(@)]
       /\ shown' = IF frame = Other THEN shown ELSE frame
       /\ UNCHANGED <<client, pending, latest, others, link, handler, connected,
                      appUp, faults, astray>>

\* Mutant of EndHandler: the handler ends without its finally clause.
EndHandlerOnly(c) ==
    /\ handler[c] = "running" /\ link[c] = "broken"
    /\ handler' = [handler EXCEPT ![c] = "done"]
    /\ channel' = [channel EXCEPT ![c] = <<>>]
    /\ UNCHANGED <<client, pending, latest, others, link, connected, shown, appUp, faults,
                   astray>>

\* The handler of a connection that is gone ends, and says the mod is: whichever
\* connection it was.
EndHandler(c) ==
    /\ handler[c] = "running" /\ link[c] = "broken"
    /\ handler' = [handler EXCEPT ![c] = "done"]
    /\ channel' = [channel EXCEPT ![c] = <<>>]
    /\ connected' = FALSE
    /\ UNCHANGED <<client, pending, latest, others, link, shown, appUp, faults, astray>>

-----------------------------------------------------------------------------
(***************************************************************************)
(* The world: connections break and the application comes and goes.        *)
(***************************************************************************)
\* Frames that were on their way may be lost, or be read late.
Break(c) ==
    /\ link[c] = "open" /\ Fault
    /\ link' = [link EXCEPT ![c] = "broken"]
    /\ astray' = IF channel[c] # <<>> THEN astray \cup {"dropped"} ELSE astray
    /\ UNCHANGED <<client, pending, latest, others, channel, server>>

AppStops ==
    /\ appUp /\ Fault
    /\ appUp' = FALSE
    /\ link' = [c \in Conns |-> IF link[c] = "open" THEN "broken" ELSE link[c]]
    /\ channel' = [c \in Conns |-> <<>>]
    /\ handler' = [c \in Conns |-> "done"]
    /\ connected' = FALSE /\ shown' = 0
    /\ astray' = astray \cup {"restart"}
    /\ UNCHANGED <<client, pending, latest, others>>

AppStarts ==
    /\ ~ appUp
    /\ appUp' = TRUE
    /\ UNCHANGED <<client, pending, latest, others, wire, handler, connected, shown, faults,
                   astray>>

Next ==
    \/ DelayedConnect \/ Refused \/ SendSelection \/ SendOther \/ Heartbeat
    \/ BeginDrain \/ Stop \/ Relaunch
    \/ \E t \in Threads : Poll(t) \/ SendText(t) \/ SendFails(t)
    \/ \E c \in Conns : \/ Established(c) \/ Adopt(c) \/ Notice(c)
                        \/ Serve(c) \/ Dispatch(c) \/ EndHandler(c) \/ Break(c)
    \/ AppStops \/ AppStarts

(***************************************************************************)
(* Fairness: the scheduler goes on with the tasks it was handed, in any    *)
(* order, and a completion goes on to its end. An attempt ends (it has a   *)
(* timeout), and one that the application could answer time and again is   *)
(* answered in the end. Of the heartbeat, the listener and the server      *)
(* nothing is asked: the client does without.                              *)
(***************************************************************************)
Drain(t) == Poll(t) \/ SendText(t) \/ SendFails(t)

Fairness ==
    /\ WF_vars(DelayedConnect \/ BeginDrain \/ Drain(Scheduler))
    /\ \A c \in Conns : WF_vars(Adopt(c) \/ Drain(c))
    /\ WF_vars(Refused) /\ SF_vars(\E c \in Conns : Established(c))

Spec == Init /\ [][Next]_vars /\ Fairness

-----------------------------------------------------------------------------
(***************************************************************************)
(* Properties.                                                             *)
(***************************************************************************)
\* With nothing on its way, the application shows what the player sent last.
Agreed == Quiet => shown = latest

\* So it is unless a frame was dropped with its connection, two threads or connections
\* carried frames at once, a side was restarted, or the last selection was the oldest frame
\* of a full queue when one of another kind came: failed attempts, sending while offline,
\* and an overflow that pushes out older selections or other frames never cost it.
AgreedUnlessAstray == astray = {} => Agreed

\* The status never claims a mod that no connection is left of.
NeverFalselyConnected == connected => \E c \in Conns : handler[c] = "running"

Up == appUp /\ running

\* The instance has no connection left to give: abandoned ones are never closed.
OutOfConns == socket = None /\ \A c \in Conns : ~ Free(c)

\* While both sides stay up the client gets its connection, again and again: whatever
\* failed before, neither an attempt nor the wish for one is ever stuck.
Reconnects == <>[]Up => []<>(socket # None \/ OutOfConns)

\* While both sides stay up the queue empties, frames queued while offline included.
QueueDrains == <>[]Up => []<>(pending = <<>> \/ OutOfConns)

=============================================================================
