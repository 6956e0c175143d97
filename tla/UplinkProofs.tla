---------------------------- MODULE UplinkProofs ----------------------------
(***************************************************************************)
(* The status the server reports and the selection it shows, for any       *)
(* number of connections, any length of the queue and any faults.          *)
(***************************************************************************)
EXTENDS Uplink, TLAPS

\* What the server says and who says it. Inductive: a connection that the client makes
\* anew is one that no handler runs for, and a handler that ends takes the word back.
StatusInv ==
    /\ handler = [c \in Conns |-> handler[c]]
    /\ connected \in BOOLEAN
    /\ NeverFalselyConnected

LEMMA ServerKeepsStatus ==
    ASSUME StatusInv, NEW c \in Conns, Serve(c) \/ Dispatch(c) \/ EndHandler(c)
    PROVE  StatusInv'
<1>1. CASE Serve(c)
  BY <1>1 DEF StatusInv, NeverFalselyConnected, Serve
<1>2. CASE Dispatch(c)
  BY <1>2 DEF StatusInv, NeverFalselyConnected, Dispatch
<1>3. CASE EndHandler(c)
  BY <1>3 DEF StatusInv, NeverFalselyConnected, EndHandler
<1> QED BY <1>1, <1>2, <1>3

LEMMA EstablishedKeepsStatus ==
    ASSUME StatusInv, NEW c \in Conns, Established(c)
    PROVE  StatusInv'
<1>1. handler[c] # "running"
  BY DEF Established, Free
<1>2. /\ handler' = [handler EXCEPT ![c] = "none"]
      /\ connected' = connected
  BY DEF Established
<1> QED BY <1>1, <1>2 DEF StatusInv, NeverFalselyConnected

LEMMA ClientKeepsStatus ==
    ASSUME StatusInv, UNCHANGED <<handler, connected>>
    PROVE  StatusInv'
BY DEF StatusInv, NeverFalselyConnected

LEMMA StatusStep == StatusInv /\ [Next]_vars => StatusInv'
<1> SUFFICES ASSUME StatusInv, [Next]_vars
             PROVE  StatusInv'
  OBVIOUS
<1>1. CASE \/ DelayedConnect \/ Refused \/ SendSelection \/ SendOther \/ Heartbeat
           \/ BeginDrain \/ Stop \/ Relaunch \/ AppStarts \/ UNCHANGED vars
  BY <1>1, ClientKeepsStatus
     DEF DelayedConnect, Refused, SendSelection, SendOther, Heartbeat, BeginDrain, Stop, Relaunch,
         AppStarts, vars, server
<1>2. ASSUME NEW t \in Threads, Poll(t) \/ SendText(t) \/ SendFails(t)
      PROVE  StatusInv'
  BY <1>2, ClientKeepsStatus DEF Poll, SendText, SendFails, server
<1>3. ASSUME NEW c \in Conns, Adopt(c) \/ Notice(c) \/ Break(c)
      PROVE  StatusInv'
  BY <1>3, ClientKeepsStatus DEF Adopt, Notice, Break, server
<1>4. CASE AppStops
  BY <1>4 DEF AppStops, StatusInv, NeverFalselyConnected
<1> QED BY <1>1, <1>2, <1>3, <1>4, ServerKeepsStatus, EstablishedKeepsStatus DEF Next

\* The status never claims a mod that no connection is left of, however many connections
\* overlap and in whatever order their handlers end. (The converse does not hold: see
\* the README on a handler that ends late.)
THEOREM UplinkNeverFalselyConnected == Spec => []NeverFalselyConnected
<1>1. Init => StatusInv
  BY DEF Init, StatusInv, NeverFalselyConnected
<1>2. StatusInv => NeverFalselyConnected
  BY DEF StatusInv
<1> QED BY <1>1, <1>2, StatusStep, PTL DEF Spec

-----------------------------------------------------------------------------
(***************************************************************************)
(* The frames on their way: in the queue, in the hands of a thread, in a   *)
(* channel. As long as nothing goes astray they form one line, and of the  *)
(* selections in it the one nearest to the mod is the newest, whatever     *)
(* other frames stand between them.                                        *)
(***************************************************************************)
Carried ==
    /\ socket \in Conns \cup {None}
    /\ adopting \subseteq Conns
    /\ pending \in Seq(Frame)
    /\ drains \in [Threads -> [live : Conns \cup {None}, frame : Frame \cup {None}]]
    /\ link \in [Conns -> {"closed", "open", "broken"}]
    /\ channel \in [Conns -> Seq(Frame)]
    /\ latest \in 0 .. MaxFrames

LEMMA OtherFrames ==
    /\ None \notin Frame /\ None \notin Conns /\ Other \in Frame /\ Selection \subseteq Frame
    /\ Other \notin 0 .. MaxFrames /\ Other \notin Selection
    /\ \A f \in Frame : f # Other => f \in Selection
BY UplinkAssumption DEF Frame, Selection

\* There is a selection in the queue, and the last one of it is selection n.
Chosen(q)    == \E i \in 1 .. Len(q) : q[i] # Other
EndsIn(q, n) == \E i \in 1 .. Len(q) : q[i] = n /\ \A j \in i + 1 .. Len(q) : q[j] = Other

\* What is sent is at the end of the queue; a frame of another kind is none there.
LEMMA SentFrames ==
    ASSUME NEW q \in Seq(Frame), NEW f \in Frame
    PROVE  /\ Append(q, f) \in Seq(Frame) /\ Append(q, f) # <<>>
           /\ f # Other => Chosen(Append(q, f))
           /\ EndsIn(Append(q, f), f)
           /\ f = Other => /\ Chosen(Append(q, f)) => Chosen(q)
                           /\ Chosen(q) => Chosen(Append(q, f))
                           /\ \A n \in 0 .. MaxFrames : EndsIn(q, n) => EndsIn(Append(q, f), n)
<1> DEFINE r == Append(q, f)
<1>1. /\ r \in Seq(Frame) /\ Len(r) = Len(q) + 1 /\ r[Len(q) + 1] = f /\ Len(q) \in Nat
      /\ \A i \in 1 .. Len(q) : r[i] = q[i]
  OBVIOUS
<1>2. r # <<>>
  BY <1>1
<1> HIDE DEF r
<1>3. f # Other => Chosen(r)
  BY <1>1 DEF Chosen
<1>4. EndsIn(r, f)
  <2>1. Len(r) \in 1 .. Len(r) /\ Len(r) + 1 .. Len(r) = {}
    BY <1>1
  <2> QED BY <1>1, <2>1 DEF EndsIn
<1>5. ASSUME f = Other, Chosen(r) PROVE Chosen(q)
  <2>1. PICK i \in 1 .. Len(q) + 1 : r[i] # Other
    BY <1>1, <1>5 DEF Chosen
  <2>2. i \in 1 .. Len(q)
    BY <1>1, <1>5, <2>1
  <2> QED BY <1>1, <2>1, <2>2 DEF Chosen
<1>6. Chosen(q) => Chosen(r)
  BY <1>1 DEF Chosen
<1>7. ASSUME f = Other, NEW n \in 0 .. MaxFrames, EndsIn(q, n) PROVE EndsIn(r, n)
  <2>1. PICK i \in 1 .. Len(q) : q[i] = n /\ \A j \in i + 1 .. Len(q) : q[j] = Other
    BY <1>7 DEF EndsIn
  <2>2. i \in 1 .. Len(r) /\ r[i] = n
    BY <1>1, <2>1
  <2>3. ASSUME NEW j \in i + 1 .. Len(r) PROVE r[j] = Other
    <3>1. j = Len(q) + 1 \/ (j \in i + 1 .. Len(q) /\ j \in 1 .. Len(q))
      BY <1>1, <2>1
    <3> QED BY <1>1, <1>7, <2>1, <3>1
  <2> QED BY <2>2, <2>3 DEF EndsIn
<1> QED BY <1>1, <1>2, <1>3, <1>4, <1>5, <1>6, <1>7 DEF r

\* A frame is taken off the queue.
LEMMA TakenFrames ==
    ASSUME NEW q \in Seq(Frame), q # <<>>
    PROVE  /\ Head(q) \in Frame /\ Tail(q) \in Seq(Frame)
           /\ Head(q) # Other \/ Chosen(Tail(q)) => Chosen(q)
           /\ \A n \in 0 .. MaxFrames : EndsIn(q, n) =>
                 /\ Chosen(Tail(q)) => EndsIn(Tail(q), n)
                 /\ ~ Chosen(Tail(q)) => Head(q) = n
<1> DEFINE r == Tail(q)
<1>1. /\ Len(q) \in Nat \ {0} /\ Head(q) = q[1] /\ r \in Seq(Frame)
      /\ Len(r) = Len(q) - 1 /\ \A i \in 1 .. Len(q) - 1 : r[i] = q[i + 1]
  OBVIOUS
<1>2. q[1] \in Frame
  BY <1>1
<1> HIDE DEF r
<1>3. ASSUME Head(q) # Other \/ Chosen(r) PROVE Chosen(q)
  <2>1. CASE Head(q) # Other
    BY <1>1, <2>1 DEF Chosen
  <2>2. CASE Chosen(r)
    <3>1. PICK i \in 1 .. Len(q) - 1 : r[i] # Other
      BY <1>1, <2>2 DEF Chosen
    <3>2. i + 1 \in 1 .. Len(q) /\ q[i + 1] # Other
      BY <1>1, <3>1
    <3> QED BY <3>2 DEF Chosen
  <2> QED BY <1>3, <2>1, <2>2
<1>4. ASSUME NEW n \in 0 .. MaxFrames, EndsIn(q, n)
      PROVE  /\ Chosen(r) => EndsIn(r, n)
             /\ ~ Chosen(r) => Head(q) = n
  <2>1. PICK i \in 1 .. Len(q) : q[i] = n /\ \A j \in i + 1 .. Len(q) : q[j] = Other
    BY <1>4 DEF EndsIn
  <2>2. CASE i = 1
    <3>1. ASSUME NEW k \in 1 .. Len(r) PROVE r[k] = Other
      <4>1. k \in 1 .. Len(q) - 1 /\ k + 1 \in i + 1 .. Len(q)
        BY <1>1, <2>2
      <4> QED BY <1>1, <2>1, <4>1
    <3>2. ~ Chosen(r)
      BY <3>1 DEF Chosen
    <3> QED BY <1>1, <2>1, <2>2, <3>2
  <2>3. CASE i # 1
    <3>1. i - 1 \in 1 .. Len(r) /\ i - 1 \in 1 .. Len(q) - 1 /\ r[i - 1] = n
      BY <1>1, <2>1, <2>3
    <3>2. ASSUME NEW k \in (i - 1) + 1 .. Len(r) PROVE r[k] = Other
      <4>1. k \in 1 .. Len(q) - 1 /\ k + 1 \in i + 1 .. Len(q)
        BY <1>1, <2>1
      <4> QED BY <1>1, <2>1, <4>1
    <3>3. EndsIn(r, n)
      BY <3>1, <3>2 DEF EndsIn
    <3>4. Chosen(r)
      BY <3>1, OtherFrames DEF Chosen
    <3> QED BY <3>3, <3>4
  <2> QED BY <2>2, <2>3
<1> QED BY <1>1, <1>2, <1>3, <1>4 DEF r

\* No selection waits, or none is held either, or none is in a channel either.
NoneWaits  == ~ Chosen(pending)
NoneHeld   == NoneWaits /\ \A t \in Threads : drains[t].frame \notin Selection
NoneUnread == NoneHeld /\ \A c \in Conns : ~ Chosen(channel[c])

\* Of the selections on their way the one nearest to the mod is the newest.
Newest ==
    /\ Chosen(pending) => EndsIn(pending, latest)
    /\ NoneWaits => \A t \in Threads : drains[t].frame \in Selection => drains[t].frame = latest
    /\ NoneHeld => \A c \in Conns : Chosen(channel[c]) => EndsIn(channel[c], latest)
    /\ NoneUnread => shown = latest

OneWay ==
    /\ running
    /\ \A c \in Conns : link[c] = "open" => c = socket \/ c \in adopting
    /\ \A c \in Conns : channel[c] # <<>> => link[c] = "open" /\ c = socket
    /\ socket \notin adopting
    /\ \A c \in adopting : drains[c].live = None
    /\ \A t \in Threads : drains[t].live \notin adopting
    /\ \A t \in Threads : drains[t].frame # None => drains[t].live # None
    /\ \A t, u \in Threads : drains[t].frame # None /\ drains[u].frame # None => t = u

PipeInv == astray = {} => OneWay /\ Newest

LineInv == Carried /\ PipeInv

\* The steps that carry no frame.
LEMMA LineIdle ==
    ASSUME LineInv, UNCHANGED <<running, socket, adopting, drains, pending, link, channel,
                                latest, shown, astray>>
    PROVE  LineInv'
BY DEF LineInv, Carried, PipeInv, OneWay, Newest, NoneWaits, NoneHeld, NoneUnread

LEMMA EstablishedLine ==
    ASSUME LineInv, NEW c \in Conns, Established(c)
    PROVE  LineInv'
<1>1. /\ adopting' = adopting \cup {c} /\ link' = [link EXCEPT ![c] = "open"]
      /\ channel' = [channel EXCEPT ![c] = <<>>]
      /\ UNCHANGED <<running, socket, drains, pending, latest, shown, astray>>
  BY DEF Established
<1>2. /\ link[c] # "open" /\ socket # c /\ c \in Threads /\ drains[c] = Idle
      /\ \A t \in Threads : drains[t].live # c
  BY DEF Established, Free, Threads
<1>3. Carried'
  BY <1>1 DEF LineInv, Carried
<1>4. ASSUME astray = {} PROVE channel' = channel
  BY <1>1, <1>2, <1>4 DEF LineInv, PipeInv, OneWay, Carried
<1>5. ASSUME astray = {} PROVE OneWay' /\ Newest'
  <2>1. OneWay /\ Newest
    BY <1>5 DEF LineInv, PipeInv
  <2>2. Newest'
    BY <1>1, <1>4, <1>5, <2>1 DEF Newest, NoneWaits, NoneHeld, NoneUnread
  <2>3. OneWay'
    BY <1>1, <1>2, <1>4, <1>5, <2>1, OtherFrames DEF OneWay, LineInv, Carried, Idle
  <2> QED BY <2>2, <2>3
<1> QED
  BY <1>1, <1>3, <1>5 DEF LineInv, PipeInv

LEMMA AdoptLine ==
    ASSUME LineInv, NEW c \in Conns, Adopt(c)
    PROVE  LineInv'
<1>1. /\ c \in adopting /\ adopting' = adopting \ {c} /\ socket' = c
      /\ drains' = [drains EXCEPT ![c] = [live |-> c, frame |-> None]]
      /\ astray' = IF socket # None THEN astray \cup {"overlap"} ELSE astray
      /\ UNCHANGED <<running, pending, latest, link, channel, shown>>
      /\ c \in Threads
  BY DEF Adopt, wire, server, Threads
<1>3. Carried'
  BY <1>1 DEF LineInv, Carried
<1>5. ASSUME astray' = {} PROVE OneWay' /\ Newest'
  <2>1. OneWay /\ Newest /\ socket = None
    BY <1>1, <1>5 DEF LineInv, PipeInv
  <2>d. drains \in [Threads -> [live : Conns \cup {None}, frame : Frame \cup {None}]]
    BY DEF LineInv, Carried
  <2>f. \A t \in Threads : /\ drains'[t].frame = drains[t].frame
                           /\ drains'[t].live = IF t = c THEN c ELSE drains[t].live
    BY <1>1, <2>1, <2>d DEF OneWay
  <2>2. Newest'
    BY <1>1, <2>1, <2>f DEF Newest, NoneWaits, NoneHeld, NoneUnread
  <2>3. \A d \in Conns : channel[d] = <<>>
    BY <2>1, OtherFrames DEF OneWay
  <2>4. \A d \in Conns : link[d] = "open" => d \in adopting
    BY <2>1, OtherFrames DEF OneWay
  <2> HIDE DEF Newest
  <2>5. OneWay'
    BY <1>1, <2>1, <2>3, <2>4, <2>f, OtherFrames DEF OneWay
  <2> QED BY <2>2, <2>5
<1> QED
  BY <1>3, <1>5 DEF LineInv, PipeInv

LEMMA NoticeLine ==
    ASSUME LineInv, NEW c \in Conns, Notice(c)
    PROVE  LineInv'
<1>1. /\ socket = c /\ link[c] = "broken" /\ socket' = None
      /\ UNCHANGED <<running, adopting, drains, pending, latest, link, channel, shown, astray>>
  BY DEF Notice, HandleDisconnect, wire, server
<1>3. Carried'
  BY <1>1 DEF LineInv, Carried
<1>5. ASSUME astray = {} PROVE OneWay' /\ Newest'
  <2>1. OneWay /\ Newest
    BY <1>5 DEF LineInv, PipeInv
  <2>2. Newest'
    BY <1>1, <2>1 DEF Newest, NoneWaits, NoneHeld, NoneUnread
  <2>3. OneWay'
    BY <1>1, <2>1, OtherFrames DEF OneWay, LineInv, Carried
  <2> QED BY <2>2, <2>3
<1> QED
  BY <1>1, <1>3, <1>5 DEF LineInv, PipeInv

\* What send() leaves in the queue, if nothing went astray by it.
LEMMA EnqueuedFrames ==
    ASSUME Carried, Newest, NEW f \in Frame, NEW n \in 0 .. MaxFrames, Enqueue(f),
           astray' = {}, f = n \/ (f = Other /\ n = latest)
    PROVE  /\ pending' \in Seq(Frame)
           /\ Chosen(pending') => EndsIn(pending', n)
           /\ ~ Chosen(pending') => NoneWaits /\ f = Other
<1> DEFINE room == IF Len(pending) >= MaxQueued THEN Tail(pending) ELSE pending
<1>1. /\ pending' = Append(room, f) /\ pending \in Seq(Frame) /\ latest \in 0 .. MaxFrames
      /\ Chosen(pending) => EndsIn(pending, latest)
  BY DEF Enqueue, Carried, Newest
<1>2. Len(pending) >= MaxQueued => pending # <<>>
  BY <1>1, UplinkAssumption
<1>3. f = Other /\ Len(pending) >= MaxQueued => Head(pending) # latest
  BY DEF Enqueue
<1>4. room \in Seq(Frame)
  BY <1>1, <1>2, TakenFrames
<1>5. f = Other => /\ Chosen(room) => EndsIn(room, latest)
                   /\ ~ Chosen(room) => ~ Chosen(pending)
  <2>1. CASE Len(pending) >= MaxQueued
    BY <1>1, <1>2, <1>3, <2>1, TakenFrames
  <2>2. CASE ~ (Len(pending) >= MaxQueued)
    BY <1>1, <2>2
  <2> QED BY <2>1, <2>2
<1> HIDE DEF room
<1>6. CASE f # Other
  <2>1. f = n
    BY <1>6
  <2> QED BY <1>1, <1>4, <1>6, <2>1, SentFrames
<1>7. CASE f = Other
  <2>1. n = latest
    BY <1>7, OtherFrames
  <2>2. /\ Append(room, f) \in Seq(Frame)
        /\ Chosen(Append(room, f)) => Chosen(room)
        /\ Chosen(room) => Chosen(Append(room, f))
        /\ EndsIn(room, latest) => EndsIn(Append(room, f), latest)
    BY <1>1, <1>4, <1>7, SentFrames
  <2> QED BY <1>1, <1>5, <1>7, <2>1, <2>2 DEF NoneWaits
<1> QED BY <1>6, <1>7

LEMMA EnqueueLine ==
    ASSUME LineInv, NEW f \in Frame, Enqueue(f),
           latest' = IF f = Other THEN latest ELSE f,
           UNCHANGED <<running, socket, adopting, drains, link, channel, shown>>
    PROVE  LineInv'
<1>1. pending' \in Seq(Frame)
  <2>1. Len(pending) >= MaxQueued => pending # <<>>
    BY UplinkAssumption DEF LineInv, Carried
  <2> DEFINE room == IF Len(pending) >= MaxQueued THEN Tail(pending) ELSE pending
  <2>2. room \in Seq(Frame)
    BY <2>1, TakenFrames DEF LineInv, Carried
  <2> QED BY <2>2, SentFrames DEF Enqueue
<1>0. PICK n \in 0 .. MaxFrames : n = latest' /\ (f = n \/ (f = Other /\ n = latest))
  BY OtherFrames DEF LineInv, Carried, Selection
<1>2. Carried'
  BY <1>0, <1>1 DEF LineInv, Carried
<1>3. ASSUME astray' = {} PROVE OneWay' /\ Newest'
  <2>1. astray = {}
    BY <1>3 DEF Enqueue
  <2>2. OneWay /\ Newest /\ Carried
    BY <2>1 DEF LineInv, PipeInv
  <2>3. /\ Chosen(pending') => EndsIn(pending', latest')
        /\ ~ Chosen(pending') => NoneWaits /\ f = Other
    <3>1. /\ Chosen(pending') => EndsIn(pending', n)
          /\ ~ Chosen(pending') => NoneWaits /\ f = Other
      BY <1>0, <1>3, <2>2, EnqueuedFrames
    <3> QED BY <1>0, <3>1
  <2>4. ~ Chosen(pending') => latest' = latest
    BY <2>3, OtherFrames
  <2>5. Newest'
    BY <2>2, <2>3, <2>4 DEF Newest, NoneWaits, NoneHeld, NoneUnread
  <2>6. OneWay'
    BY <2>2 DEF OneWay
  <2> QED BY <2>5, <2>6
<1> QED
  BY <1>2, <1>3 DEF LineInv, PipeInv

LEMMA SendLine == LineInv /\ others \in Nat /\ (SendSelection \/ SendOther \/ Heartbeat)
                      => LineInv'
<1>1. ASSUME LineInv, others \in Nat, SendSelection PROVE LineInv'
  <2>1. /\ latest' = latest + 1
        /\ UNCHANGED <<running, socket, adopting, drains, link, channel, shown>>
    BY <1>1 DEF SendSelection, wire, server
  <2>2. latest + 1 \in Frame /\ latest + 1 \in 0 .. MaxFrames
    BY <1>1, UplinkAssumption DEF SendSelection, LineInv, Carried, Frame, Selection
  <2>3. PICK f \in Frame : f = latest + 1
    BY <2>2
  <2>4. Enqueue(f)
    BY <1>1, <2>3 DEF SendSelection, Enqueue
  <2>5. latest' = IF f = Other THEN latest ELSE f
    BY <2>1, <2>2, <2>3, OtherFrames
  <2> QED BY <1>1, <2>1, <2>3, <2>4, <2>5, EnqueueLine
<1>2. ASSUME LineInv, Enqueue(Other),
             UNCHANGED <<running, socket, adopting, drains, link, channel, latest, shown>>
      PROVE  LineInv'
  <2>1. Other \in Frame /\ latest' = IF Other = Other THEN latest ELSE Other
    BY <1>2, OtherFrames
  <2> QED BY <1>2, <2>1, EnqueueLine
<1>3. ASSUME LineInv, SendOther PROVE LineInv'
  BY <1>2, <1>3 DEF SendOther, QueueOther, wire, server
<1>4. ASSUME LineInv, Heartbeat PROVE LineInv'
  <2>1. UNCHANGED <<running, socket, adopting, drains, link, channel, latest, shown>>
    BY <1>4 DEF Heartbeat, wire, server
  <2>2. Enqueue(Other) \/ UNCHANGED <<pending, astray>>
    BY <1>4 DEF Heartbeat, QueueOther
  <2> QED BY <1>2, <1>4, <2>1, <2>2, LineIdle
<1> QED BY <1>1, <1>3, <1>4

LEMMA BeginDrainLine == LineInv /\ BeginDrain => LineInv'
<1> SUFFICES ASSUME LineInv, BeginDrain PROVE LineInv'
  OBVIOUS
<1>1. /\ drains[Scheduler] = Idle /\ Scheduler \in Threads
      /\ UNCHANGED <<running, socket, adopting, pending, link, channel, latest, shown, astray>>
      /\ \/ UNCHANGED drains
         \/ drains' = [drains EXCEPT ![Scheduler] = [live |-> socket, frame |-> None]]
  BY DEF BeginDrain, wire, server, Threads
<1>2. CASE UNCHANGED drains
  BY <1>1, <1>2, LineIdle
<1>3. CASE drains' = [drains EXCEPT ![Scheduler] = [live |-> socket, frame |-> None]]
  <2>1. Carried'
    BY <1>1, <1>3 DEF LineInv, Carried
  <2>2. \A t \in Threads : /\ drains'[t].frame = drains[t].frame
                           /\ drains'[t].live \in {drains[t].live, socket}
    BY <1>1, <1>3 DEF LineInv, Carried, Idle
  <2>3. ASSUME astray = {} PROVE OneWay' /\ Newest'
    <3>1. OneWay /\ Newest
      BY <2>3 DEF LineInv, PipeInv
    <3>2. Newest'
      BY <1>1, <2>2, <3>1 DEF Newest, NoneWaits, NoneHeld, NoneUnread
    <3>3. OneWay'
      <4>1. \A t \in Threads : drains'[t].frame # None => drains'[t].live # None
        BY <1>1, <1>3, <3>1 DEF OneWay, LineInv, Carried, Idle
      <4>2. \A c \in adopting : drains'[c].live = drains[c].live
        BY <1>3, UplinkAssumption DEF LineInv, Carried, Threads
      <4> QED BY <1>1, <2>2, <3>1, <4>1, <4>2 DEF OneWay
    <3> QED BY <3>2, <3>3
  <2> QED BY <1>1, <2>1, <2>3 DEF LineInv, PipeInv
<1> QED
  BY <1>1, <1>2, <1>3

LEMMA PollLine ==
    ASSUME LineInv, NEW t \in Threads, Poll(t)
    PROVE  LineInv'
<1>0. /\ drains[t].live # None /\ drains[t].frame = None
      /\ UNCHANGED <<running, socket, adopting, link, channel, latest, shown>>
      /\ drains \in [Threads -> [live : Conns \cup {None}, frame : Frame \cup {None}]]
  BY DEF Poll, wire, server, LineInv, Carried
<1>1. CASE pending = <<>>
  <2>1. drains' = [drains EXCEPT ![t] = Idle] /\ UNCHANGED <<pending, astray>>
    BY <1>1 DEF Poll
  <2>2. \A u \in Threads : /\ drains'[u].frame = drains[u].frame
                           /\ drains'[u].live = IF u = t THEN None ELSE drains[u].live
    BY <1>0, <2>1 DEF Idle
  <2>3. Carried'
    BY <1>0, <2>1 DEF LineInv, Carried, Idle
  <2>4. ASSUME astray = {} PROVE OneWay' /\ Newest'
    <3>1. OneWay /\ Newest
      BY <2>4 DEF LineInv, PipeInv
    <3>2. Newest'
      BY <1>0, <2>1, <2>2, <3>1 DEF Newest, NoneWaits, NoneHeld, NoneUnread
    <3>3. OneWay'
      BY <1>0, <2>2, <3>1, OtherFrames DEF OneWay, LineInv, Carried, Threads
    <3> QED BY <3>2, <3>3
  <2> QED BY <2>1, <2>3, <2>4 DEF LineInv, PipeInv
<1>2. CASE pending # <<>>
  <2> DEFINE f == Head(pending)
  <2>1. /\ drains' = [drains EXCEPT ![t].frame = f] /\ pending' = Tail(pending)
        /\ astray' = {} => astray = {} /\ \A u \in Threads \ {t} : drains[u].frame = None
    BY <1>2 DEF Poll
  <2>2. /\ f \in Frame /\ pending' \in Seq(Frame) /\ f # None
        /\ f # Other \/ Chosen(pending') => Chosen(pending)
        /\ EndsIn(pending, latest) => /\ Chosen(pending') => EndsIn(pending', latest)
                                      /\ ~ Chosen(pending') => f = latest
    BY <1>2, <2>1, TakenFrames, OtherFrames DEF LineInv, Carried
  <2> HIDE DEF f
  <2>3. \A u \in Threads : /\ drains'[u].frame = IF u = t THEN f ELSE drains[u].frame
                           /\ drains'[u].live = drains[u].live
    BY <1>0, <2>1
  <2>4. Carried'
    BY <1>0, <2>1, <2>2 DEF LineInv, Carried
  <2>5. ASSUME astray' = {} PROVE OneWay' /\ Newest'
    <3>1. OneWay /\ Newest /\ \A u \in Threads \ {t} : drains[u].frame = None
      BY <2>1, <2>5 DEF LineInv, PipeInv
    <3>2. Chosen(pending) => EndsIn(pending, latest)
      BY <3>1 DEF Newest
    <3>3. Newest'
      <4>1. Chosen(pending') => EndsIn(pending', latest')
        BY <1>0, <2>2, <3>2
      <4>2. ASSUME ~ Chosen(pending'), NEW u \in Threads, drains'[u].frame \in Selection
            PROVE  drains'[u].frame = latest'
        <5>1. u = t /\ f \in Selection
          BY <2>3, <3>1, <4>2, OtherFrames DEF Selection, Frame
        <5> QED BY <1>0, <2>2, <2>3, <3>2, <4>2, <5>1, OtherFrames
      <4>3. NoneHeld' => NoneHeld
        <5>1. ASSUME NoneHeld' PROVE NoneHeld
          <6>1. f \notin Selection /\ ~ Chosen(pending')
            BY <1>0, <2>3, <5>1 DEF NoneHeld, NoneWaits
          <6>2. f = Other
            BY <2>2, <6>1, OtherFrames
          <6>3. ~ Chosen(pending)
            BY <2>2, <3>2, <6>1, <6>2, OtherFrames DEF LineInv, Carried
          <6>4. \A u \in Threads : drains[u].frame \notin Selection
            BY <1>0, <3>1, OtherFrames DEF Frame
          <6> QED BY <6>3, <6>4 DEF NoneHeld, NoneWaits
        <5> QED BY <5>1
      <4> QED BY <1>0, <3>1, <4>1, <4>2, <4>3 DEF Newest, NoneUnread, NoneWaits
    <3>4. OneWay'
      <4>1. t \notin adopting
        BY <1>0, <3>1 DEF OneWay
      <4> QED BY <1>0, <2>3, <3>1, <4>1 DEF OneWay, LineInv, Carried, Threads
    <3> QED BY <3>3, <3>4
  <2> QED BY <2>4, <2>5 DEF LineInv, PipeInv
<1> QED
  BY <1>1, <1>2

LEMMA SendTextLine ==
    ASSUME LineInv, NEW t \in Threads, SendText(t)
    PROVE  LineInv'
<1> DEFINE c == drains[t].live
           f == drains[t].frame
<1>0. drains \in [Threads -> [live : Conns \cup {None}, frame : Frame \cup {None}]]
  BY DEF LineInv, Carried
<1>1. /\ f # None /\ link[c] = "open"
      /\ channel' = [channel EXCEPT ![c] = Append(@, f)]
      /\ drains' = [drains EXCEPT ![t].frame = None]
      /\ UNCHANGED <<running, socket, adopting, pending, link, latest, shown, astray>>
  BY DEF SendText, server
<1>2. f \in Frame /\ c \in Conns \cup {None}
  BY <1>0, <1>1
<1> HIDE DEF f
<1>3. \A u \in Threads : /\ drains'[u].frame = IF u = t THEN None ELSE drains[u].frame
                         /\ drains'[u].live = drains[u].live
  BY <1>0, <1>1
<1> HIDE DEF c
<1>4. Carried'
  <2>1. channel' \in [Conns -> Seq(Frame)]
    BY <1>1, <1>2, SentFrames DEF LineInv, Carried
  <2> QED BY <1>0, <1>1, <2>1 DEF LineInv, Carried
<1>5. ASSUME astray = {} PROVE OneWay' /\ Newest'
  <2>1. OneWay /\ Newest
    BY <1>5 DEF LineInv, PipeInv
  <2>2. c \in Conns /\ c = socket
    BY <1>1, <1>2, <2>1 DEF OneWay, c, f
  <2>3. /\ channel \in [Conns -> Seq(Frame)]
        /\ channel' = [channel EXCEPT ![c] = Append(channel[c], f)]
    BY <1>1 DEF LineInv, Carried
  <2>4. /\ channel'[c] = Append(channel[c], f) /\ channel[c] \in Seq(Frame)
        /\ \A d \in Conns \ {c} : channel'[d] = channel[d]
    BY <1>2, <2>2, <2>3
  <2>5. \A u \in Threads \ {t} : drains[u].frame = None
    BY <1>1, <2>1 DEF OneWay, f
  <2>6. \A d \in Conns \ {c} : channel[d] = <<>>
    BY <2>1, <2>2 DEF OneWay
  <2>7. /\ NoneWaits /\ f \in Selection => f = latest
        /\ Chosen(pending) => EndsIn(pending, latest)
    BY <1>1, <2>1 DEF Newest, f
  <2>x. latest \in 0 .. MaxFrames
    BY DEF LineInv, Carried
  <2>8. Newest'
    <3>1. \A u \in Threads : drains'[u].frame \notin Selection
      BY <1>3, <2>5, OtherFrames DEF Frame
    <3>2. CASE f = Other
      <4>1. NoneHeld' => NoneHeld
        BY <1>1, <1>3, <2>5, <3>2, OtherFrames DEF NoneHeld, NoneWaits, f, Frame
      <4>2. /\ Chosen(channel'[c]) => Chosen(channel[c])
            /\ Chosen(channel[c]) => Chosen(channel'[c])
            /\ EndsIn(channel[c], latest) => EndsIn(channel'[c], latest)
        BY <1>2, <2>4, <2>x, <3>2, SentFrames
      <4>3. NoneHeld => \A d \in Conns : Chosen(channel[d]) => EndsIn(channel[d], latest)
        BY <2>1 DEF Newest
      <4>4. NoneHeld' => \A d \in Conns : Chosen(channel'[d]) => EndsIn(channel'[d], latest')
        BY <1>1, <2>2, <2>4, <4>1, <4>2, <4>3
      <4>5. NoneUnread' => NoneUnread
        BY <2>2, <2>4, <4>1, <4>2 DEF NoneUnread
      <4>6. NoneUnread => shown = latest
        BY <2>1 DEF Newest
      <4> QED BY <1>1, <2>7, <3>1, <4>4, <4>5, <4>6 DEF Newest, NoneWaits
    <3>3. CASE f # Other
      <4>1. f \in Selection
        BY <1>2, <3>3, OtherFrames
      <4>2. Chosen(channel'[c]) /\ (NoneWaits => EndsIn(channel'[c], latest))
        BY <1>2, <2>4, <2>7, <3>3, <4>1, SentFrames
      <4>3. \A d \in Conns \ {c} : ~ Chosen(channel'[d])
        BY <2>4, <2>6 DEF Chosen
      <4>4. NoneHeld' => \A d \in Conns : Chosen(channel'[d]) => EndsIn(channel'[d], latest')
        BY <1>1, <2>2, <4>2, <4>3 DEF NoneHeld, NoneWaits
      <4>5. ~ NoneUnread'
        BY <2>2, <4>2 DEF NoneUnread
      <4> QED BY <1>1, <2>7, <3>1, <4>4, <4>5 DEF Newest, NoneWaits
    <3> QED BY <3>2, <3>3
  <2>9. OneWay'
    BY <1>1, <1>3, <2>1, <2>2, <2>4, <2>6 DEF OneWay, LineInv, Carried, Threads
  <2> QED BY <2>8, <2>9
<1> QED
  BY <1>1, <1>4, <1>5 DEF LineInv, PipeInv

\* A step after which something may have gone astray.
LEMMA AstrayLine ==
    ASSUME LineInv,
           \/ Stop \/ AppStops
           \/ \E t \in Threads : SendFails(t)
           \/ Relaunch
    PROVE  LineInv'
<1>1. CASE Stop
  BY <1>1 DEF Stop, LineInv, Carried, PipeInv
<1>2. CASE AppStops
  <2>1. Carried'
    BY <1>2 DEF AppStops, LineInv, Carried, client
  <2>2. astray' # {}
    BY <1>2 DEF AppStops
  <2> QED BY <2>1, <2>2 DEF LineInv, PipeInv
<1>3. ASSUME NEW t \in Threads, SendFails(t) PROVE LineInv'
  <2>1. /\ UNCHANGED <<adopting, pending, link, channel, latest>>
        /\ socket' \in {socket, None}
        /\ \/ drains' = [drains EXCEPT ![t].frame = None]
           \/ drains' = [drains EXCEPT ![t] = Idle]
        /\ astray' # {}
    BY <1>3 DEF SendFails, HandleDisconnect, wire
  <2>2. Carried'
    <3>1. drains' \in [Threads -> [live : Conns \cup {None}, frame : Frame \cup {None}]]
      <4>1. drains \in [Threads -> [live : Conns \cup {None}, frame : Frame \cup {None}]]
        BY DEF LineInv, Carried
      <4>2. CASE drains' = [drains EXCEPT ![t].frame = None]
        BY <4>1, <4>2
      <4>3. CASE drains' = [drains EXCEPT ![t] = Idle]
        BY <4>1, <4>3 DEF Idle
      <4> QED BY <2>1, <4>2, <4>3
    <3> QED BY <2>1, <3>1 DEF LineInv, Carried
  <2> QED BY <2>1, <2>2 DEF LineInv, PipeInv
<1>4. CASE Relaunch
  <2>1. Carried'
    BY <1>4 DEF Relaunch, LineInv, Carried, Idle
  <2>2. astray' # {}
    BY <1>4 DEF Relaunch, LineInv, PipeInv, OneWay
  <2> QED BY <2>1, <2>2 DEF LineInv, PipeInv
<1> QED
  BY <1>1, <1>2, <1>3, <1>4

LEMMA DispatchLine ==
    ASSUME LineInv, NEW c \in Conns, Dispatch(c)
    PROVE  LineInv'
<1>0. channel \in [Conns -> Seq(Frame)]
  BY DEF LineInv, Carried
<1>1. /\ channel[c] # <<>> /\ channel' = [channel EXCEPT ![c] = Tail(channel[c])]
      /\ shown' = IF Head(channel[c]) = Other THEN shown ELSE Head(channel[c])
      /\ UNCHANGED <<running, socket, adopting, drains, pending, link, latest, astray>>
  BY DEF Dispatch, client
<1>2. /\ Tail(channel[c]) \in Seq(Frame)
      /\ Head(channel[c]) # Other \/ Chosen(Tail(channel[c])) => Chosen(channel[c])
      /\ \A n \in 0 .. MaxFrames : EndsIn(channel[c], n) =>
            /\ Chosen(Tail(channel[c])) => EndsIn(Tail(channel[c]), n)
            /\ ~ Chosen(Tail(channel[c])) => Head(channel[c]) = n
  BY <1>0, <1>1, TakenFrames
<1>3. \A d \in Conns : channel'[d] = IF d = c THEN Tail(channel[c]) ELSE channel[d]
  BY <1>0, <1>1
<1>4. Carried'
  <2>1. channel' \in [Conns -> Seq(Frame)]
    BY <1>0, <1>1, <1>2
  <2> QED BY <1>1, <2>1 DEF LineInv, Carried
<1>5. ASSUME astray = {} PROVE OneWay' /\ Newest'
  <2>1. OneWay /\ Newest
    BY <1>5 DEF LineInv, PipeInv
  <2>2. OneWay'
    BY <1>1, <1>3, <2>1 DEF OneWay
  <2>3. /\ NoneHeld => \A d \in Conns : Chosen(channel[d]) => EndsIn(channel[d], latest)
        /\ NoneUnread => shown = latest
        /\ latest \in 0 .. MaxFrames
    BY <2>1 DEF Newest, LineInv, Carried
  <2>4. Newest'
    <3>1. (NoneHeld' => NoneHeld) /\ (NoneHeld => NoneHeld')
      BY <1>1 DEF NoneHeld, NoneWaits
    <3>2. NoneHeld' => \A d \in Conns : Chosen(channel'[d]) => EndsIn(channel'[d], latest')
      BY <1>1, <1>2, <1>3, <2>3, <3>1
    <3>3. ASSUME NoneUnread' PROVE shown' = latest'
      <4>1. NoneHeld /\ \A d \in Conns : ~ Chosen(channel'[d])
        BY <3>1, <3>3 DEF NoneUnread
      <4>2. ~ Chosen(Tail(channel[c])) /\ \A d \in Conns \ {c} : ~ Chosen(channel[d])
        BY <1>3, <4>1
      <4>3. CASE Chosen(channel[c])
        <5>1. Head(channel[c]) = latest
          BY <1>2, <2>3, <4>1, <4>2, <4>3
        <5> QED BY <1>1, <2>3, <5>1, OtherFrames
      <4>4. CASE ~ Chosen(channel[c])
        <5>1. Head(channel[c]) = Other
          BY <1>2, <4>4
        <5>2. NoneUnread
          BY <4>1, <4>2, <4>4 DEF NoneUnread
        <5> QED BY <1>1, <2>3, <5>1, <5>2
      <4> QED BY <4>3, <4>4
    <3> QED BY <1>1, <2>1, <3>2, <3>3 DEF Newest, NoneWaits
  <2> QED BY <2>2, <2>4
<1> QED
  BY <1>1, <1>4, <1>5 DEF LineInv, PipeInv

\* A connection that is gone without a frame on it.
LEMMA GoneLine ==
    ASSUME LineInv, NEW c \in Conns, EndHandler(c) \/ Break(c)
    PROVE  LineInv'
<1>1. CASE EndHandler(c)
  <2>1. /\ link[c] = "broken" /\ channel' = [channel EXCEPT ![c] = <<>>]
        /\ UNCHANGED <<running, socket, adopting, drains, pending, link, latest, shown, astray>>
    BY <1>1 DEF EndHandler, client
  <2>2. Carried'
    BY <2>1 DEF LineInv, Carried
  <2>3. ASSUME astray = {} PROVE channel' = channel
    BY <2>1, <2>3 DEF LineInv, PipeInv, OneWay, Carried
  <2> QED BY <2>1, <2>2, <2>3, LineIdle DEF LineInv, PipeInv
<1>2. CASE Break(c)
  <2>1. /\ link' = [link EXCEPT ![c] = "broken"]
        /\ astray' = {} => astray = {} /\ channel[c] = <<>>
        /\ UNCHANGED <<running, socket, adopting, drains, pending, channel, latest, shown>>
    BY <1>2 DEF Break, client, server
  <2>2. Carried'
    BY <2>1 DEF LineInv, Carried
  <2>3. ASSUME astray' = {} PROVE OneWay' /\ Newest'
    <3>1. OneWay /\ Newest
      BY <2>1, <2>3 DEF LineInv, PipeInv
    <3>2. \A d \in Conns : link'[d] = IF d = c THEN "broken" ELSE link[d]
      BY <2>1 DEF LineInv, Carried
    <3>3. OneWay'
      BY <2>1, <2>3, <3>1, <3>2 DEF OneWay
    <3>4. Newest'
      BY <2>1, <3>1 DEF Newest, NoneWaits, NoneHeld, NoneUnread
    <3> QED BY <3>3, <3>4
  <2> QED BY <2>2, <2>3 DEF LineInv, PipeInv
<1> QED
  BY <1>1, <1>2

\* A selection is counted with the other frames, and none of these is taken back.
LEMMA OthersCounted == Spec => [](others \in Nat)
<1>1. Init => others \in Nat
  BY DEF Init
<1>2. others \in Nat /\ [Next]_vars => (others \in Nat)'
  <2>1. QueueOther => others' = others + 1
    BY DEF QueueOther
  <2> QED
    BY <2>1
    DEF Next, vars, SendOther, Heartbeat, DelayedConnect, Refused, SendSelection, BeginDrain, Stop,
        Relaunch, Poll, SendText, SendFails, Established, Adopt, Notice, Serve, Dispatch,
        EndHandler, Break, AppStops, AppStarts
<1> QED BY <1>1, <1>2, PTL DEF Spec

LEMMA LineStep == LineInv /\ others \in Nat /\ [Next]_vars => LineInv'
<1> SUFFICES ASSUME LineInv, others \in Nat, [Next]_vars PROVE LineInv'
  OBVIOUS
<1>1. CASE \/ DelayedConnect \/ Refused \/ AppStarts
           \/ \E c \in Conns : Serve(c)
           \/ UNCHANGED vars
  BY <1>1, LineIdle
     DEF DelayedConnect, Refused, AppStarts, Serve, vars, client, wire, server
<1> QED
  BY <1>1, SendLine, BeginDrainLine, PollLine, SendTextLine, AstrayLine, DispatchLine,
     GoneLine, EstablishedLine, AdoptLine, NoticeLine DEF Next

\* What the application shows is what the player sent last as soon as nothing is on its
\* way, unless a frame was dropped with its connection, two threads or connections carried
\* frames at once, a side was restarted, or a frame of another kind found the queue full and
\* the last selection at its head: reconnecting, sending while offline and an overflow that
\* pushes out anything else (UplinkClient.send, drain) never cost the newest selection, for
\* every length of the queue and every mix of frames.
THEOREM UplinkAgreedUnlessAstray == Spec => []AgreedUnlessAstray
<1>1. Init => LineInv
  <2> SUFFICES ASSUME Init PROVE LineInv
    OBVIOUS
  <2>1. /\ Carried /\ running /\ adopting = {} /\ socket = None /\ shown = latest
        /\ pending = <<>>
        /\ \A t \in Threads : drains[t].live = None /\ drains[t].frame = None
        /\ \A c \in Conns : link[c] = "closed" /\ channel[c] = <<>>
    BY UplinkAssumption DEF Init, Carried, Idle
  <2>2. latest = shown /\ ~ Chosen(pending) /\ \A c \in Conns : ~ Chosen(channel[c])
    BY <2>1 DEF Chosen
  <2> QED BY <2>1, <2>2, OtherFrames DEF LineInv, PipeInv, OneWay, Newest, Frame
<1>2. LineInv => AgreedUnlessAstray
  <2> SUFFICES ASSUME LineInv, astray = {}, Quiet PROVE shown = latest
    BY DEF AgreedUnlessAstray, Agreed
  <2>1. NoneUnread
    BY OtherFrames DEF Quiet, NoneUnread, NoneHeld, NoneWaits, Chosen, Frame
  <2> QED BY <2>1 DEF LineInv, PipeInv, Newest
<1> QED BY <1>1, <1>2, LineStep, OthersCounted, PTL DEF Spec

=============================================================================
