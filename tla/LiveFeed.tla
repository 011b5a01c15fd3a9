------------------------------ MODULE LiveFeed ------------------------------
(***************************************************************************)
(* The event feed of a live room: the server's registry of one WebSocket   *)
(* per viewer, the sockets StudentLiveSession opens, and the pulse checks  *)
(* of PulseModal that travel over them.                                    *)
(***************************************************************************)
EXTENDS Integers, Sequences, FiniteSets

CONSTANTS
  Viewers,
  MaxSockets,    \* bound: sockets one viewer opens
  MaxPulses,     \* bound: pulse checks of the session
  MaxInbox       \* bound: messages on the way to one viewer

ASSUME FeedAssumption == MaxSockets \in Nat /\ MaxPulses \in Nat /\ MaxInbox \in Nat

VARIABLES
  opened,        \* per viewer: sockets opened so far; the last is the current one
  broken,        \* per viewer: the network cut the current socket off
  atServer,      \* per viewer: the sockets whose handler runs on the server
  gone,          \* per viewer: the sockets whose handler has ended
  registry,      \* active_connections: the socket messages go to, or 0
  inbox,         \* per viewer: messages on the way on the current socket
  pulses,        \* live_pulse_checks, in order: "active" or "closed"
  closing,       \* pulses closed, whose insight is being generated
  overlay,       \* per viewer: [pulse, sent]
  hides,         \* per viewer: 8 s timers running, by the pulse whose close set them
  answers,       \* live_pulse_responses: pairs of viewer and pulse
  since,         \* per viewer: pulses sent before he was first registered
  hiddenEarly    \* per viewer: a timer of an earlier pulse hid a later one

feedVars == <<opened, broken, atServer, gone, registry, inbox, pulses, closing, overlay,
              hides, answers, since, hiddenEarly>>
serverSockets == <<atServer, gone, registry>>

NoPulse == 0
Pulses == DOMAIN pulses
Active == {p \in Pulses : pulses[p] = "active"}
Blank == [pulse |-> NoPulse, sent |-> FALSE]

Sockets == 1..MaxSockets
PulseIds == 1..MaxPulses
Messages == [type : {"started", "closed"}, pulse : PulseIds]

\* Types of the variables.
FeedTypeOK ==
  /\ opened \in [Viewers -> 0..MaxSockets] /\ broken \in [Viewers -> BOOLEAN]
  /\ atServer \in [Viewers -> SUBSET Sockets] /\ gone \in [Viewers -> SUBSET Sockets]
  /\ registry \in [Viewers -> 0..MaxSockets]
  /\ inbox \in [Viewers -> Seq(Messages)]
  /\ \A v \in Viewers : Len(inbox[v]) <= MaxInbox
  /\ pulses \in Seq({"active", "closed"}) /\ Len(pulses) <= MaxPulses
  /\ closing \in SUBSET PulseIds
  /\ overlay \in [Viewers -> [pulse : PulseIds \union {NoPulse}, sent : BOOLEAN]]
  /\ hides \in [Viewers -> SUBSET PulseIds]
  /\ answers \in SUBSET (Viewers \X PulseIds)
  /\ since \in [Viewers -> PulseIds \union {NoPulse}]
  /\ hiddenEarly \in [Viewers -> BOOLEAN]

FeedInit ==
  /\ opened = [v \in Viewers |-> 0]
  /\ broken = [v \in Viewers |-> FALSE]
  /\ atServer = [v \in Viewers |-> {}]
  /\ gone = [v \in Viewers |-> {}]
  /\ registry = [v \in Viewers |-> 0]
  /\ inbox = [v \in Viewers |-> << >>]
  /\ pulses = << >>
  /\ closing = {}
  /\ overlay = [v \in Viewers |-> Blank]
  /\ hides = [v \in Viewers |-> {}]
  /\ answers = {}
  /\ since = [v \in Viewers |-> 0]
  /\ hiddenEarly = [v \in Viewers |-> FALSE]

\* A message reaches the viewer when the registered socket is the one he holds
\* and the network carries it.
Broadcast(msg) ==
  /\ \A v \in Viewers : Len(inbox[v]) < MaxInbox
  /\ inbox' = [v \in Viewers |-> IF registry[v] # 0 /\ registry[v] = opened[v] /\ ~broken[v]
                                 THEN Append(inbox[v], msg) ELSE inbox[v]]

\* The effect closes the socket it opened before and opens a new one; it runs
\* again when the joined session or the user becomes known.
OpenSocket(v) ==
  /\ opened[v] < MaxSockets
  /\ opened' = [opened EXCEPT ![v] = @ + 1]
  /\ broken' = [broken EXCEPT ![v] = FALSE]
  /\ inbox' = [inbox EXCEPT ![v] = << >>]
  /\ UNCHANGED <<serverSockets, pulses, closing, overlay, hides, answers, since, hiddenEarly>>

\* onclose opens no other socket: only the effect does.
Cut(v) ==
  /\ opened[v] # 0 /\ ~broken[v]
  /\ broken' = [broken EXCEPT ![v] = TRUE]
  /\ inbox' = [inbox EXCEPT ![v] = << >>]
  /\ UNCHANGED <<opened, serverSockets, pulses, closing, overlay, hides, answers, since,
                 hiddenEarly>>

\* A handshake is accepted, be it of a socket that the page has closed since.
Connect(v, s) ==
  /\ s \in 1..opened[v] \ (atServer[v] \union gone[v])
  /\ atServer' = [atServer EXCEPT ![v] = @ \union {s}]
  /\ registry' = [registry EXCEPT ![v] = s]
  /\ since' = [since EXCEPT ![v] = IF s = 1 THEN Len(pulses) ELSE @]
  /\ UNCHANGED <<opened, broken, gone, inbox, pulses, closing, overlay, hides, answers,
                 hiddenEarly>>

\* A handler ends when its socket is closed or cut off.
MayEnd(v, s) == s \in atServer[v] /\ (s # opened[v] \/ broken[v])

\* Mutant of Disconnect: the handler of a closed socket leaves the registry alone.
DisconnectOnly(v, s) ==
  /\ MayEnd(v, s)
  /\ atServer' = [atServer EXCEPT ![v] = @ \ {s}]
  /\ gone' = [gone EXCEPT ![v] = @ \union {s}]
  /\ UNCHANGED <<opened, broken, registry, inbox, pulses, closing, overlay, hides, answers,
                 since, hiddenEarly>>

\* The user's entry goes, whichever socket it holds.
Disconnect(v, s) ==
  /\ MayEnd(v, s)
  /\ atServer' = [atServer EXCEPT ![v] = @ \ {s}]
  /\ gone' = [gone EXCEPT ![v] = @ \union {s}]
  /\ registry' = [registry EXCEPT ![v] = 0]
  /\ UNCHANGED <<opened, broken, inbox, pulses, closing, overlay, hides, answers, since,
                 hiddenEarly>>

\* An active pulse is closed without a word; the new one is announced.
SendPulse ==
  /\ Len(pulses) < MaxPulses
  /\ pulses' = Append([p \in Pulses |-> "closed"], "active")
  /\ Broadcast([type |-> "started", pulse |-> Len(pulses) + 1])
  /\ UNCHANGED <<opened, broken, serverSockets, closing, overlay, hides, answers, since, hiddenEarly>>

\* The teacher's close, which he may repeat, and the background task: the row
\* first, then the AI insight is awaited, then the close is announced.
ClosePulse(p) ==
  /\ p = Len(pulses)
  /\ pulses' = [pulses EXCEPT ![p] = "closed"]
  /\ closing' = closing \union {p}
  /\ UNCHANGED <<opened, broken, serverSockets, inbox, overlay, hides, answers, since, hiddenEarly>>

AnnounceClose(p) ==
  /\ p \in closing
  /\ closing' = closing \ {p}
  /\ Broadcast([type |-> "closed", pulse |-> p])
  /\ UNCHANGED <<opened, broken, serverSockets, pulses, overlay, hides, answers, since, hiddenEarly>>

\* Mutant of Receive: the overlay goes with the close, without the 8 s of the results.
ReceiveHides(v) ==
  /\ inbox[v] # << >>
  /\ overlay' = [overlay EXCEPT ![v] =
       IF Head(inbox[v]).type = "started" THEN [pulse |-> Head(inbox[v]).pulse, sent |-> FALSE]
       ELSE Blank]
  /\ inbox' = [inbox EXCEPT ![v] = Tail(@)]
  /\ UNCHANGED <<opened, broken, serverSockets, pulses, closing, hides, answers, since, hiddenEarly>>

\* onmessage: the overlay is not compared with the pulse that was closed.
Receive(v) ==
  /\ inbox[v] # << >>
  /\ LET msg == Head(inbox[v]) IN
       IF msg.type = "started"
         THEN /\ overlay' = [overlay EXCEPT ![v] = [pulse |-> msg.pulse, sent |-> FALSE]]
              /\ UNCHANGED hides
         ELSE /\ hides' = [hides EXCEPT ![v] = @ \union {msg.pulse}]
              /\ UNCHANGED overlay
  /\ inbox' = [inbox EXCEPT ![v] = Tail(@)]
  /\ UNCHANGED <<opened, broken, serverSockets, pulses, closing, answers, since, hiddenEarly>>

HideFires(v, p) ==
  /\ p \in hides[v]
  /\ hides' = [hides EXCEPT ![v] = @ \ {p}]
  /\ overlay' = [overlay EXCEPT ![v].pulse = NoPulse]
  /\ hiddenEarly' = [hiddenEarly EXCEPT ![v] = @ \/ overlay[v].pulse > p]
  /\ UNCHANGED <<opened, broken, serverSockets, inbox, pulses, closing, answers, since>>

\* submitLivePulse: taken while the pulse is active and unanswered; a refusal
\* lets the student choose again.
Answer(v) ==
  /\ overlay[v].pulse # NoPulse
  /\ ~overlay[v].sent
  /\ overlay[v].pulse \in Active
  /\ <<v, overlay[v].pulse>> \notin answers
  /\ answers' = answers \union {<<v, overlay[v].pulse>>}
  /\ overlay' = [overlay EXCEPT ![v].sent = TRUE]
  /\ UNCHANGED <<opened, broken, serverSockets, inbox, pulses, closing, hides, since, hiddenEarly>>

FeedNext ==
  \/ SendPulse
  \/ \E p \in Pulses : ClosePulse(p) \/ AnnounceClose(p)
  \/ \E v \in Viewers :
       \/ OpenSocket(v) \/ Cut(v) \/ Receive(v) \/ Answer(v)
       \/ \E s \in 1..MaxSockets : Connect(v, s) \/ Disconnect(v, s)
       \/ \E p \in Pulses : HideFires(v, p)

\* A viewer whose page opened one socket, still whole, sees the pulse that is
\* running, once its messages have arrived, unless the 8 s timer of an earlier
\* pulse ran out on it; with several sockets a late disconnect may cut him off.
RunningPulseShown ==
  \A v \in Viewers : \A p \in Active :
    /\ opened[v] = 1 /\ ~broken[v] /\ 1 \in atServer[v]
    /\ since[v] < p /\ inbox[v] = << >> /\ ~hiddenEarly[v]
    => overlay[v].pulse = p

\* Whatever the order of connects and disconnects, no message is sent to a
\* socket whose handler has ended, and no viewer is cut off before a socket
\* of his has closed.
RegistryHoldsOpenSocket ==
  \A v \in Viewers :
    /\ registry[v] # 0 => registry[v] \in atServer[v]
    /\ registry[v] = 0 /\ atServer[v] # {} => gone[v] # {}

FeedSpec == FeedInit /\ [][FeedNext]_feedVars
=============================================================================
