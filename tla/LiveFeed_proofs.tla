-------------------------- MODULE LiveFeed_proofs --------------------------
(***************************************************************************)
(* Proofs about LiveFeed, for any viewers, sockets, pulses and messages.   *)
(***************************************************************************)
EXTENDS LiveFeed, SequenceTheorems, TLAPS

-----------------------------------------------------------------------------
(* Sequences of messages *)

LEMMA Appended ==
    ASSUME NEW S, NEW q \in Seq(S), NEW x \in S
    PROVE  LET new == Append(q, x) IN
           /\ new \in Seq(S) /\ Len(new) = Len(q) + 1
           /\ DOMAIN new = 1 .. Len(q) + 1
           /\ \A i \in DOMAIN q : i \in DOMAIN new /\ new[i] = q[i]
           /\ new[Len(q) + 1] = x
  <1>1. Len(q) \in Nat /\ DOMAIN q = 1 .. Len(q)
    BY LenProperties
  <1>2. /\ Append(q, x) \in Seq(S) /\ Len(Append(q, x)) = Len(q) + 1
        /\ \A i \in 1 .. Len(q) : Append(q, x)[i] = q[i]
        /\ Append(q, x)[Len(q) + 1] = x
    BY AppendProperties
  <1>3. DOMAIN Append(q, x) = 1 .. Len(Append(q, x))
    BY <1>2, LenProperties
  <1> QED  BY <1>1, <1>2, <1>3

LEMMA Consumed ==
    ASSUME NEW S, NEW q \in Seq(S), q # << >>
    PROVE  /\ 1 \in DOMAIN q /\ Head(q) = q[1] /\ Head(q) \in S
           /\ Tail(q) \in Seq(S) /\ Len(Tail(q)) = Len(q) - 1
           /\ \A i \in DOMAIN Tail(q) : i \in Nat /\ i + 1 \in DOMAIN q /\ Tail(q)[i] = q[i + 1]
           /\ \A i \in DOMAIN q : i # 1 => i - 1 \in DOMAIN Tail(q) /\ Tail(q)[i - 1] = q[i]
  <1>1. Len(q) \in Nat /\ DOMAIN q = 1 .. Len(q) /\ Len(q) # 0
    BY LenProperties, EmptySeq
  <1>2. /\ Head(q) \in S /\ Tail(q) \in Seq(S) /\ Len(Tail(q)) = Len(q) - 1
        /\ Head(q) = q[1]
        /\ \A i \in 1 .. Len(Tail(q)) : Tail(q)[i] = q[i + 1]
    BY HeadTailProperties
  <1>3. DOMAIN Tail(q) = 1 .. Len(q) - 1
    BY <1>2, LenProperties
  <1> QED  BY <1>1, <1>2, <1>3

-----------------------------------------------------------------------------
(* The registry *)

\* Types of the variables the registry is about.
RegistryTypes ==
  /\ atServer \in [Viewers -> SUBSET Sockets] /\ gone \in [Viewers -> SUBSET Sockets]
  /\ registry \in [Viewers -> 0..MaxSockets]

RegistryInv == RegistryTypes /\ RegistryHoldsOpenSocket

LEMMA RegistryStep == RegistryInv /\ [FeedNext]_feedVars => RegistryInv'
  <1> SUFFICES ASSUME RegistryInv, [FeedNext]_feedVars PROVE RegistryInv'
    OBVIOUS
  <1>1. CASE UNCHANGED serverSockets
    BY <1>1 DEF RegistryInv, RegistryTypes, RegistryHoldsOpenSocket, serverSockets
  <1>2. ASSUME NEW v \in Viewers, NEW s \in 1..MaxSockets, Connect(v, s) PROVE RegistryInv'
    <2>1. s \in Sockets /\ s \in 0..MaxSockets /\ s # 0
      BY FeedAssumption DEF Sockets
    <2>2. RegistryTypes'
      BY <1>2, <2>1 DEF Connect, RegistryInv, RegistryTypes
    <2>3. RegistryHoldsOpenSocket'
      BY <1>2, <2>1 DEF Connect, RegistryInv, RegistryTypes, RegistryHoldsOpenSocket
    <2> QED  BY <2>2, <2>3 DEF RegistryInv
  <1>3. ASSUME NEW v \in Viewers, NEW s \in 1..MaxSockets, Disconnect(v, s) PROVE RegistryInv'
    <2>1. s \in Sockets /\ 0 \in 0..MaxSockets
      BY FeedAssumption DEF Sockets
    <2>2. RegistryTypes'
      BY <1>3, <2>1 DEF Disconnect, RegistryInv, RegistryTypes
    <2>3. RegistryHoldsOpenSocket'
      BY <1>3, <2>1 DEF Disconnect, RegistryInv, RegistryTypes, RegistryHoldsOpenSocket
    <2> QED  BY <2>2, <2>3 DEF RegistryInv
  <1>4. CASE SendPulse \/ (\E p \in Pulses : ClosePulse(p) \/ AnnounceClose(p))
    BY <1>1, <1>4 DEF SendPulse, ClosePulse, AnnounceClose
  <1>5. ASSUME NEW v \in Viewers, OpenSocket(v) \/ Cut(v) \/ Receive(v) \/ Answer(v) PROVE RegistryInv'
    BY <1>1, <1>5 DEF OpenSocket, Cut, Receive, Answer
  <1>6. ASSUME NEW v \in Viewers, NEW p \in Pulses, HideFires(v, p) PROVE RegistryInv'
    BY <1>1, <1>6 DEF HideFires
  <1>7. CASE UNCHANGED feedVars
    BY <1>1, <1>7 DEF feedVars, serverSockets
  <1> QED  BY <1>2, <1>3, <1>4, <1>5, <1>6, <1>7 DEF FeedNext

\* The registry never points to a socket whose handler has ended, and forgets no
\* viewer who has not lost a socket.
THEOREM RegistryHolds == FeedSpec => []RegistryHoldsOpenSocket
  <1>1. FeedInit => RegistryInv
    BY FeedAssumption DEF FeedInit, RegistryInv, RegistryTypes, RegistryHoldsOpenSocket
  <1>2. RegistryInv => RegistryHoldsOpenSocket
    BY DEF RegistryInv
  <1> QED  BY <1>1, <1>2, RegistryStep, PTL DEF FeedSpec

-----------------------------------------------------------------------------
(* Types *)

LEMMA FeedTypeStep == FeedTypeOK /\ [FeedNext]_feedVars => FeedTypeOK'
  <1> SUFFICES ASSUME FeedTypeOK, [FeedNext]_feedVars PROVE FeedTypeOK'
    OBVIOUS
  <1> USE FeedAssumption
  <1>p. Len(pulses) \in 0..MaxPulses /\ Pulses = 1 .. Len(pulses) /\ Pulses \subseteq PulseIds
    BY LenProperties DEF FeedTypeOK, Pulses, PulseIds
  <1>b. ASSUME NEW msg \in Messages, Broadcast(msg)
        PROVE  inbox' \in [Viewers -> Seq(Messages)] /\ \A v \in Viewers : Len(inbox'[v]) <= MaxInbox
    <2>1. ASSUME NEW v \in Viewers
          PROVE  /\ inbox[v] \in Seq(Messages) /\ Len(inbox[v]) \in Nat /\ Len(inbox[v]) < MaxInbox
                 /\ Append(inbox[v], msg) \in Seq(Messages)
                 /\ Len(Append(inbox[v], msg)) = Len(inbox[v]) + 1
      BY <1>b, LenProperties, AppendProperties DEF Broadcast, FeedTypeOK
    <2> QED  BY <1>b, <2>1 DEF Broadcast
  <1>1. CASE SendPulse
    <2>1. [p \in Pulses |-> "closed"] \in Seq({"active", "closed"})
          /\ Len([p \in Pulses |-> "closed"]) = Len(pulses)
      <3>1. [p \in Pulses |-> "closed"] \in [1 .. Len(pulses) -> {"active", "closed"}]
        BY <1>p
      <3> QED  BY <1>p, <3>1, SeqDef, LenProperties
    <2>2. pulses' \in Seq({"active", "closed"}) /\ Len(pulses') = Len(pulses) + 1
      BY <1>1, <2>1, AppendProperties DEF SendPulse
    <2>3. Len(pulses') <= MaxPulses
      BY <1>1, <1>p, <2>2 DEF SendPulse
    <2>4. [type |-> "started", pulse |-> Len(pulses) + 1] \in Messages
      BY <1>1, <1>p DEF SendPulse, Messages, PulseIds
    <2>5. inbox' \in [Viewers -> Seq(Messages)] /\ \A v \in Viewers : Len(inbox'[v]) <= MaxInbox
      BY <1>1, <1>b, <2>4 DEF SendPulse
    <2> QED  BY <1>1, <2>2, <2>3, <2>5 DEF SendPulse, FeedTypeOK, serverSockets
  <1>2. ASSUME NEW p \in Pulses, ClosePulse(p) PROVE FeedTypeOK'
    <2>1. pulses' \in Seq({"active", "closed"}) /\ Len(pulses') = Len(pulses)
      <3>1. pulses' \in [1 .. Len(pulses) -> {"active", "closed"}]
        BY <1>2, <1>p, LenProperties DEF ClosePulse, FeedTypeOK
      <3> QED  BY <1>p, <3>1, SeqDef, LenProperties
    <2> QED  BY <1>2, <1>p, <2>1 DEF ClosePulse, FeedTypeOK, serverSockets
  <1>3. ASSUME NEW p \in Pulses, AnnounceClose(p) PROVE FeedTypeOK'
    <2>1. [type |-> "closed", pulse |-> p] \in Messages
      BY <1>p DEF Messages
    <2>2. inbox' \in [Viewers -> Seq(Messages)] /\ \A v \in Viewers : Len(inbox'[v]) <= MaxInbox
      BY <1>3, <1>b, <2>1 DEF AnnounceClose
    <2> QED  BY <1>3, <2>2 DEF AnnounceClose, FeedTypeOK, serverSockets
  <1>4. ASSUME NEW v \in Viewers, OpenSocket(v) PROVE FeedTypeOK'
    <2>1. inbox' \in [Viewers -> Seq(Messages)] /\ \A u \in Viewers : Len(inbox'[u]) <= MaxInbox
      BY <1>4, EmptySeq DEF OpenSocket, FeedTypeOK
    <2>2. opened[v] + 1 \in 0..MaxSockets
      BY <1>4 DEF OpenSocket, FeedTypeOK
    <2>3. opened' \in [Viewers -> 0..MaxSockets] /\ broken' \in [Viewers -> BOOLEAN]
      BY <1>4, <2>2 DEF OpenSocket, FeedTypeOK
    <2> QED  BY <1>4, <2>1, <2>3 DEF OpenSocket, FeedTypeOK, serverSockets
  <1>5. ASSUME NEW v \in Viewers, Cut(v) PROVE FeedTypeOK'
    <2>1. inbox' \in [Viewers -> Seq(Messages)] /\ \A u \in Viewers : Len(inbox'[u]) <= MaxInbox
      BY <1>5, EmptySeq DEF Cut, FeedTypeOK
    <2>2. broken' \in [Viewers -> BOOLEAN]
      BY <1>5 DEF Cut, FeedTypeOK
    <2> QED  BY <1>5, <2>1, <2>2 DEF Cut, FeedTypeOK, serverSockets
  <1>6. ASSUME NEW v \in Viewers, NEW s \in 1..MaxSockets, Connect(v, s) PROVE FeedTypeOK'
    <2>1. Len(pulses) \in PulseIds \union {NoPulse} /\ s \in Sockets /\ s \in 0..MaxSockets
      BY <1>p DEF PulseIds, NoPulse, Sockets
    <2>2. /\ atServer' \in [Viewers -> SUBSET Sockets] /\ registry' \in [Viewers -> 0..MaxSockets]
          /\ since' \in [Viewers -> PulseIds \union {NoPulse}]
      BY <1>6, <2>1 DEF Connect, FeedTypeOK
    <2> QED  BY <1>6, <2>2 DEF Connect, FeedTypeOK
  <1>7. ASSUME NEW v \in Viewers, NEW s \in 1..MaxSockets, Disconnect(v, s) PROVE FeedTypeOK'
    <2>1. s \in Sockets /\ 0 \in 0..MaxSockets
      BY DEF Sockets
    <2>2. /\ atServer' \in [Viewers -> SUBSET Sockets] /\ registry' \in [Viewers -> 0..MaxSockets]
          /\ gone' \in [Viewers -> SUBSET Sockets]
      BY <1>7, <2>1 DEF Disconnect, FeedTypeOK
    <2> QED  BY <1>7, <2>2 DEF Disconnect, FeedTypeOK
  <1>8. ASSUME NEW v \in Viewers, Receive(v) PROVE FeedTypeOK'
    <2>1. /\ Head(inbox[v]) \in Messages /\ Tail(inbox[v]) \in Seq(Messages)
          /\ Len(Tail(inbox[v])) = Len(inbox[v]) - 1
      BY <1>8, HeadTailProperties DEF Receive, FeedTypeOK
    <2>2. Head(inbox[v]).pulse \in PulseIds
      BY <2>1 DEF Messages
    <2>3. inbox' = [inbox EXCEPT ![v] = Tail(inbox[v])]
      BY <1>8 DEF Receive
    <2>4. inbox' \in [Viewers -> Seq(Messages)]
      BY <2>1, <2>3 DEF FeedTypeOK
    <2>5. \A u \in Viewers : Len(inbox[u]) \in Nat /\ Len(inbox[u]) <= MaxInbox
      BY LenProperties DEF FeedTypeOK
    <2>6. \A u \in Viewers : Len(inbox'[u]) <= MaxInbox
      BY <2>1, <2>3, <2>5 DEF FeedTypeOK
    <2>7. /\ overlay' \in [Viewers -> [pulse : PulseIds \union {NoPulse}, sent : BOOLEAN]]
          /\ hides' \in [Viewers -> SUBSET PulseIds]
      <3>1. /\ overlay' \in {overlay, [overlay EXCEPT ![v] = [pulse |-> Head(inbox[v]).pulse, sent |-> FALSE]]}
            /\ hides' \in {hides, [hides EXCEPT ![v] = @ \union {Head(inbox[v]).pulse}]}
        BY <1>8 DEF Receive
      <3>2. [pulse |-> Head(inbox[v]).pulse, sent |-> FALSE] \in [pulse : PulseIds \union {NoPulse}, sent : BOOLEAN]
        BY <2>2
      <3>3. overlay' \in [Viewers -> [pulse : PulseIds \union {NoPulse}, sent : BOOLEAN]]
        BY <3>1, <3>2 DEF FeedTypeOK
      <3>4. hides' \in [Viewers -> SUBSET PulseIds]
        <4>1. hides \in [Viewers -> SUBSET PulseIds] /\ hides[v] \union {Head(inbox[v]).pulse} \in SUBSET PulseIds
          BY <2>2 DEF FeedTypeOK
        <4> QED  BY <3>1, <4>1
      <3> QED  BY <3>3, <3>4
    <2> QED  BY <1>8, <2>4, <2>6, <2>7 DEF Receive, FeedTypeOK, serverSockets
  <1>9. ASSUME NEW v \in Viewers, NEW p \in Pulses, HideFires(v, p) PROVE FeedTypeOK'
    <2>1. /\ overlay' \in [Viewers -> [pulse : PulseIds \union {NoPulse}, sent : BOOLEAN]]
          /\ hides' \in [Viewers -> SUBSET PulseIds]
      BY <1>9 DEF HideFires, FeedTypeOK
    <2>2. hiddenEarly' \in [Viewers -> BOOLEAN]
      BY <1>9 DEF HideFires, FeedTypeOK
    <2> QED  BY <1>9, <2>1, <2>2 DEF HideFires, FeedTypeOK, serverSockets
  <1>10. ASSUME NEW v \in Viewers, Answer(v) PROVE FeedTypeOK'
    <2>1. overlay[v].pulse \in PulseIds
      BY <1>10 DEF Answer, FeedTypeOK
    <2>2. overlay' \in [Viewers -> [pulse : PulseIds \union {NoPulse}, sent : BOOLEAN]]
      BY <1>10 DEF Answer, FeedTypeOK
    <2>3. answers' \in SUBSET (Viewers \X PulseIds)
      BY <1>10, <2>1 DEF Answer, FeedTypeOK
    <2> QED  BY <1>10, <2>2, <2>3 DEF Answer, FeedTypeOK, serverSockets
  <1>11. CASE UNCHANGED feedVars
    BY <1>11 DEF feedVars, FeedTypeOK
  <1> QED
    BY <1>1, <1>2, <1>3, <1>4, <1>5, <1>6, <1>7, <1>8, <1>9, <1>10, <1>11 DEF FeedNext

LEMMA FeedStart == FeedInit => FeedTypeOK
  <1> SUFFICES ASSUME FeedInit PROVE FeedTypeOK
    OBVIOUS
  <1>1. 0 \in 0..MaxSockets /\ 0 <= MaxPulses /\ 0 <= MaxInbox
    BY FeedAssumption
  <1>2. << >> \in Seq(Messages) /\ << >> \in Seq({"active", "closed"}) /\ Len(<< >>) = 0
    BY EmptySeq
  <1> QED  BY <1>1, <1>2 DEF FeedInit, FeedTypeOK, Blank, NoPulse

\* Every variable of the feed keeps its type.
THEOREM FeedTypes == FeedSpec => []FeedTypeOK
  BY FeedStart, FeedTypeStep, PTL DEF FeedSpec

-----------------------------------------------------------------------------
(* A running pulse is shown *)

Started(q, p) == \E i \in DOMAIN q : q[i].type = "started" /\ q[i].pulse = p

\* Only the last pulse runs; what has been closed, or is said to be, stays so.
PulsesInOrder ==
  /\ \A p \in Pulses : pulses[p] = "active" => p = Len(pulses)
  /\ \A p \in closing : p \in Pulses /\ pulses[p] = "closed"
  /\ \A v \in Viewers : \A p \in hides[v] : p \in Pulses /\ pulses[p] = "closed"
  /\ \A v \in Viewers : overlay[v].pulse <= Len(pulses)

\* Messages are about pulses sent before, announced one after the other, and
\* later than the one on screen.
MessagesInOrder ==
  \A v \in Viewers :
    /\ \A i \in DOMAIN inbox[v] :
         /\ inbox[v][i].pulse \in Pulses
         /\ inbox[v][i].type = "closed" => pulses[inbox[v][i].pulse] = "closed"
         /\ inbox[v][i].type = "started" => overlay[v].pulse < inbox[v][i].pulse
    /\ \A i, j \in DOMAIN inbox[v] :
         i < j /\ inbox[v][i].type = "started" /\ inbox[v][j].type = "started"
           => inbox[v][i].pulse < inbox[v][j].pulse

\* The one socket of a viewer is the registered one as long as it is whole.
FirstSocketRegistered ==
  \A v \in Viewers :
    /\ atServer[v] \subseteq 1 .. opened[v]
    /\ opened[v] = 1 /\ ~broken[v] /\ 1 \in atServer[v] => registry[v] = 1

\* The running pulse is on screen, or its announcement is on the way.
PulseReaches ==
  \A v \in Viewers : \A p \in Active :
    opened[v] = 1 /\ ~broken[v] /\ 1 \in atServer[v] /\ since[v] < p /\ ~hiddenEarly[v]
      => overlay[v].pulse = p \/ Started(inbox[v], p)

FInv == PulsesInOrder /\ MessagesInOrder /\ FirstSocketRegistered /\ PulseReaches

LEMMA PulseFacts ==
    ASSUME FeedTypeOK
    PROVE  /\ Len(pulses) \in Nat /\ Pulses = 1 .. Len(pulses)
           /\ \A p \in Pulses : pulses[p] \in {"active", "closed"}
           /\ \A v \in Viewers : inbox[v] \in Seq(Messages) /\ overlay[v].pulse \in Nat
  BY FeedAssumption, LenProperties DEF FeedTypeOK, Pulses, PulseIds, NoPulse

\* What a step leaves alone keeps the invariant.
LEMMA FeedUnchanged ==
    ASSUME FInv, UNCHANGED <<opened, broken, atServer, registry, inbox, pulses, closing, overlay,
                             hides, since, hiddenEarly>>
    PROVE  FInv'
  BY DEF FInv, PulsesInOrder, MessagesInOrder, FirstSocketRegistered, PulseReaches, Pulses, Active,
         Started

LEMMA SendStep == FeedTypeOK /\ FInv /\ SendPulse => FInv'
  <1> SUFFICES ASSUME FeedTypeOK, FInv, SendPulse PROVE FInv'
    OBVIOUS
  <1> DEFINE n == Len(pulses) + 1  msg == [type |-> "started", pulse |-> n]
  <1>1. /\ Len(pulses) \in Nat /\ Pulses = 1 .. Len(pulses)
        /\ \A v \in Viewers : inbox[v] \in Seq(Messages) /\ overlay[v].pulse \in Nat
    BY PulseFacts
  <1>2. /\ Len(pulses') = n /\ Pulses' = 1 .. n /\ pulses'[n] = "active"
        /\ \A p \in Pulses : pulses'[p] = "closed"
    <2>1. [p \in Pulses |-> "closed"] \in Seq({"active", "closed"})
          /\ Len([p \in Pulses |-> "closed"]) = Len(pulses)
      <3>1. [p \in Pulses |-> "closed"] \in [1 .. Len(pulses) -> {"active", "closed"}]
        BY <1>1
      <3> QED  BY <1>1, <3>1, SeqDef, LenProperties
    <2> QED  BY <1>1, <2>1, Appended DEF SendPulse, Pulses
  <1>3. msg \in Messages
    BY <1>1, FeedAssumption DEF SendPulse, Messages, PulseIds, FeedTypeOK
  <1>4. ASSUME NEW v \in Viewers
        PROVE  \/ inbox'[v] = inbox[v]
               \/ /\ DOMAIN inbox'[v] = DOMAIN inbox[v] \union {Len(inbox[v]) + 1}
                  /\ \A i \in DOMAIN inbox[v] : inbox'[v][i] = inbox[v][i] /\ i < Len(inbox[v]) + 1
                  /\ inbox'[v][Len(inbox[v]) + 1] = msg
    <2>1. inbox'[v] = inbox[v] \/ inbox'[v] = Append(inbox[v], msg)
      BY DEF SendPulse, Broadcast
    <2>2. DOMAIN inbox[v] = 1 .. Len(inbox[v]) /\ Len(inbox[v]) \in Nat
      BY <1>1, LenProperties
    <2> QED  BY <1>1, <1>3, <2>1, <2>2, Appended
  <1>5. UNCHANGED <<opened, broken, atServer, registry, closing, overlay, hides, since, hiddenEarly>>
    BY DEF SendPulse, serverSockets
  <1> HIDE DEF n
  <1>n. n = Len(pulses) + 1
    BY DEF n
  <1>6. PulsesInOrder'
    BY <1>1, <1>2, <1>5, <1>n DEF FInv, PulsesInOrder
  <1>7. ASSUME NEW v \in Viewers, NEW i \in DOMAIN inbox[v]
        PROVE  inbox[v][i].pulse \in Pulses /\ inbox[v][i].pulse < n /\ inbox[v][i].pulse \in Pulses'
    BY <1>1, <1>2, <1>n DEF FInv, MessagesInOrder
  <1>8. MessagesInOrder'
    <2>1. ASSUME NEW v \in Viewers, NEW i \in DOMAIN inbox'[v]
          PROVE  \/ i \in DOMAIN inbox[v] /\ inbox'[v][i] = inbox[v][i]
                 \/ /\ inbox'[v][i] = msg
                    /\ \A j \in DOMAIN inbox'[v] : i < j => FALSE
      <3>1. DOMAIN inbox[v] = 1 .. Len(inbox[v]) /\ Len(inbox[v]) \in Nat
        BY <1>1, LenProperties
      <3> QED  BY <1>4, <3>1
    <2>2. ASSUME NEW v \in Viewers, NEW i \in DOMAIN inbox'[v]
          PROVE  /\ inbox'[v][i].pulse \in Pulses'
                 /\ inbox'[v][i].type = "closed" => pulses'[inbox'[v][i].pulse] = "closed"
                 /\ inbox'[v][i].type = "started" => overlay'[v].pulse < inbox'[v][i].pulse
      <3>1. CASE i \in DOMAIN inbox[v] /\ inbox'[v][i] = inbox[v][i]
        BY <3>1, <1>2, <1>5, <1>7 DEF FInv, MessagesInOrder
      <3>2. CASE inbox'[v][i] = msg
        BY <3>2, <1>1, <1>2, <1>5, <1>n DEF FInv, PulsesInOrder
      <3> QED  BY <2>1, <3>1, <3>2
    <2>3. ASSUME NEW v \in Viewers, NEW i \in DOMAIN inbox'[v], NEW j \in DOMAIN inbox'[v],
                 i < j, inbox'[v][i].type = "started", inbox'[v][j].type = "started"
          PROVE  inbox'[v][i].pulse < inbox'[v][j].pulse
      <3>1. i \in DOMAIN inbox[v] /\ inbox'[v][i] = inbox[v][i]
        BY <2>1, <2>3
      <3>2. CASE j \in DOMAIN inbox[v] /\ inbox'[v][j] = inbox[v][j]
        BY <2>3, <3>1, <3>2 DEF FInv, MessagesInOrder
      <3>3. CASE inbox'[v][j] = msg
        BY <3>1, <3>3, <1>7
      <3> QED  BY <2>1, <3>2, <3>3
    <2> QED  BY <2>2, <2>3 DEF MessagesInOrder
  <1>9. FirstSocketRegistered'
    BY <1>5 DEF FInv, FirstSocketRegistered
  <1>10. PulseReaches'
    <2> SUFFICES ASSUME NEW v \in Viewers, opened[v] = 1, ~broken[v], 1 \in atServer[v]
                 PROVE  Started(inbox'[v], n)
      BY <1>1, <1>2, <1>5, <1>n DEF PulseReaches, Active
    <2>1. registry[v] = 1
      BY DEF FInv, FirstSocketRegistered
    <2>2. inbox'[v] = Append(inbox[v], msg)
      BY <2>1 DEF SendPulse, Broadcast, n
    <2> QED  BY <1>1, <1>3, <2>2, Appended DEF Started
  <1> QED  BY <1>6, <1>8, <1>9, <1>10 DEF FInv

LEMMA CloseStep == FeedTypeOK /\ FInv /\ (\E p \in Pulses : ClosePulse(p)) => FInv'
  <1> SUFFICES ASSUME FeedTypeOK, FInv, NEW p \in Pulses, ClosePulse(p) PROVE FInv'
    OBVIOUS
  <1>1. /\ Len(pulses) \in Nat /\ Pulses = 1 .. Len(pulses)
        /\ \A q \in Pulses : pulses[q] \in {"active", "closed"}
    BY PulseFacts
  <1>2. /\ DOMAIN pulses' = DOMAIN pulses /\ Len(pulses') = Len(pulses)
        /\ pulses'[p] = "closed" /\ \A q \in Pulses : q # p => pulses'[q] = pulses[q]
        /\ Pulses' = Pulses
    <2>1. pulses' \in [1 .. Len(pulses) -> {"active", "closed"}]
      BY <1>1, LenProperties DEF ClosePulse, FeedTypeOK, Pulses
    <2>2. pulses' \in Seq({"active", "closed"}) /\ Len(pulses') = Len(pulses)
      BY <1>1, <2>1, SeqDef, LenProperties
    <2> QED  BY <1>1, <2>1, <2>2 DEF ClosePulse, Pulses
  <1>3. UNCHANGED <<opened, broken, atServer, registry, inbox, overlay, hides, since, hiddenEarly>>
        /\ closing' = closing \union {p}
    BY DEF ClosePulse, serverSockets
  <1>4. \A q \in Pulses : pulses[q] = "closed" => pulses'[q] = "closed"
    BY <1>2
  <1>5. PulsesInOrder'
    BY <1>2, <1>3, <1>4 DEF FInv, PulsesInOrder
  <1>6. MessagesInOrder'
    BY <1>2, <1>3, <1>4 DEF FInv, MessagesInOrder
  <1>7. FirstSocketRegistered'
    BY <1>3 DEF FInv, FirstSocketRegistered
  <1>8. PulseReaches'
    <2>1. Active' \subseteq Active
      BY <1>2 DEF Active
    <2> QED  BY <1>3, <2>1 DEF FInv, PulseReaches
  <1> QED  BY <1>5, <1>6, <1>7, <1>8 DEF FInv

LEMMA AnnounceStep == FeedTypeOK /\ FInv /\ (\E p \in Pulses : AnnounceClose(p)) => FInv'
  <1> SUFFICES ASSUME FeedTypeOK, FInv, NEW p \in Pulses, AnnounceClose(p) PROVE FInv'
    OBVIOUS
  <1> DEFINE msg == [type |-> "closed", pulse |-> p]
  <1>1. /\ Pulses = 1 .. Len(pulses) /\ \A v \in Viewers : inbox[v] \in Seq(Messages)
        /\ p \in Pulses /\ pulses[p] = "closed"
    BY PulseFacts DEF AnnounceClose, FInv, PulsesInOrder
  <1>2. msg \in Messages
    BY DEF AnnounceClose, Messages, FeedTypeOK
  <1>3. ASSUME NEW v \in Viewers
        PROVE  /\ \A i \in DOMAIN inbox[v] : i \in DOMAIN inbox'[v] /\ inbox'[v][i] = inbox[v][i]
               /\ \A i \in DOMAIN inbox'[v] :
                    (i \in DOMAIN inbox[v] /\ inbox'[v][i] = inbox[v][i]) \/ inbox'[v][i] = msg
    <2>1. inbox'[v] = inbox[v] \/ inbox'[v] = Append(inbox[v], msg)
      BY DEF AnnounceClose, Broadcast
    <2>2. DOMAIN inbox[v] = 1 .. Len(inbox[v]) /\ Len(inbox[v]) \in Nat
      BY <1>1, LenProperties
    <2> QED  BY <1>1, <1>2, <2>1, <2>2, Appended
  <1>4. UNCHANGED <<opened, broken, atServer, registry, pulses, overlay, hides, since, hiddenEarly>>
        /\ closing' \subseteq closing
    BY DEF AnnounceClose, serverSockets
  <1>5. PulsesInOrder'
    BY <1>4 DEF FInv, PulsesInOrder, Pulses
  <1>6. MessagesInOrder'
    <2>1. msg.type = "closed" /\ msg.pulse = p /\ msg.type # "started"
      OBVIOUS
    <2> HIDE DEF msg
    <2>2. Pulses' = Pulses /\ pulses' = pulses /\ overlay' = overlay
      BY <1>4 DEF Pulses
    <2> QED  BY <1>1, <1>3, <2>1, <2>2 DEF FInv, MessagesInOrder
  <1>7. FirstSocketRegistered'
    BY <1>4 DEF FInv, FirstSocketRegistered
  <1>8. PulseReaches'
    BY <1>3, <1>4 DEF FInv, PulseReaches, Active, Pulses, Started
  <1> QED  BY <1>5, <1>6, <1>7, <1>8 DEF FInv

\* Opening a socket, or losing it, empties what is on the way.
LEMMA SocketStep ==
    ASSUME FeedTypeOK, FInv, NEW v \in Viewers, OpenSocket(v) \/ Cut(v)
    PROVE  FInv'
  <1>1. /\ UNCHANGED <<atServer, registry, pulses, closing, overlay, hides, since, hiddenEarly>>
        /\ inbox' = [inbox EXCEPT ![v] = << >>]
    BY DEF OpenSocket, Cut, serverSockets
  <1>2. \A u \in Viewers : u # v => inbox'[u] = inbox[u] /\ opened'[u] = opened[u] /\ broken'[u] = broken[u]
    BY DEF OpenSocket, Cut, FeedTypeOK
  <1>3. inbox'[v] = << >> /\ DOMAIN inbox'[v] = {}
    BY <1>1, EmptySeq DEF FeedTypeOK
  <1>4. opened[v] \in Nat /\ \/ broken'[v] /\ opened'[v] = opened[v]
                             \/ ~broken'[v] /\ opened'[v] = opened[v] + 1
    BY FeedAssumption DEF OpenSocket, Cut, FeedTypeOK
  <1>5. atServer[v] \subseteq 1 .. opened[v] /\ (opened[v] = 0 => 1 \notin atServer[v])
    BY DEF FInv, FirstSocketRegistered
  <1>6. PulsesInOrder'
    BY <1>1 DEF FInv, PulsesInOrder, Pulses
  <1>7. MessagesInOrder'
    <2>1. Pulses' = Pulses
      BY <1>1 DEF Pulses
    <2> QED  BY <1>1, <1>2, <1>3, <2>1 DEF FInv, MessagesInOrder
  <1>8. FirstSocketRegistered'
    <2> SUFFICES ASSUME NEW u \in Viewers
                 PROVE  /\ atServer[u] \subseteq 1 .. opened'[u]
                        /\ opened'[u] = 1 /\ ~broken'[u] /\ 1 \in atServer[u] => registry[u] = 1
      BY <1>1 DEF FirstSocketRegistered
    <2>1. CASE u = v
      BY <1>4, <1>5, <2>1
    <2>2. CASE u # v
      BY <1>2, <2>2 DEF FInv, FirstSocketRegistered
    <2> QED  BY <2>1, <2>2
  <1>9. PulseReaches'
    <2> SUFFICES ASSUME NEW u \in Viewers, NEW p \in Active,
                        opened'[u] = 1, ~broken'[u], 1 \in atServer[u], since[u] < p, ~hiddenEarly[u]
                 PROVE  overlay[u].pulse = p \/ Started(inbox'[u], p)
      BY <1>1 DEF PulseReaches, Active, Pulses
    <2>1. u # v
      BY <1>4, <1>5
    <2> QED  BY <1>2, <2>1 DEF FInv, PulseReaches
  <1> QED  BY <1>6, <1>7, <1>8, <1>9 DEF FInv

LEMMA HandlerStep ==
    ASSUME FeedTypeOK, FInv, NEW v \in Viewers, NEW s \in 1 .. MaxSockets, Connect(v, s) \/ Disconnect(v, s)
    PROVE  FInv'
  <1>1. UNCHANGED <<opened, broken, inbox, pulses, closing, overlay, hides, hiddenEarly>>
    BY DEF Connect, Disconnect
  <1>2. \A u \in Viewers : u # v =>
          atServer'[u] = atServer[u] /\ registry'[u] = registry[u] /\ since'[u] = since[u]
    BY DEF Connect, Disconnect, FeedTypeOK
  <1>3. CASE Connect(v, s)
    <2>1. s \in 1 .. opened[v] /\ atServer'[v] = atServer[v] \union {s} /\ registry'[v] = s
      BY <1>3 DEF Connect, FeedTypeOK
    <2>2. opened[v] = 1 => s = 1 /\ since'[v] = Len(pulses)
      BY <1>3, <2>1 DEF Connect, FeedTypeOK
    <2>3. FirstSocketRegistered'
      BY <1>1, <1>2, <2>1, <2>2 DEF FInv, FirstSocketRegistered
    <2>4. PulseReaches'
      <3> SUFFICES ASSUME NEW u \in Viewers, NEW p \in Active, opened[u] = 1, ~broken[u],
                          1 \in atServer'[u], since'[u] < p, ~hiddenEarly[u]
                   PROVE  overlay[u].pulse = p \/ Started(inbox[u], p)
        BY <1>1 DEF PulseReaches, Active, Pulses
      <3>1. p \in 1 .. Len(pulses) /\ Len(pulses) \in Nat
        BY PulseFacts DEF Active
      <3>2. u # v
        BY <2>2, <3>1
      <3> QED  BY <1>2, <3>2 DEF FInv, PulseReaches
    <2> QED  BY <1>1, <2>3, <2>4 DEF FInv, PulsesInOrder, MessagesInOrder, Pulses
  <1>4. CASE Disconnect(v, s)
    <2>1. atServer'[v] = atServer[v] \ {s} /\ s \in atServer[v] /\ (s # opened[v] \/ broken[v])
          /\ since' = since
      BY <1>4 DEF Disconnect, MayEnd, FeedTypeOK
    <2>2. atServer[v] \subseteq 1 .. opened[v]
      BY DEF FInv, FirstSocketRegistered
    <2>3. opened[v] = 1 /\ ~broken[v] => 1 \notin atServer'[v]
      BY <2>1, <2>2
    <2>4. FirstSocketRegistered'
      BY <1>1, <1>2, <2>1, <2>2, <2>3 DEF FInv, FirstSocketRegistered
    <2>5. PulseReaches'
      BY <1>1, <1>2, <2>1, <2>3 DEF FInv, PulseReaches, Active, Pulses
    <2> QED  BY <1>1, <2>4, <2>5 DEF FInv, PulsesInOrder, MessagesInOrder, Pulses
  <1> QED  BY <1>3, <1>4

LEMMA ReceiveStep ==
    ASSUME FeedTypeOK, FInv, NEW v \in Viewers, Receive(v)
    PROVE  FInv'
  <1> DEFINE q == inbox[v]  msg == q[1]
  <1>1. /\ Len(pulses) \in Nat /\ Pulses = 1 .. Len(pulses)
        /\ q \in Seq(Messages) /\ \A u \in Viewers : overlay[u].pulse \in Nat
    BY PulseFacts
  <1>2. /\ 1 \in DOMAIN q /\ Head(q) = msg /\ msg \in Messages
        /\ \A i \in DOMAIN Tail(q) : i \in Nat /\ i + 1 \in DOMAIN q /\ Tail(q)[i] = q[i + 1]
        /\ \A i \in DOMAIN q : i # 1 => i - 1 \in DOMAIN Tail(q) /\ Tail(q)[i - 1] = q[i]
    BY <1>1, Consumed DEF Receive
  <1>3. /\ UNCHANGED <<opened, broken, atServer, registry, pulses, closing, since, hiddenEarly>>
        /\ inbox'[v] = Tail(q) /\ \A u \in Viewers : u # v => inbox'[u] = inbox[u]
    BY DEF Receive, serverSockets, FeedTypeOK
  <1>4. \A u \in Viewers : u # v => overlay'[u] = overlay[u] /\ hides'[u] = hides[u]
    BY DEF Receive, FeedTypeOK
  <1>5. \/ msg.type = "started" /\ overlay'[v].pulse = msg.pulse /\ hides'[v] = hides[v]
        \/ msg.type = "closed" /\ overlay'[v] = overlay[v] /\ hides'[v] = hides[v] \union {msg.pulse}
    <2>1. msg \in Messages /\ msg.type \in {"started", "closed"}
      BY <1>2 DEF Messages
    <2>2. CASE msg.type = "started"
      <3>1. overlay' = [overlay EXCEPT ![v] = [pulse |-> msg.pulse, sent |-> FALSE]] /\ hides' = hides
        BY <1>2, <2>2 DEF Receive
      <3> QED  BY <2>2, <3>1 DEF FeedTypeOK
    <2>3. CASE msg.type = "closed"
      <3>1. hides' = [hides EXCEPT ![v] = @ \union {msg.pulse}] /\ overlay' = overlay
        BY <1>2, <2>3 DEF Receive
      <3> QED  BY <2>3, <3>1 DEF FeedTypeOK
    <2> QED  BY <2>1, <2>2, <2>3
  <1>6. Pulses' = Pulses /\ Active' = Active
    BY <1>3 DEF Pulses, Active
  <1>7. /\ msg.pulse \in Pulses
        /\ msg.type = "closed" => pulses[msg.pulse] = "closed"
        /\ msg.type = "started" => overlay[v].pulse < msg.pulse
        /\ \A j \in DOMAIN q : 1 < j /\ msg.type = "started" /\ q[j].type = "started" => msg.pulse < q[j].pulse
    BY <1>2 DEF FInv, MessagesInOrder
  <1> HIDE DEF msg
  <1>8. PulsesInOrder'
    <2>1. \A u \in Viewers : overlay'[u].pulse <= Len(pulses)
      BY <1>1, <1>4, <1>5, <1>7 DEF FInv, PulsesInOrder
    <2>2. \A u \in Viewers : \A p \in hides'[u] : p \in Pulses /\ pulses[p] = "closed"
      BY <1>4, <1>5, <1>7 DEF FInv, PulsesInOrder
    <2> QED  BY <1>3, <1>6, <2>1, <2>2 DEF FInv, PulsesInOrder
  <1>9. MessagesInOrder'
    <2>1. ASSUME NEW i \in DOMAIN Tail(q)
          PROVE  /\ Tail(q)[i].pulse \in Pulses
                 /\ Tail(q)[i].type = "closed" => pulses[Tail(q)[i].pulse] = "closed"
                 /\ Tail(q)[i].type = "started" => overlay'[v].pulse < Tail(q)[i].pulse
      <3>1. i + 1 \in DOMAIN q /\ 1 < i + 1 /\ Tail(q)[i] = q[i + 1]
        <4>1. DOMAIN Tail(q) \subseteq Nat /\ 0 \notin DOMAIN Tail(q)
          BY <1>1, <1>2, HeadTailProperties, LenProperties DEF Receive
        <4> QED  BY <1>2, <4>1
      <3>2. q[i + 1].type = "started" => overlay[v].pulse < q[i + 1].pulse
        BY <3>1 DEF FInv, MessagesInOrder
      <3> QED  BY <3>1, <3>2, <1>5, <1>7 DEF FInv, MessagesInOrder
    <2>2. ASSUME NEW i \in DOMAIN Tail(q), NEW j \in DOMAIN Tail(q), i < j,
                 Tail(q)[i].type = "started", Tail(q)[j].type = "started"
          PROVE  Tail(q)[i].pulse < Tail(q)[j].pulse
      <3>1. /\ i + 1 \in DOMAIN q /\ Tail(q)[i] = q[i + 1]
            /\ j + 1 \in DOMAIN q /\ Tail(q)[j] = q[j + 1] /\ i + 1 < j + 1
        BY <1>2, <2>2
      <3> QED  BY <2>2, <3>1 DEF FInv, MessagesInOrder
    <2>3. ASSUME NEW u \in Viewers, u # v
          PROVE  inbox'[u] = inbox[u] /\ overlay'[u] = overlay[u]
      BY <1>3, <1>4, <2>3
    <2> SUFFICES ASSUME NEW u \in Viewers
                 PROVE  /\ \A i \in DOMAIN inbox'[u] :
                            /\ inbox'[u][i].pulse \in Pulses
                            /\ inbox'[u][i].type = "closed" => pulses[inbox'[u][i].pulse] = "closed"
                            /\ inbox'[u][i].type = "started" => overlay'[u].pulse < inbox'[u][i].pulse
                        /\ \A i, j \in DOMAIN inbox'[u] :
                            i < j /\ inbox'[u][i].type = "started" /\ inbox'[u][j].type = "started"
                              => inbox'[u][i].pulse < inbox'[u][j].pulse
      BY <1>3, <1>6 DEF MessagesInOrder
    <2>4. CASE u = v
      <3> HIDE DEF q
      <3> QED  BY <1>3, <2>1, <2>2, <2>4
    <2>5. CASE u # v
      BY <2>3, <2>5 DEF FInv, MessagesInOrder
    <2> QED  BY <2>4, <2>5
  <1>10. FirstSocketRegistered'
    BY <1>3 DEF FInv, FirstSocketRegistered
  <1>11. PulseReaches'
    <2> SUFFICES ASSUME NEW u \in Viewers, NEW p \in Active, opened[u] = 1, ~broken[u],
                        1 \in atServer[u], since[u] < p, ~hiddenEarly[u]
                 PROVE  overlay'[u].pulse = p \/ Started(inbox'[u], p)
      BY <1>3, <1>6 DEF PulseReaches
    <2>1. overlay[u].pulse = p \/ Started(inbox[u], p)
      BY DEF FInv, PulseReaches
    <2>2. p = Len(pulses)
      BY DEF FInv, PulsesInOrder, Active
    <2>3. CASE u # v
      BY <1>3, <1>4, <2>1, <2>3
    <2>4. CASE u = v /\ overlay[v].pulse = p
      <3>1. msg.type # "started"
        BY <1>1, <1>7, <2>2, <2>4
      <3> QED  BY <1>5, <2>4, <3>1
    <2>5. CASE u = v /\ Started(q, p)
      <3>1. PICK i \in DOMAIN q : q[i].type = "started" /\ q[i].pulse = p
        BY <2>5 DEF Started
      <3>2. CASE i = 1
        BY <1>5, <2>5, <3>1, <3>2 DEF msg
      <3>3. CASE i # 1
        <4>1. i - 1 \in DOMAIN Tail(q) /\ Tail(q)[i - 1] = q[i]
          BY <1>2, <3>3
        <4>2. i - 1 \in DOMAIN inbox'[u] /\ inbox'[u][i - 1] = q[i]
          BY <1>3, <2>5, <4>1
        <4> QED  BY <3>1, <4>2 DEF Started
      <3> QED  BY <3>2, <3>3
    <2> QED  BY <2>1, <2>3, <2>4, <2>5
  <1> QED  BY <1>8, <1>9, <1>10, <1>11 DEF FInv

LEMMA OverlayStep ==
    ASSUME FeedTypeOK, FInv, NEW v \in Viewers,
           Answer(v) \/ (\E p \in Pulses : HideFires(v, p))
    PROVE  FInv'
  <1>1. UNCHANGED <<opened, broken, atServer, registry, inbox, pulses, closing, since>>
    BY DEF Answer, HideFires, serverSockets
  <1>2. /\ Len(pulses) \in Nat /\ Pulses = 1 .. Len(pulses)
        /\ \A u \in Viewers : overlay[u].pulse \in Nat
    BY PulseFacts
  <1>3. \A u \in Viewers :
          /\ hides'[u] \subseteq hides[u]
          /\ \/ overlay'[u].pulse = overlay[u].pulse /\ hiddenEarly'[u] = hiddenEarly[u]
             \/ /\ overlay'[u].pulse = 0
                /\ \E p \in hides[u] : hiddenEarly'[u] = (hiddenEarly[u] \/ overlay[u].pulse > p)
    <2>1. CASE Answer(v)
      BY <2>1 DEF Answer, FeedTypeOK
    <2>2. ASSUME NEW p \in Pulses, HideFires(v, p)
          PROVE  \A u \in Viewers :
                   /\ hides'[u] \subseteq hides[u]
                   /\ \/ overlay'[u].pulse = overlay[u].pulse /\ hiddenEarly'[u] = hiddenEarly[u]
                      \/ /\ overlay'[u].pulse = 0
                         /\ p \in hides[u] /\ hiddenEarly'[u] = (hiddenEarly[u] \/ overlay[u].pulse > p)
      BY <2>2 DEF HideFires, FeedTypeOK, NoPulse
    <2> QED  BY <2>1, <2>2
  <1>4. Pulses' = Pulses /\ Active' = Active
    BY <1>1 DEF Pulses, Active
  <1>5. PulsesInOrder'
    BY <1>1, <1>2, <1>3, <1>4 DEF FInv, PulsesInOrder
  <1>6. MessagesInOrder'
    <2>1. ASSUME NEW u \in Viewers, NEW i \in DOMAIN inbox[u], inbox[u][i].type = "started"
          PROVE  overlay'[u].pulse < inbox[u][i].pulse
      <3>1. overlay[u].pulse < inbox[u][i].pulse /\ inbox[u][i].pulse \in Pulses
        BY <2>1 DEF FInv, MessagesInOrder
      <3> QED  BY <1>2, <1>3, <3>1
    <2> QED  BY <1>1, <1>4, <2>1 DEF FInv, MessagesInOrder
  <1>7. FirstSocketRegistered'
    BY <1>1 DEF FInv, FirstSocketRegistered
  <1>8. PulseReaches'
    <2> SUFFICES ASSUME NEW u \in Viewers, NEW p \in Active, opened[u] = 1, ~broken[u],
                        1 \in atServer[u], since[u] < p, ~hiddenEarly'[u]
                 PROVE  overlay'[u].pulse = p \/ Started(inbox[u], p)
      BY <1>1, <1>4 DEF PulseReaches
    <2>1. ~hiddenEarly[u]
      BY <1>3
    <2>2. overlay[u].pulse = p \/ Started(inbox[u], p)
      BY <2>1 DEF FInv, PulseReaches
    <2>3. p = Len(pulses) /\ pulses[p] = "active"
      BY DEF FInv, PulsesInOrder, Active
    <2>4. ASSUME NEW r \in hides[u] PROVE r < p
      BY <1>2, <2>3 DEF FInv, PulsesInOrder
    <2> QED  BY <1>3, <2>2, <2>4
  <1> QED  BY <1>5, <1>6, <1>7, <1>8 DEF FInv

LEMMA FeedStep == FeedTypeOK /\ FInv /\ [FeedNext]_feedVars => FInv'
  <1> SUFFICES ASSUME FeedTypeOK, FInv, [FeedNext]_feedVars PROVE FInv'
    OBVIOUS
  <1>1. CASE UNCHANGED feedVars
    BY <1>1, FeedUnchanged DEF feedVars
  <1>2. CASE FeedNext
    BY <1>2, SendStep, CloseStep, AnnounceStep, SocketStep, HandlerStep, ReceiveStep, OverlayStep
       DEF FeedNext
  <1> QED  BY <1>1, <1>2

\* A viewer whose page kept its one socket sees the running pulse: see the property.
THEOREM RunningPulse == FeedSpec => []RunningPulseShown
  <1>1. FeedInit => FInv
    BY EmptySeq DEF FeedInit, FInv, PulsesInOrder, MessagesInOrder, FirstSocketRegistered, PulseReaches,
                    Active, Pulses, Blank, NoPulse
  <1>2. FInv => RunningPulseShown
    BY EmptySeq DEF FInv, PulseReaches, RunningPulseShown, Started
  <1> QED  BY <1>1, <1>2, FeedStep, FeedTypes, PTL DEF FeedSpec
=============================================================================
