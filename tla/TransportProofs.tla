--------------------------- MODULE TransportProofs ---------------------------
(***************************************************************************)
(* Transport for any set of channels and any bounds: the types, the        *)
(* packets that are handed over once, and the messages that a channel      *)
(* sends once.  ICE, DTLS, SCTP and the channels have an invariant each,   *)
(* and a step is looked at for those that it touches.                      *)
(***************************************************************************)
EXTENDS Transport, TLAPS

-----------------------------------------------------------------------------
(* The invariants *)

IceFlags ==
  /\ called \in BOOLEAN /\ probing \in BOOLEAN /\ nominated \in BOOLEAN
  /\ timer \in BOOLEAN /\ path \in BOOLEAN

IceCounts ==
  /\ failures \in 0..ConsentMaxFailures /\ orphans \in Nat /\ checks \in Nat
  /\ staleChecks \in Nat /\ restarts \in 0..MaxRestarts /\ outages \in 0..MaxOutages

IceTypes == ice \in IceStates /\ IceFlags /\ IceCounts

DtlsTypes ==
  /\ dtls \in {"new", "connecting", "connected", "failed", "closed"}
  /\ started \in BOOLEAN /\ handshaking \in BOOLEAN
  /\ state \in {"new", "connecting", "connected", "disconnected", "failed", "closed"}
  /\ closing \in {"no", "channels", "done"}

SctpTypes ==
  /\ assoc \in {"none", "closed", "connecting", "established", "shutdown"}
  /\ replaying \in BOOLEAN /\ arrived \in 0..MaxPackets
  /\ buffer \in Seq(1..MaxPackets) /\ handed \in Seq(1..MaxPackets)

ChannelTypes ==
  /\ made \in [Channels -> {"none", "proxy", "direct"}] /\ pending \in Seq(Channels)
  /\ real \in [Channels -> {"none", "connecting", "open", "closing"}]
  /\ closed \in [Channels -> BOOLEAN] /\ calls \in [Channels -> 0..MaxSends]
  /\ queue \in [Channels -> Seq(1..MaxSends)] /\ sent \in [Channels -> Seq(1..MaxSends)]
  /\ flushing \in [Channels -> BOOLEAN]
  /\ early \in [Channels -> SUBSET (1..MaxSends)] /\ lost \in [Channels -> SUBSET (1..MaxSends)]

\* The packets: HandedOnce is inductive with their types.
Packets == SctpTypes /\ HandedOnce

\* Numbers that stand in order, but for those of e, which may come too soon.
InTurn(e, m, n) == m < n \/ (n < m /\ m \in e)
Ordered(e, s) == \A i, j \in DOMAIN s : i < j => InTurn(e, s[i], s[j])
Ahead(e, s, t) == \A i \in DOMAIN s, j \in DOMAIN t : InTurn(e, s[i], t[j])

\* A channel's messages: what is sent and what is queued.
Kept(c) ==
  /\ Ordered(early[c], sent[c]) /\ Ordered(early[c], queue[c])
  /\ Ahead(early[c], sent[c], queue[c])
  /\ ToSet(sent[c]) \cup ToSet(queue[c]) = 1..calls[c] \ lost[c]
  /\ lost[c] \subseteq 1..calls[c]

\* When a channel loses or queues messages: nothing is left in the queue of an open channel
\* whose listener has run, so that what is sent on it directly overtakes nothing.
Placed(c) ==
  /\ lost[c] # {} => real[c] = "closing"
  /\ real[c] = "open" => queue[c] = << >> \/ flushing[c]
  /\ flushing[c] => real[c] \in {"open", "closing"}
  /\ made[c] # "proxy" => queue[c] = << >> /\ ~flushing[c] /\ lost[c] = {}

InOrder(c) == Kept(c) /\ Placed(c)

Messages == ChannelTypes /\ \A c \in Channels : InOrder(c)

TransportInv == IceTypes /\ DtlsTypes /\ Packets /\ Messages

\* The association is set up once, and no channel is initialised before it is established.
Stage ==
  /\ assoc # "none" => started /\ ~handshaking
  /\ handshaking => started
  /\ closing = "channels" => assoc # "none"
  /\ assoc \notin {"established", "shutdown"} => \A c \in Channels : real[c] = "none"

LEMMA TypesAreTypeOK == IceTypes /\ DtlsTypes /\ SctpTypes /\ ChannelTypes => TypeOK
  BY DEF IceTypes, IceFlags, IceCounts, DtlsTypes, SctpTypes, ChannelTypes, TypeOK

LEMMA Bounds ==
  /\ ConsentMaxFailures \in Nat \ {0} /\ MaxSends \in Nat /\ MaxPackets \in Nat
  /\ MaxRestarts \in Nat /\ MaxOutages \in Nat
  BY TransportAssumption

LEMMA InitiallyInv == Init => TransportInv
<1> SUFFICES ASSUME Init
             PROVE  TransportInv
  OBVIOUS
<1>1. IceTypes /\ DtlsTypes
  <2>1. /\ failures \in 0..ConsentMaxFailures /\ restarts \in 0..MaxRestarts
        /\ outages \in 0..MaxOutages /\ orphans \in Nat /\ checks \in Nat /\ staleChecks \in Nat
    BY Bounds DEF Init
  <2>2. /\ called \in BOOLEAN /\ probing \in BOOLEAN /\ nominated \in BOOLEAN /\ timer \in BOOLEAN
        /\ path \in BOOLEAN /\ started \in BOOLEAN
        /\ handshaking \in BOOLEAN
    BY Zenon DEF Init
  <2> QED
    BY <2>1, <2>2 DEF Init, IceTypes, IceFlags, IceCounts, IceStates, DtlsTypes
<1>2. Packets
  <2>1. SctpTypes
    <3>1. arrived \in 0..MaxPackets /\ buffer \in Seq(1..MaxPackets) /\ handed \in Seq(1..MaxPackets)
      BY Bounds DEF Init
    <3>2. replaying \in BOOLEAN /\ assoc = "none"
      BY Zenon DEF Init
    <3> QED
      BY <3>1, <3>2 DEF SctpTypes
  <2>2. HandedOnce
    BY DEF Init, HandedOnce, ToSet
  <2> QED
    BY <2>1, <2>2 DEF Packets
<1>3. Messages
  <2>1. ChannelTypes
    BY Bounds DEF Init, ChannelTypes
  <2>2. ASSUME NEW c \in Channels
        PROVE  InOrder(c)
    <3>1. /\ sent[c] = << >> /\ queue[c] = << >> /\ calls[c] = 0 /\ lost[c] = {}
          /\ real[c] = "none" /\ flushing[c] = FALSE
      BY DEF Init
    <3>2. Kept(c)
      BY <3>1 DEF Kept, Ordered, Ahead, ToSet
    <3>3. Placed(c)
      BY <3>1 DEF Placed
    <3> QED
      BY <3>2, <3>3 DEF InOrder
  <2> QED
    BY <2>1, <2>2 DEF Messages
<1> QED
  BY <1>1, <1>2, <1>3 DEF TransportInv

-----------------------------------------------------------------------------
(* Sequences of packets *)

LEMMA ToSetAppend ==
  \A S : \A s \in Seq(S), x \in S : ToSet(Append(s, x)) = ToSet(s) \cup {x}
<1> TAKE S
<1> TAKE s \in Seq(S), x \in S
<1>1. /\ Append(s, x) \in Seq(S) /\ Len(Append(s, x)) = Len(s) + 1 /\ Len(s) \in Nat
      /\ \A i \in 1..Len(s) : Append(s, x)[i] = s[i]
      /\ Append(s, x)[Len(s) + 1] = x
  OBVIOUS
<1>2. /\ DOMAIN Append(s, x) = 1..(Len(s) + 1) /\ DOMAIN s = 1..Len(s)
      /\ 1..(Len(s) + 1) = 1..Len(s) \cup {Len(s) + 1}
  BY <1>1
<1> HIDE <1>1
<1>3. /\ \A i \in 1..Len(s) : Append(s, x)[i] = s[i]
      /\ Append(s, x)[Len(s) + 1] = x
  BY <1>1
<1> QED
  BY Zenon, <1>2, <1>3 DEF ToSet

\* The elements of a sequence are its first one and those of the rest.
LEMMA ToSetHeadTail ==
  ASSUME NEW S, NEW s \in Seq(S), s # << >>
  PROVE  /\ Head(s) \in S /\ Tail(s) \in Seq(S) /\ Len(Tail(s)) = Len(s) - 1
         /\ ToSet(s) = {Head(s)} \cup ToSet(Tail(s))
<1>1. /\ Head(s) \in S /\ Head(s) = s[1] /\ Tail(s) \in Seq(S) /\ Len(Tail(s)) = Len(s) - 1
      /\ Len(s) \in Nat \ {0} /\ DOMAIN s = 1..Len(s) /\ DOMAIN Tail(s) = 1..(Len(s) - 1)
      /\ \A i \in 1..(Len(s) - 1) : Tail(s)[i] = s[i + 1]
  OBVIOUS
<1>2. ASSUME NEW i \in 1..Len(s), i # 1
      PROVE  i - 1 \in 1..(Len(s) - 1) /\ s[i] = Tail(s)[i - 1]
  BY <1>1, <1>2
<1>3. ASSUME NEW i \in 1..(Len(s) - 1)
      PROVE  i + 1 \in 1..Len(s) /\ Tail(s)[i] = s[i + 1]
  BY <1>1
<1>4. ToSet(s) \subseteq {Head(s)} \cup ToSet(Tail(s))
  <2> SUFFICES ASSUME NEW i \in 1..Len(s)
               PROVE  s[i] \in {Head(s)} \cup ToSet(Tail(s))
    BY <1>1 DEF ToSet
  <2>1. CASE i = 1
    BY <2>1, <1>1
  <2>2. CASE i # 1
    BY <2>2, <1>1, <1>2 DEF ToSet
  <2> QED
    BY <2>1, <2>2
<1>5. {Head(s)} \cup ToSet(Tail(s)) \subseteq ToSet(s)
  BY <1>1, <1>3 DEF ToSet
<1> QED
  BY <1>1, <1>4, <1>5

\* A packet that leaves the buffer for the association.
LEMMA FirstIsHandedOver ==
  ASSUME Packets, buffer # << >>, handed' = Append(handed, Head(buffer)), buffer' = Tail(buffer),
         UNCHANGED arrived
  PROVE  HandedOnce' /\ buffer' \in Seq(1..MaxPackets) /\ handed' \in Seq(1..MaxPackets)
<1>1. /\ Head(buffer) \in 1..MaxPackets /\ buffer' \in Seq(1..MaxPackets)
      /\ Len(buffer') = Len(buffer) - 1 /\ ToSet(buffer) = {Head(buffer)} \cup ToSet(buffer')
  BY ToSetHeadTail DEF Packets, SctpTypes
<1>2. /\ handed' \in Seq(1..MaxPackets) /\ Len(handed') = Len(handed) + 1
      /\ Len(handed) \in Nat /\ Len(buffer) \in Nat
  BY <1>1 DEF Packets, SctpTypes
<1>3. ToSet(handed') = ToSet(handed) \cup {Head(buffer)}
  BY <1>1, ToSetAppend DEF Packets, SctpTypes
<1> QED
  BY <1>1, <1>2, <1>3 DEF Packets, HandedOnce

-----------------------------------------------------------------------------
(* What a step leaves alone *)

LEMMA IceKept ==
  ASSUME IceTypes, UNCHANGED iceAll
  PROVE  IceTypes'
  BY DEF IceTypes, IceFlags, IceCounts, iceAll, iceVars, consentVars

LEMMA DtlsKept ==
  ASSUME DtlsTypes, UNCHANGED <<dtlsVars, state, closing>>
  PROVE  DtlsTypes'
  BY DEF DtlsTypes, dtlsVars

LEMMA PacketsKept ==
  ASSUME Packets, UNCHANGED sctpVars
  PROVE  Packets'
  BY DEF Packets, SctpTypes, HandedOnce, sctpVars

LEMMA MessagesKept ==
  ASSUME Messages, UNCHANGED channelVars
  PROVE  Messages'
  BY DEF Messages, ChannelTypes, InOrder, Kept, Placed, channelVars, messageVars

\* A step of ICE: what SetIce does to the rest.
LEMMA SetIceKeeps ==
  ASSUME TransportInv, NEW s \in IceStates \ {"closed"}, SetIce(s)
  PROVE  DtlsTypes' /\ Packets' /\ Messages' /\ ice' \in IceStates
<1>1. Packets' /\ Messages'
  BY PacketsKept, MessagesKept DEF TransportInv, SetIce
<1>2. state' \in {"new", "connecting", "connected", "disconnected", "failed", "closed"}
  <2>1. s \in {"new", "checking", "connected", "completed", "disconnected", "failed"}
    BY DEF IceStates
  <2>2. Reported(s) \in {"new", "connecting", "connected", "disconnected", "failed", "closed"}
    BY <2>1 DEF Reported, TransportInv, DtlsTypes
  <2> QED
    BY <2>2 DEF SetIce, TransportInv, DtlsTypes
<1>3. /\ started' \in BOOLEAN /\ handshaking' \in BOOLEAN
      /\ dtls' \in {"new", "connecting", "connected", "failed", "closed"}
      /\ closing' \in {"no", "channels", "done"}
  BY DEF SetIce, StartsDtls, Listening, TransportInv, DtlsTypes
<1> QED
  BY <1>1, <1>2, <1>3 DEF SetIce, DtlsTypes, IceStates

-----------------------------------------------------------------------------
(* ICE: the packets and the messages are left alone *)

LEMMA StartChecksKeeps == ASSUME TransportInv, StartChecks  PROVE  TransportInv'
<1>1. DtlsTypes' /\ Packets' /\ Messages' /\ ice' \in IceStates
  BY SetIceKeeps DEF StartChecks, IceStates
<1>2. IceTypes'
  <2>1. IceFlags'
    BY Zenon DEF TransportInv, IceTypes, IceFlags, StartChecks, consentVars
  <2>2. IceCounts'
    BY DEF TransportInv, IceTypes, IceCounts, StartChecks, consentVars
  <2> QED
    BY <1>1, <2>1, <2>2 DEF IceTypes
<1> QED
  BY <1>1, <1>2 DEF TransportInv

LEMMA NominateKeeps == ASSUME TransportInv, Nominate  PROVE  TransportInv'
<1>1. DtlsTypes' /\ Packets' /\ Messages' /\ ice' \in IceStates
  BY SetIceKeeps DEF Nominate, IceStates
<1>2. IceTypes'
  <2>1. IceFlags'
    BY Zenon DEF TransportInv, IceTypes, IceFlags, Nominate, consentVars
  <2>2. IceCounts'
    BY Bounds DEF TransportInv, IceTypes, IceCounts, Nominate, consentVars
  <2> QED
    BY <1>1, <2>1, <2>2 DEF IceTypes
<1> QED
  BY <1>1, <1>2 DEF TransportInv

LEMMA ChecksFailKeeps == ASSUME TransportInv, ChecksFail  PROVE  TransportInv'
<1>1. DtlsTypes' /\ Packets' /\ Messages' /\ ice' \in IceStates
  BY SetIceKeeps DEF ChecksFail, IceStates
<1>2. IceTypes'
  <2>1. IceFlags'
    BY Zenon DEF TransportInv, IceTypes, IceFlags, ChecksFail, consentVars
  <2>2. IceCounts'
    BY DEF TransportInv, IceTypes, IceCounts, ChecksFail, consentVars
  <2> QED
    BY <1>1, <2>1, <2>2 DEF IceTypes
<1> QED
  BY <1>1, <1>2 DEF TransportInv

LEMMA ConsentDueKeeps == ASSUME TransportInv, ConsentDue  PROVE  TransportInv'
<1>1. DtlsTypes' /\ Packets' /\ Messages'
  BY DtlsKept, PacketsKept, MessagesKept DEF TransportInv, ConsentDue
<1>2. IceTypes'
  <2>1. IceFlags'
    BY Zenon DEF TransportInv, IceTypes, IceFlags, ConsentDue, iceVars
  <2>2. IceCounts'
    BY DEF TransportInv, IceTypes, IceCounts, ConsentDue, iceVars
  <2> QED
    BY <2>1, <2>2 DEF IceTypes, TransportInv, ConsentDue
<1> QED
  BY <1>1, <1>2 DEF TransportInv

LEMMA ConsentAnsweredKeeps == ASSUME TransportInv, ConsentAnswered  PROVE  TransportInv'
<1>1. DtlsTypes' /\ Packets' /\ Messages' /\ ice' \in IceStates
  BY SetIceKeeps DEF ConsentAnswered, IceStates, TransportInv, IceTypes
<1>2. IceTypes'
  <2>1. IceFlags'
    BY Zenon DEF TransportInv, IceTypes, IceFlags, ConsentAnswered, Schedule, iceVars
  <2>2. IceCounts'
    BY Bounds DEF TransportInv, IceTypes, IceCounts, ConsentAnswered, Schedule, iceVars
  <2> QED
    BY <1>1, <2>1, <2>2 DEF IceTypes
<1> QED
  BY <1>1, <1>2 DEF TransportInv

\* The connection may be closed already: then a listener that is left reports nothing new.
LEMMA SetIceAgainKeeps ==
  ASSUME TransportInv, SetIce(ice)
  PROVE  DtlsTypes' /\ Packets' /\ Messages' /\ ice' \in IceStates
<1>1. Packets' /\ Messages'
  BY PacketsKept, MessagesKept DEF TransportInv, SetIce
<1> QED
  BY <1>1 DEF TransportInv, SetIce, StartsDtls, Listening, DtlsTypes, IceTypes

LEMMA ConsentFailsKeeps == ASSUME TransportInv, ConsentFails  PROVE  TransportInv'
<1>1. SetIce("failed") \/ SetIce("disconnected") \/ SetIce(ice)
  BY DEF ConsentFails
<1>2. DtlsTypes' /\ Packets' /\ Messages' /\ ice' \in IceStates
  BY <1>1, SetIceKeeps, SetIceAgainKeeps DEF IceStates
<1>3. IceTypes'
  <2>1. IceFlags'
    BY Zenon DEF TransportInv, IceTypes, IceFlags, ConsentFails, Schedule, iceVars
  <2>2. IceCounts'
    BY Bounds DEF TransportInv, IceTypes, IceCounts, ConsentFails, Schedule, iceVars
  <2> QED
    BY <1>2, <2>1, <2>2 DEF IceTypes
<1> QED
  BY <1>2, <1>3 DEF TransportInv

LEMMA RestartKeeps == ASSUME TransportInv, Restart  PROVE  TransportInv'
<1>1. DtlsTypes' /\ Packets' /\ Messages' /\ ice' \in IceStates
  BY SetIceKeeps DEF Restart, IceStates
<1>2. IceTypes'
  <2>1. IceFlags'
    BY Zenon DEF TransportInv, IceTypes, IceFlags, Restart
  <2>2. IceCounts'
    BY Bounds DEF TransportInv, IceTypes, IceCounts, Restart
  <2> QED
    BY <1>1, <2>1, <2>2 DEF IceTypes
<1> QED
  BY <1>1, <1>2 DEF TransportInv

LEMMA PathChangesKeeps == ASSUME TransportInv, PathChanges  PROVE  TransportInv'
<1>1. DtlsTypes' /\ Packets' /\ Messages'
  BY DtlsKept, PacketsKept, MessagesKept DEF TransportInv, PathChanges
<1>2. IceTypes'
  <2>1. IceFlags'
    BY Zenon DEF TransportInv, IceTypes, IceFlags, PathChanges, consentVars
  <2>2. IceCounts'
    BY Bounds DEF TransportInv, IceTypes, IceCounts, PathChanges, consentVars
  <2> QED
    BY <2>1, <2>2 DEF IceTypes, TransportInv, PathChanges
<1> QED
  BY <1>1, <1>2 DEF TransportInv

-----------------------------------------------------------------------------
(* DTLS *)

\* _startSctp takes the first packet of the buffer, if there is one.
LEMMA StartSctpKeeps ==
  ASSUME Packets, StartSctp, UNCHANGED arrived
  PROVE  Packets'
<1>1. CASE buffer = << >>
  BY <1>1 DEF Packets, SctpTypes, HandedOnce, StartSctp, Connect
<1>2. CASE buffer # << >>
  BY <1>2, FirstIsHandedOver DEF Packets, SctpTypes, StartSctp
<1> QED
  BY <1>1, <1>2

LEMMA DtlsConnectsKeeps == ASSUME TransportInv, DtlsConnects  PROVE  TransportInv'
<1>1. IceTypes' /\ Messages'
  BY IceKept, MessagesKept DEF TransportInv, DtlsConnects
<1>2. Packets'
  BY StartSctpKeeps DEF TransportInv, DtlsConnects
<1>3. DtlsTypes'
  BY DEF TransportInv, DtlsTypes, DtlsConnects
<1> QED
  BY <1>1, <1>2, <1>3 DEF TransportInv

LEMMA DtlsFailsKeeps == ASSUME TransportInv, DtlsFails  PROVE  TransportInv'
<1>1. IceTypes' /\ Packets' /\ Messages'
  BY IceKept, PacketsKept, MessagesKept DEF TransportInv, DtlsFails
<1>2. DtlsTypes'
  BY DEF TransportInv, DtlsTypes, DtlsFails
<1> QED
  BY <1>1, <1>2 DEF TransportInv

LEMMA DtlsPeerClosesKeeps == ASSUME TransportInv, DtlsPeerCloses  PROVE  TransportInv'
<1>1. IceTypes' /\ Packets' /\ Messages'
  BY IceKept, PacketsKept, MessagesKept DEF TransportInv, DtlsPeerCloses
<1>2. DtlsTypes'
  BY DEF TransportInv, DtlsTypes, DtlsPeerCloses
<1> QED
  BY <1>1, <1>2 DEF TransportInv

-----------------------------------------------------------------------------
(* SCTP *)

LEMMA InitializePendingKeeps ==
  ASSUME Messages, \A c \in Channels : real[c] = "none", InitializePending
  PROVE  Messages'
<1>1. pending' \in Seq(Channels)
  BY DEF InitializePending, Messages, ChannelTypes
<1>2. real' \in [Channels -> {"none", "connecting", "open", "closing"}]
  BY DEF InitializePending, Messages, ChannelTypes
<1>3. ChannelTypes'
  BY <1>1, <1>2 DEF InitializePending, Messages, ChannelTypes, messageVars
<1>4. ASSUME NEW c \in Channels
      PROVE  InOrder(c)'
  <2>1. real'[c] # "open" /\ lost[c] = {} /\ ~flushing[c] /\ InOrder(c)
    BY DEF InitializePending, Messages, InOrder, Placed
  <2>2. Kept(c)'
    BY <2>1 DEF InitializePending, InOrder, Kept, messageVars
  <2>3. Placed(c)'
    BY <2>1 DEF InitializePending, InOrder, Placed, messageVars
  <2> QED
    BY <2>2, <2>3 DEF InOrder
<1> QED
  BY <1>3, <1>4 DEF Messages

\* What a packet changes beside the packets.
LEMMA HandlePacketKeeps ==
  ASSUME Messages, DtlsTypes, SctpTypes, Stage, NEW p, HandlePacket(p),
         UNCHANGED <<dtlsVars, closing>>
  PROVE  /\ Messages' /\ DtlsTypes'
         /\ assoc' \in {"none", "closed", "connecting", "established", "shutdown"}
<1>1. CASE UNCHANGED <<assoc, state, channelVars>>
  BY <1>1, MessagesKept, DtlsKept DEF SctpTypes
<1>2. CASE /\ assoc \in {"closed", "connecting"} /\ assoc' = "established"
           /\ state' = "connected" /\ InitializePending
  <2>1. Messages'
    BY <1>2, InitializePendingKeeps DEF Stage
  <2> QED
    BY <1>2, <2>1 DEF DtlsTypes, dtlsVars
<1> QED
  BY <1>1, <1>2 DEF HandlePacket

LEMMA HandleSctpDataKeeps == ASSUME TransportInv, Stage, HandleSctpData  PROVE  TransportInv'
<1>1. /\ IceTypes' /\ arrived + 1 \in 1..MaxPackets /\ arrived' = arrived + 1 /\ arrived \in Nat
      /\ Packets /\ SctpTypes /\ DtlsTypes /\ Messages
      /\ UNCHANGED replaying
  BY IceKept, Bounds DEF TransportInv, HandleSctpData, Packets, SctpTypes
<1>2. 1..arrived' = 1..arrived \cup {arrived'}
  BY <1>1
<1>3. CASE assoc = "none"
  <2>1. /\ buffer' = Append(buffer, arrived') /\ UNCHANGED <<assoc, handed, state, channelVars>>
    BY <1>3 DEF HandleSctpData
  <2>2. /\ buffer' \in Seq(1..MaxPackets) /\ Len(buffer') = Len(buffer) + 1
        /\ Len(buffer) \in Nat /\ Len(handed) \in Nat
    BY <1>1, <2>1 DEF SctpTypes
  <2>3. ToSet(buffer') = ToSet(buffer) \cup {arrived'}
    <3> DEFINE P == 1..MaxPackets
    <3>1. buffer \in Seq(P) /\ arrived' \in P
      BY <1>1 DEF SctpTypes
    <3> HIDE DEF P
    <3>2. ToSet(Append(buffer, arrived')) = ToSet(buffer) \cup {arrived'}
      BY <3>1, ToSetAppend
    <3> QED
      BY Zenon, <2>1, <3>2
  <2>4. HandedOnce'
    BY <1>1, <1>2, <2>1, <2>2, <2>3 DEF Packets, HandedOnce
  <2>5. SctpTypes'
    BY <1>1, <2>1, <2>2 DEF SctpTypes
  <2>6. Messages' /\ DtlsTypes'
    BY <1>1, <2>1, MessagesKept, DtlsKept DEF HandleSctpData
  <2> QED
    BY <1>1, <2>4, <2>5, <2>6 DEF TransportInv, Packets
<1>4. CASE assoc # "none"
  <2>1. HandlePacket(arrived') /\ handed' = Append(handed, arrived') /\ UNCHANGED buffer
    BY <1>4 DEF HandleSctpData, HandlePacket
  <2>2. /\ handed' \in Seq(1..MaxPackets) /\ Len(handed') = Len(handed) + 1
        /\ Len(buffer) \in Nat /\ Len(handed) \in Nat
    BY <1>1, <2>1 DEF SctpTypes
  <2>3. ToSet(handed') = ToSet(handed) \cup {arrived'}
    <3> DEFINE P == 1..MaxPackets
    <3>1. handed \in Seq(P) /\ arrived' \in P
      BY <1>1 DEF SctpTypes
    <3> HIDE DEF P
    <3>2. ToSet(Append(handed, arrived')) = ToSet(handed) \cup {arrived'}
      BY <3>1, ToSetAppend
    <3> QED
      BY Zenon, <2>1, <3>2
  <2>4. HandedOnce'
    BY <1>1, <1>2, <2>1, <2>2, <2>3 DEF Packets, HandedOnce
  <2>5. /\ Messages' /\ DtlsTypes'
        /\ assoc' \in {"none", "closed", "connecting", "established", "shutdown"}
    BY <1>1, <2>1, HandlePacketKeeps DEF HandleSctpData
  <2>6. SctpTypes'
    BY <1>1, <2>1, <2>2, <2>5 DEF SctpTypes
  <2> QED
    BY <1>1, <2>4, <2>5, <2>6 DEF TransportInv, Packets
<1> QED
  BY <1>3, <1>4

LEMMA ReplayNextKeeps == ASSUME TransportInv, Stage, ReplayNext  PROVE  TransportInv'
<1>1. IceTypes' /\ Packets /\ SctpTypes /\ DtlsTypes /\ Messages /\ UNCHANGED arrived
  BY IceKept DEF TransportInv, ReplayNext, Packets
<1>2. CASE buffer = << >>
  <2>1. UNCHANGED <<buffer, handed, arrived>> /\ Connect(assoc) /\ replaying' = FALSE
    BY <1>2 DEF ReplayNext
  <2>2. assoc' \in {"none", "closed", "connecting", "established", "shutdown"}
    BY <1>1, <2>1 DEF SctpTypes, Connect
  <2>3. Packets'
    BY <1>1, <2>1, <2>2 DEF Packets, SctpTypes, HandedOnce
  <2>4. Messages' /\ DtlsTypes'
    BY <1>1, <1>2, MessagesKept, DtlsKept DEF ReplayNext
  <2> QED
    BY <1>1, <2>3, <2>4 DEF TransportInv
<1>3. CASE buffer # << >>
  <2>1. /\ HandlePacket(Head(buffer)) /\ handed' = Append(handed, Head(buffer))
        /\ buffer' = Tail(buffer) /\ UNCHANGED <<replaying, dtlsVars, closing>>
    BY <1>3 DEF ReplayNext, HandlePacket
  <2>2. /\ Messages' /\ DtlsTypes'
        /\ assoc' \in {"none", "closed", "connecting", "established", "shutdown"}
    BY <1>1, <2>1, HandlePacketKeeps
  <2>3. Packets'
    BY <1>1, <1>3, <2>1, <2>2, FirstIsHandedOver DEF Packets, SctpTypes
  <2> QED
    BY <1>1, <2>2, <2>3 DEF TransportInv
<1> QED
  BY <1>2, <1>3

LEMMA ReplayFailsKeeps == ASSUME TransportInv, ReplayFails  PROVE  TransportInv'
<1>1. IceTypes' /\ DtlsTypes' /\ Messages'
  BY IceKept, DtlsKept, MessagesKept DEF TransportInv, ReplayFails
<1>2. Packets'
  BY DEF TransportInv, ReplayFails, Packets, SctpTypes, HandedOnce
<1> QED
  BY <1>1, <1>2 DEF TransportInv

-----------------------------------------------------------------------------
(* Channels *)

\* The variables that the channels leave alone.
Beside == UNCHANGED <<iceAll, dtlsVars, state, closing, sctpVars>>

LEMMA BesideKeeps ==
  ASSUME TransportInv, Beside
  PROVE  IceTypes' /\ DtlsTypes' /\ Packets'
  BY IceKept, DtlsKept, PacketsKept DEF TransportInv, Beside

LEMMA ToSetConcat ==
  ASSUME NEW S, NEW s \in Seq(S), NEW t \in Seq(S)
  PROVE  ToSet(s \o t) = ToSet(s) \cup ToSet(t)
<1>1. /\ DOMAIN s = 1..Len(s) /\ DOMAIN t = 1..Len(t) /\ DOMAIN (s \o t) = 1..(Len(s) + Len(t))
      /\ \A i \in 1..Len(s) : (s \o t)[i] = s[i] /\ i \in 1..(Len(s) + Len(t))
      /\ \A i \in 1..Len(t) : /\ (s \o t)[Len(s) + i] = t[i]
                             /\ Len(s) + i \in 1..(Len(s) + Len(t))
  OBVIOUS
<1>2. \A i \in 1..(Len(s) + Len(t)) :
         \/ i \in 1..Len(s) /\ (s \o t)[i] = s[i]
         \/ i - Len(s) \in 1..Len(t) /\ (s \o t)[i] = t[i - Len(s)]
  OBVIOUS
<1>3. ToSet(s) \cup ToSet(t) \subseteq ToSet(s \o t)
  BY Zenon, <1>1 DEF ToSet
<1>4. ToSet(s \o t) \subseteq ToSet(s) \cup ToSet(t)
  BY Zenon, <1>1, <1>2 DEF ToSet
<1> QED
  BY <1>3, <1>4

LEMMA NumbersOf ==
  ASSUME NEW M \in Nat, NEW s \in Seq(1..M)
  PROVE  /\ s \in Seq(Nat) /\ ToSet(s) \subseteq 1..M
         /\ \A i \in DOMAIN s : s[i] \in Nat
         /\ \A x \in 1..M : ToSet(Append(s, x)) = ToSet(s) \cup {x}
<1>1. \A i \in DOMAIN s : s[i] \in 1..M
  OBVIOUS
<1>2. s \in Seq(Nat)
  OBVIOUS
<1>3. ToSet(s) \subseteq 1..M
  BY Zenon, <1>1 DEF ToSet
<1>4. \A x \in 1..M : ToSet(Append(s, x)) = ToSet(s) \cup {x}
  BY ToSetAppend
<1> QED
  BY <1>1, <1>2, <1>3, <1>4

\* What is ahead of an ordered sequence makes one ordered sequence with it.
LEMMA OrderedConcat ==
  ASSUME NEW S, NEW s \in Seq(S), NEW t \in Seq(S), NEW e,
         Ordered(e, s), Ordered(e, t), Ahead(e, s, t)
  PROVE  Ordered(e, s \o t)
<1> SUFFICES ASSUME NEW i \in DOMAIN (s \o t), NEW j \in DOMAIN (s \o t), i < j
             PROVE  InTurn(e, (s \o t)[i], (s \o t)[j])
  BY DEF Ordered
<1>1. /\ DOMAIN s = 1..Len(s) /\ DOMAIN t = 1..Len(t) /\ Len(s) \in Nat /\ Len(t) \in Nat
      /\ i \in 1..(Len(s) + Len(t)) /\ j \in 1..(Len(s) + Len(t))
  OBVIOUS
<1>2. CASE j \in 1..Len(s)
  <2>1. i \in 1..Len(s) /\ (s \o t)[i] = s[i] /\ (s \o t)[j] = s[j]
    BY <1>1, <1>2
  <2> QED
    BY <1>1, <1>2, <2>1 DEF Ordered
<1>3. CASE i \in 1..Len(s) /\ j \notin 1..Len(s)
  <2>1. j - Len(s) \in 1..Len(t) /\ (s \o t)[i] = s[i] /\ (s \o t)[j] = t[j - Len(s)]
    BY <1>1, <1>3
  <2> QED
    BY <1>1, <1>3, <2>1 DEF Ahead
<1>4. CASE i \notin 1..Len(s)
  <2>1. /\ i - Len(s) \in 1..Len(t) /\ j - Len(s) \in 1..Len(t) /\ i - Len(s) < j - Len(s)
        /\ (s \o t)[i] = t[i - Len(s)] /\ (s \o t)[j] = t[j - Len(s)]
    BY <1>1, <1>4
  <2> QED
    BY <1>1, <2>1 DEF Ordered
<1> QED
  BY <1>1, <1>2, <1>3, <1>4

\* A new last element, greater than all: after the others, and, as one that may come too
\* soon, before those of another sequence.
LEMMA AppendKeepsTurns ==
  ASSUME NEW s \in Seq(Nat), NEW t \in Seq(Nat), NEW x \in Nat, NEW e, NEW f, e \subseteq f,
         \A i \in DOMAIN s : s[i] < x, \A i \in DOMAIN t : t[i] < x
  PROVE  /\ Ordered(e, s) => Ordered(f, s)
         /\ Ordered(e, s) => Ordered(f, Append(s, x))
         /\ Ahead(e, s, t) => Ahead(f, s, Append(t, x))
         /\ Ahead(e, s, t) /\ (x \in f \/ t = << >>) => Ahead(f, Append(s, x), t)
<1> DEFINE u == Append(s, x)
           v == Append(t, x)
<1>1. /\ DOMAIN s = 1..Len(s) /\ DOMAIN t = 1..Len(t) /\ Len(s) \in Nat /\ Len(t) \in Nat
      /\ DOMAIN u = 1..(Len(s) + 1) /\ DOMAIN v = 1..(Len(t) + 1)
      /\ \A i \in 1..Len(s) : u[i] = s[i] /\ s[i] \in Nat
      /\ \A i \in 1..Len(t) : v[i] = t[i] /\ t[i] \in Nat
      /\ u[Len(s) + 1] = x /\ v[Len(t) + 1] = x
      /\ t = << >> => Len(t) = 0
  OBVIOUS
<1>a. /\ \A k \in 1..(Len(s) + 1) : k \in 1..Len(s) \/ k = Len(s) + 1
      /\ \A k \in 1..(Len(t) + 1) : k \in 1..Len(t) \/ k = Len(t) + 1
      /\ \A k \in 1..(Len(s) + 1) : k < Len(s) + 1 => k \in 1..Len(s)
  OBVIOUS
<1> HIDE DEF u, v
<1>2. ASSUME Ordered(e, s)
      PROVE  Ordered(f, s)
  BY <1>1, <1>2 DEF Ordered, InTurn
<1>3. ASSUME Ordered(e, s)
      PROVE  Ordered(f, u)
  <2> SUFFICES ASSUME NEW i \in 1..(Len(s) + 1), NEW j \in 1..(Len(s) + 1), i < j
               PROVE  InTurn(f, u[i], u[j])
    BY <1>1 DEF Ordered
  <2>1. i \in 1..Len(s) /\ u[i] = s[i]
    BY <1>1, <1>a
  <2>2. CASE j = Len(s) + 1
    BY <1>1, <2>1, <2>2 DEF InTurn
  <2>3. CASE j \in 1..Len(s)
    BY <1>1, <1>3, <2>1, <2>3 DEF Ordered, InTurn
  <2> QED
    BY <1>a, <2>2, <2>3
<1>4. ASSUME Ahead(e, s, t)
      PROVE  Ahead(f, s, v)
  <2> SUFFICES ASSUME NEW i \in 1..Len(s), NEW j \in 1..(Len(t) + 1)
               PROVE  InTurn(f, s[i], v[j])
    BY <1>1 DEF Ahead
  <2>1. CASE j = Len(t) + 1
    BY <1>1, <2>1 DEF InTurn
  <2>2. CASE j \in 1..Len(t)
    BY <1>1, <1>4, <2>2 DEF Ahead, InTurn
  <2> QED
    BY <1>a, <2>1, <2>2
<1>5. ASSUME Ahead(e, s, t), x \in f \/ t = << >>
      PROVE  Ahead(f, u, t)
  <2> SUFFICES ASSUME NEW i \in 1..(Len(s) + 1), NEW j \in 1..Len(t)
               PROVE  InTurn(f, u[i], t[j])
    BY <1>1 DEF Ahead
  <2>1. CASE i = Len(s) + 1
    <3>1. u[i] = x
      BY <1>1, <2>1
    <3>2. t[j] < x
      BY <1>1
    <3>3. t # << >>
      BY <1>1
    <3> QED
      BY <1>5, <3>1, <3>2, <3>3 DEF InTurn
  <2>2. CASE i \in 1..Len(s)
    BY <1>1, <1>5, <2>2 DEF Ahead, InTurn
  <2> QED
    BY <1>a, <2>1, <2>2
<1> QED
  BY <1>2, <1>3, <1>4, <1>5 DEF u, v

LEMMA CreateDataChannelKeeps ==
  ASSUME TransportInv, NEW c \in Channels, CreateDataChannel(c)
  PROVE  TransportInv'
<1>1. IceTypes' /\ DtlsTypes' /\ Packets' /\ Messages
  BY BesideKeeps DEF CreateDataChannel, Beside, TransportInv
<1>2. ChannelTypes'
  <2>1. CASE assoc = "established"
    BY <1>1, <2>1 DEF Messages, ChannelTypes, CreateDataChannel, messageVars
  <2>2. CASE assoc # "established"
    <3>1. made' \in [Channels -> {"none", "proxy", "direct"}] /\ real' = real
      BY <1>1, <2>2 DEF Messages, ChannelTypes, CreateDataChannel
    <3>2. pending' \in Seq(Channels)
      <4>1. pending \in Seq(Channels) /\ pending' = Append(pending, c)
        BY <1>1, <2>2 DEF Messages, ChannelTypes, CreateDataChannel
      <4>2. Append(pending, c) \in Seq(Channels)
        BY <4>1
      <4> QED
        BY Zenon, <4>1, <4>2
    <3> QED
      BY <1>1, <3>1, <3>2 DEF Messages, ChannelTypes, CreateDataChannel, messageVars
  <2> QED
    BY <2>1, <2>2
<1>3. ASSUME NEW d \in Channels
      PROVE  InOrder(d)'
  <2>1. InOrder(d) /\ UNCHANGED messageVars
    BY <1>1 DEF CreateDataChannel, Messages
  <2>2. CASE real'[d] = real[d]
    <3>1. made'[d] = made[d] \/ made[d] # "proxy"
      BY <1>1 DEF CreateDataChannel, Messages, ChannelTypes
    <3> QED
      BY <2>1, <2>2, <3>1 DEF InOrder, Kept, Placed, messageVars
  <2>3. CASE real'[d] # real[d]
    <3>1. d = c /\ made[d] = "none" /\ made'[d] = "direct" /\ real'[d] = "connecting"
      BY <1>1, <2>3 DEF CreateDataChannel, Messages, ChannelTypes
    <3> QED
      BY <2>1, <3>1 DEF InOrder, Kept, Placed, messageVars
  <2> QED
    BY <2>2, <2>3
<1> QED
  BY <1>1, <1>2, <1>3 DEF TransportInv, Messages

\* One channel's messages change.
LEMMA OneChannelKeeps ==
  ASSUME TransportInv, Beside, UNCHANGED <<made, pending, closed>>, NEW c \in Channels,
         ChannelTypes', InOrder(c)',
         \A d \in Channels \ {c} :
            /\ sent'[d] = sent[d] /\ queue'[d] = queue[d] /\ calls'[d] = calls[d]
            /\ real'[d] = real[d] /\ flushing'[d] = flushing[d]
            /\ early'[d] = early[d] /\ lost'[d] = lost[d]
  PROVE  TransportInv'
<1>1. IceTypes' /\ DtlsTypes' /\ Packets' /\ Messages
  BY BesideKeeps DEF TransportInv
<1>2. ASSUME NEW d \in Channels \ {c}
      PROVE  InOrder(d)'
  <2>1. InOrder(d)
    BY <1>1 DEF Messages
  <2> QED
    BY <2>1 DEF InOrder, Kept, Placed
<1> QED
  BY <1>1, <1>2 DEF TransportInv, Messages

LEMMA SendKeeps ==
  ASSUME TransportInv, NEW c \in Channels, Send(c)
  PROVE  TransportInv'
<1> DEFINE n == calls[c]
           s == sent[c]
           t == queue[c]
<1>1. Beside /\ Messages /\ InOrder(c)
  BY DEF Send, Beside, TransportInv, Messages
<1>2. /\ n \in Nat /\ n + 1 \in 1..MaxSends /\ calls' = [calls EXCEPT ![c] = n + 1]
      /\ calls'[c] = n + 1 /\ UNCHANGED <<made, pending, real, closed, flushing, lost>>
      /\ s \in Seq(1..MaxSends) /\ t \in Seq(1..MaxSends)
  BY <1>1, Bounds DEF Messages, ChannelTypes, Send
<1>3. /\ \A i \in DOMAIN s : s[i] < n + 1
      /\ \A i \in DOMAIN t : t[i] < n + 1
  <2>1. /\ \A i \in DOMAIN s : s[i] \in 1..n
        /\ \A i \in DOMAIN t : t[i] \in 1..n
    BY <1>1 DEF InOrder, Kept, ToSet
  <2> QED
    BY <1>2, <2>1
<1>4. s \in Seq(Nat) /\ t \in Seq(Nat)
  <2> HIDE DEF s, t
  <2> QED
    BY <1>2, Bounds, NumbersOf
<1>5. /\ ToSet(Append(s, n + 1)) = ToSet(s) \cup {n + 1}
      /\ ToSet(Append(t, n + 1)) = ToSet(t) \cup {n + 1}
  <2> HIDE DEF s, t, n
  <2> QED
    BY <1>2, Bounds, NumbersOf
<1>6. /\ ToSet(s) \cup ToSet(t) \cup {n + 1} = 1..(n + 1) \ lost[c]
      /\ lost[c] \subseteq 1..(n + 1)
  <2>1. /\ ToSet(s) \cup ToSet(t) = 1..n \ lost[c] /\ lost[c] \subseteq 1..n
    BY <1>1 DEF InOrder, Kept
  <2>2. 1..(n + 1) = 1..n \cup {n + 1} /\ n + 1 \notin 1..n
    BY <1>2
  <2> HIDE DEF n, s, t
  <2> QED
    BY <2>1, <2>2
<1>7. Ordered(early[c], s) /\ Ordered(early[c], t) /\ Ahead(early[c], s, t) /\ Placed(c)
  BY <1>1 DEF InOrder, Kept
<1>8. CASE real[c] = "open"
  <2>1. /\ sent' = [sent EXCEPT ![c] = Append(@, n + 1)] /\ queue' = queue
        /\ early' = [early EXCEPT ![c] = IF flushing[c] /\ t # << >> THEN @ \cup {n + 1} ELSE @]
    BY <1>2, <1>8 DEF Send, SendNow
  <2>2. early[c] \subseteq early'[c] /\ (n + 1 \in early'[c] \/ t = << >>)
    BY <1>1, <1>7, <1>8, <2>1 DEF Placed, Messages, ChannelTypes
  <2>3. ChannelTypes'
    <3>1. sent' \in [Channels -> Seq(1..MaxSends)] /\ calls' \in [Channels -> 0..MaxSends]
      BY <1>1, <1>2, <2>1 DEF Messages, ChannelTypes
    <3>2. early' \in [Channels -> SUBSET (1..MaxSends)]
      BY <1>1, <1>2, <2>1 DEF Messages, ChannelTypes
    <3> QED
      BY <1>1, <1>2, <2>1, <3>1, <3>2 DEF Messages, ChannelTypes
  <2>4. sent'[c] = Append(s, n + 1) /\ queue'[c] = t
    BY <1>1, <2>1 DEF Messages, ChannelTypes
  <2>5. /\ Ordered(early'[c], Append(s, n + 1)) /\ Ordered(early'[c], t)
        /\ Ahead(early'[c], Append(s, n + 1), t)
    <3> DEFINE x == n + 1
               e == early[c]
               f == early'[c]
    <3>1. x \in Nat /\ \A i \in DOMAIN s : s[i] < x
      BY <1>2, <1>3
    <3>2. \A i \in DOMAIN t : t[i] < x
      BY <1>3
    <3>3. e \subseteq f /\ (x \in f \/ t = << >>)
      BY <2>2
    <3>4. Ordered(e, s) /\ Ordered(e, t) /\ Ahead(e, s, t)
      BY <1>7
    <3> HIDE DEF x, e, f, s, t, n
    <3>5. Ordered(f, Append(s, x)) /\ Ahead(f, Append(s, x), t)
      BY <1>4, <3>1, <3>2, <3>3, <3>4, AppendKeepsTurns
    <3>6. Ordered(f, t)
      BY <1>4, <3>1, <3>2, <3>3, <3>4, AppendKeepsTurns
    <3> QED
      BY <3>5, <3>6 DEF x, f
  <2>6. InOrder(c)'
    <3>1. Kept(c)'
      BY <1>2, <1>5, <1>6, <2>4, <2>5 DEF Kept
    <3>2. Placed(c)'
      BY <1>2, <1>7, <2>4 DEF Placed
    <3> QED
      BY <3>1, <3>2 DEF InOrder
  <2>7. \A d \in Channels \ {c} :
           sent'[d] = sent[d] /\ calls'[d] = calls[d] /\ early'[d] = early[d]
    BY <1>1, <1>2, <2>1 DEF Messages, ChannelTypes
  <2> QED
    BY <1>1, <1>2, <2>1, <2>3, <2>6, <2>7, OneChannelKeeps
<1>9. CASE real[c] # "open"
  <2>1. queue' = [queue EXCEPT ![c] = Append(@, n + 1)] /\ sent' = sent /\ early' = early
    BY <1>2, <1>9 DEF Send, SendLater
  <2>2. made[c] = "proxy"
    BY DEF Send
  <2>3. ChannelTypes'
    BY <1>1, <1>2, <2>1 DEF Messages, ChannelTypes
  <2>4. sent'[c] = s /\ queue'[c] = Append(t, n + 1)
    BY <1>1, <2>1 DEF Messages, ChannelTypes
  <2>5. /\ Ordered(early[c], Append(t, n + 1)) /\ Ahead(early[c], s, Append(t, n + 1))
    <3> DEFINE x == n + 1
               e == early[c]
    <3>1. x \in Nat /\ \A i \in DOMAIN s : s[i] < x
      BY <1>2, <1>3
    <3>2. \A i \in DOMAIN t : t[i] < x
      BY <1>3
    <3>3. Ordered(e, t) /\ Ahead(e, s, t) /\ e \subseteq e
      BY <1>7
    <3> HIDE DEF x, e, s, t, n
    <3> QED
      BY <1>4, <3>1, <3>2, <3>3, AppendKeepsTurns DEF x, e
  <2>6. InOrder(c)'
    <3>1. Kept(c)'
      BY <1>2, <1>5, <1>6, <1>7, <2>1, <2>4, <2>5 DEF Kept
    <3>2. Placed(c)'
      BY <1>2, <1>7, <1>9, <2>2, <2>4 DEF Placed
    <3> QED
      BY <3>1, <3>2 DEF InOrder
  <2>7. \A d \in Channels \ {c} : queue'[d] = queue[d] /\ calls'[d] = calls[d]
    BY <1>1, <1>2, <2>1 DEF Messages, ChannelTypes
  <2> QED
    BY <1>1, <1>2, <2>1, <2>3, <2>6, <2>7, OneChannelKeeps
<1> QED
  BY <1>8, <1>9

LEMMA ChannelOpensKeeps ==
  ASSUME TransportInv, NEW c \in Channels, ChannelOpens(c)
  PROVE  TransportInv'
<1>1. /\ Beside /\ Messages /\ InOrder(c)
      /\ UNCHANGED <<made, pending, closed, queue, sent, calls, early, lost>>
  BY DEF ChannelOpens, Beside, TransportInv, Messages
<1>2. /\ real' \in [Channels -> {"none", "connecting", "open", "closing"}]
      /\ real[c] = "connecting" /\ real'[c] = "open"
      /\ \A d \in Channels \ {c} : real'[d] = real[d]
  BY <1>1 DEF Messages, ChannelTypes, ChannelOpens
<1>3. /\ flushing' \in [Channels -> BOOLEAN] /\ flushing'[c] = (made[c] = "proxy")
      /\ \A d \in Channels \ {c} : flushing'[d] = flushing[d]
  BY <1>1, Zenon DEF Messages, ChannelTypes, ChannelOpens
<1>4. ChannelTypes'
  BY <1>1, <1>2, <1>3 DEF Messages, ChannelTypes
<1>5. InOrder(c)'
  <2>1. Kept(c)'
    BY <1>1 DEF InOrder, Kept
  <2>2. Placed(c)'
    BY <1>1, <1>2, <1>3 DEF InOrder, Placed
  <2> QED
    BY <2>1, <2>2 DEF InOrder
<1> QED
  BY <1>1, <1>2, <1>3, <1>4, <1>5, OneChannelKeeps

\* The queue goes to the end of what is sent, or is lost: it has nothing in common with that.
LEMMA FlushKeeps ==
  ASSUME TransportInv, NEW c \in Channels, Flush(c)
  PROVE  TransportInv'
<1> DEFINE s == sent[c]
           t == queue[c]
<1>1. /\ Beside /\ Messages /\ InOrder(c)
      /\ UNCHANGED <<made, pending, real, closed, calls, early>>
  BY DEF Flush, Beside, TransportInv, Messages
<1>2. /\ queue' \in [Channels -> Seq(1..MaxSends)] /\ queue'[c] = << >>
      /\ \A d \in Channels \ {c} : queue'[d] = queue[d]
  BY <1>1 DEF Messages, ChannelTypes, Flush
<1>3. /\ flushing' \in [Channels -> BOOLEAN] /\ flushing'[c] = FALSE
      /\ \A d \in Channels \ {c} : flushing'[d] = flushing[d]
  BY <1>1 DEF Messages, ChannelTypes, Flush
<1>4. /\ s \in Seq(1..MaxSends) /\ t \in Seq(1..MaxSends) /\ flushing[c]
      /\ DOMAIN << >> = {} /\ ToSet(<< >>) = {}
  BY <1>1 DEF Messages, ChannelTypes, Flush, ToSet
<1>5. /\ Ordered(early[c], s) /\ Ordered(early[c], t) /\ Ahead(early[c], s, t)
      /\ ToSet(s) \cup ToSet(t) = 1..calls[c] \ lost[c] /\ lost[c] \subseteq 1..calls[c]
      /\ Placed(c)
  BY <1>1 DEF InOrder, Kept
<1>6. Ordered(early[c], << >>) /\ \A u : Ahead(early[c], u, << >>)
  BY <1>4 DEF Ordered, Ahead
<1>7. CASE real[c] = "open"
  <2>1. /\ sent' = [sent EXCEPT ![c] = s \o t] /\ lost' = lost
    BY <1>7 DEF Flush
  <2>2. s \o t \in Seq(1..MaxSends)
    BY <1>4
  <2>3. /\ sent' \in [Channels -> Seq(1..MaxSends)] /\ sent'[c] = s \o t
        /\ \A d \in Channels \ {c} : sent'[d] = sent[d]
    <3> HIDE DEF s, t
    <3> QED
      BY <1>1, <2>1, <2>2 DEF Messages, ChannelTypes
  <2>4. ChannelTypes'
    BY <1>1, <1>2, <1>3, <2>1, <2>3 DEF Messages, ChannelTypes
  <2>5. Ordered(early[c], s \o t)
    BY <1>4, <1>5, OrderedConcat
  <2>6. ToSet(s \o t) = ToSet(s) \cup ToSet(t)
    BY <1>4, ToSetConcat
  <2>7. InOrder(c)'
    <3>1. Kept(c)'
      BY <1>1, <1>2, <1>4, <1>5, <1>6, <2>1, <2>3, <2>5, <2>6 DEF Kept
    <3>2. Placed(c)'
      BY <1>1, <1>2, <1>3, <1>5, <2>1 DEF Placed
    <3> QED
      BY <3>1, <3>2 DEF InOrder
  <2> QED
    BY <1>1, <1>2, <1>3, <2>1, <2>3, <2>4, <2>7, OneChannelKeeps
<1>8. CASE real[c] # "open"
  <2>1. lost' = [lost EXCEPT ![c] = @ \cup ToSet(t)] /\ sent' = sent
    BY <1>8 DEF Flush
  <2>2. ToSet(t) \subseteq 1..MaxSends /\ real[c] = "closing" /\ made[c] = "proxy"
    <3>1. ToSet(t) \subseteq 1..MaxSends
      <4> HIDE DEF t
      <4> QED
        BY <1>4, Bounds, NumbersOf
    <3> QED
      BY <1>4, <1>5, <1>8, <3>1 DEF Placed
  <2>3. /\ lost' \in [Channels -> SUBSET (1..MaxSends)] /\ lost'[c] = lost[c] \cup ToSet(t)
        /\ \A d \in Channels \ {c} : lost'[d] = lost[d]
    BY <1>1, <2>1, <2>2 DEF Messages, ChannelTypes
  <2>4. ChannelTypes'
    BY <1>1, <1>2, <1>3, <2>1, <2>3 DEF Messages, ChannelTypes
  <2>5. ToSet(s) \cap ToSet(t) = {}
    <3> SUFFICES ASSUME NEW i \in DOMAIN s, NEW j \in DOMAIN t, s[i] = t[j]
                 PROVE  FALSE
      BY Zenon DEF ToSet
    <3>1. InTurn(early[c], s[i], t[j])
      BY <1>5 DEF Ahead
    <3>2. s[i] \in Nat /\ t[j] \in Nat
      <4> HIDE DEF s, t
      <4> QED
        BY <1>4, Bounds, NumbersOf
    <3> QED
      BY <3>1, <3>2 DEF InTurn
  <2>6. /\ ToSet(s) \cup {} = 1..calls[c] \ (lost[c] \cup ToSet(t))
        /\ lost[c] \cup ToSet(t) \subseteq 1..calls[c]
    <3> HIDE DEF s, t
    <3> QED
      BY <1>5, <2>5
  <2>7. InOrder(c)'
    <3>1. Kept(c)'
      BY <1>1, <1>2, <1>4, <1>5, <1>6, <2>1, <2>3, <2>6 DEF Kept
    <3>2. Placed(c)'
      BY <1>1, <1>2, <1>3, <2>2 DEF Placed
    <3> QED
      BY <3>1, <3>2 DEF InOrder
  <2> QED
    BY <1>1, <1>2, <1>3, <2>1, <2>3, <2>4, <2>7, OneChannelKeeps
<1> QED
  BY <1>7, <1>8

\* Channels close: nothing opens, and nothing is sent.
LEMMA ChannelsClose ==
  ASSUME TransportInv, Beside, UNCHANGED <<made, pending, messageVars>>,
         real' \in [Channels -> {"none", "connecting", "open", "closing"}],
         closed' \in [Channels -> BOOLEAN],
         \A d \in Channels : real'[d] = real[d] \/ real'[d] = "closing"
  PROVE  TransportInv'
<1>1. IceTypes' /\ DtlsTypes' /\ Packets' /\ Messages
  BY BesideKeeps DEF TransportInv
<1>2. ChannelTypes'
  BY <1>1 DEF Messages, ChannelTypes, messageVars
<1>3. ASSUME NEW d \in Channels
      PROVE  InOrder(d)'
  <2>1. Kept(d)' /\ Placed(d)
    BY <1>1 DEF Messages, InOrder, Kept, messageVars
  <2>2. Placed(d)'
    BY <2>1 DEF Placed, messageVars
  <2> QED
    BY <2>1, <2>2 DEF InOrder
<1> QED
  BY <1>1, <1>2, <1>3 DEF TransportInv, Messages

LEMMA CloseChannelKeeps ==
  ASSUME TransportInv, NEW c \in Channels, CloseChannel(c)
  PROVE  TransportInv'
<1>1. ChannelTypes
  BY DEF TransportInv, Messages
<1>2. /\ real' \in [Channels -> {"none", "connecting", "open", "closing"}]
      /\ \A d \in Channels : real'[d] = real[d] \/ real'[d] = "closing"
  BY <1>1 DEF ChannelTypes, CloseChannel
<1>3. closed' \in [Channels -> BOOLEAN]
  BY <1>1 DEF ChannelTypes, CloseChannel
<1> QED
  BY <1>2, <1>3, ChannelsClose DEF CloseChannel, Beside

LEMMA CloseNextKeeps ==
  ASSUME TransportInv, NEW c \in Channels, CloseNext(c)
  PROVE  TransportInv'
<1>1. ChannelTypes
  BY DEF TransportInv, Messages
<1>2. /\ real' \in [Channels -> {"none", "connecting", "open", "closing"}]
      /\ \A d \in Channels : real'[d] = real[d] \/ real'[d] = "closing"
  BY <1>1 DEF ChannelTypes, CloseNext
<1>3. closed' \in [Channels -> BOOLEAN]
  BY <1>1 DEF ChannelTypes, CloseNext
<1> QED
  BY <1>2, <1>3, ChannelsClose DEF CloseNext, Beside

-----------------------------------------------------------------------------
(* close() *)

LEMMA StopKeeps ==
  ASSUME IceTypes, DtlsTypes, Stop \/ UNCHANGED <<ice, timer, dtls>>, StopRest
  PROVE  /\ IceTypes' /\ dtls' \in {"new", "connecting", "connected", "failed", "closed"}
         /\ UNCHANGED <<started, handshaking, buffer, replaying, arrived, handed>>
<1>1. IceFlags'
  BY Zenon DEF IceTypes, IceFlags, Stop, StopRest, iceVars
<1>2. IceCounts' /\ ice' \in IceStates
  BY DEF IceTypes, IceCounts, IceStates, Stop, StopRest, iceVars
<1>3. dtls' \in {"new", "connecting", "connected", "failed", "closed"}
  BY DEF DtlsTypes, Stop
<1> QED
  BY <1>1, <1>2, <1>3 DEF IceTypes, StopRest

LEMMA CloseKeeps == ASSUME TransportInv, Close  PROVE  TransportInv'
<1>1. /\ IceTypes' /\ dtls' \in {"new", "connecting", "connected", "failed", "closed"}
      /\ UNCHANGED <<started, handshaking, buffer, replaying, arrived, handed>>
  BY StopKeeps DEF TransportInv, Close
<1>2. DtlsTypes'
  BY <1>1 DEF TransportInv, DtlsTypes, Close
<1>3. Packets' /\ Messages'
  BY <1>1, PacketsKept, MessagesKept DEF TransportInv, Close, sctpVars
<1> QED
  BY <1>1, <1>2, <1>3 DEF TransportInv

LEMMA CloseEndsKeeps == ASSUME TransportInv, CloseEnds  PROVE  TransportInv'
<1>1. /\ IceTypes' /\ dtls' \in {"new", "connecting", "connected", "failed", "closed"}
      /\ UNCHANGED <<started, handshaking, buffer, replaying, arrived, handed>>
  BY StopKeeps DEF TransportInv, CloseEnds
<1>2. DtlsTypes'
  BY <1>1 DEF TransportInv, DtlsTypes, CloseEnds
<1>3. Packets'
  BY <1>1 DEF TransportInv, CloseEnds, Packets, SctpTypes, HandedOnce
<1>4. Messages'
  BY MessagesKept DEF TransportInv, CloseEnds
<1> QED
  BY <1>1, <1>2, <1>3, <1>4 DEF TransportInv

-----------------------------------------------------------------------------
(* The theorems *)

LEMMA StutterKeeps == ASSUME TransportInv, UNCHANGED vars  PROVE  TransportInv'
  BY IceKept, DtlsKept, PacketsKept, MessagesKept DEF TransportInv, vars, iceAll

LEMMA InvKept == ASSUME TransportInv, Stage, [Next]_vars  PROVE  TransportInv'
<1>1. CASE UNCHANGED vars
  BY <1>1, StutterKeeps
<1>2. CASE Next
  BY <1>2, StartChecksKeeps, NominateKeeps, ChecksFailKeeps, ConsentDueKeeps,
     ConsentAnsweredKeeps, ConsentFailsKeeps, RestartKeeps, PathChangesKeeps, DtlsConnectsKeeps,
     DtlsFailsKeeps, DtlsPeerClosesKeeps, HandleSctpDataKeeps, ReplayNextKeeps,
     ReplayFailsKeeps, CreateDataChannelKeeps, SendKeeps, ChannelOpensKeeps, FlushKeeps,
     CloseChannelKeeps, CloseNextKeeps, CloseKeeps, CloseEndsKeeps
  DEF Next
<1> QED
  BY <1>1, <1>2

\* The steps that set up the association, or initialise or make channels.
LEMMA StageKept == ASSUME TransportInv, Stage, [Next]_vars  PROVE  Stage'
<1> USE DEF Stage
<1>1. real \in [Channels -> {"none", "connecting", "open", "closing"}]
  BY DEF TransportInv, Messages, ChannelTypes
<1>2. ASSUME NEW s, SetIce(s)
      PROVE  Stage'
  BY <1>2 DEF SetIce, StartsDtls, Listening, sctpVars, channelVars
<1>3. CASE StartChecks \/ Nominate \/ ChecksFail \/ ConsentAnswered \/ ConsentFails \/ Restart
  BY <1>2, <1>3 DEF StartChecks, Nominate, ChecksFail, ConsentAnswered, ConsentFails, Restart
<1>4. CASE \/ UNCHANGED vars \/ ConsentDue \/ PathChanges \/ DtlsPeerCloses \/ ReplayFails
           \/ \E c \in Channels : Send(c) \/ Flush(c)
  <2>1. UNCHANGED <<started, handshaking, assoc, real, closing>>
    BY <1>4 DEF vars, ConsentDue, PathChanges, DtlsPeerCloses, ReplayFails, Send, Flush,
                dtlsVars, sctpVars, channelVars
  <2> QED
    BY <2>1
<1>5. CASE DtlsConnects \/ DtlsFails
  <2>1. CASE DtlsConnects
    <3>1. started /\ assoc = "none"
      BY <2>1 DEF DtlsConnects
    <3>2. started' /\ ~handshaking' /\ real' = real /\ closing' = closing
      BY <2>1, <3>1 DEF DtlsConnects, channelVars
    <3>3. assoc' \in {"closed", "connecting"}
      BY <2>1 DEF DtlsConnects, StartSctp, Connect
    <3> QED
      BY <3>1, <3>2, <3>3
  <2>2. CASE DtlsFails
    BY <2>2 DEF DtlsFails, sctpVars, channelVars
  <2> QED
    BY <1>5, <2>1, <2>2
<1>6. ASSUME NEW p, HandlePacket(p), UNCHANGED <<dtlsVars, closing>>
      PROVE  Stage'
  BY <1>6 DEF HandlePacket, dtlsVars, channelVars
<1>7. CASE HandleSctpData \/ ReplayNext
  <2>1. CASE HandleSctpData
    BY <1>6, <2>1 DEF HandleSctpData, dtlsVars, channelVars
  <2>2. CASE ReplayNext
    BY <1>6, <2>2 DEF ReplayNext, Connect, dtlsVars, channelVars
  <2> QED
    BY <1>7, <2>1, <2>2
<1>8. ASSUME NEW c \in Channels,
             CreateDataChannel(c) \/ ChannelOpens(c) \/ CloseChannel(c) \/ CloseNext(c)
      PROVE  Stage'
  BY <1>1, <1>8 DEF CreateDataChannel, ChannelOpens, CloseChannel, CloseNext, dtlsVars, sctpVars
<1>9. CASE Close \/ CloseEnds
  BY <1>9 DEF Close, CloseEnds, StopRest, channelVars
<1> QED
  BY <1>3, <1>4, <1>5, <1>7, <1>8, <1>9 DEF Next

LEMMA AlwaysInv == Spec => []TransportInv
<1>1. Init => TransportInv
  BY InitiallyInv
<1>2. Init => Stage
  BY DEF Init, Stage
<1>3. TransportInv /\ Stage /\ [Next]_vars => TransportInv'
  BY InvKept
<1>4. TransportInv /\ Stage /\ [Next]_vars => Stage'
  BY StageKept
<1> QED
  BY <1>1, <1>2, <1>3, <1>4, PTL DEF Spec

\* The variables of the transport have their types, for any channels and bounds.
THEOREM TransportTypes == Spec => []TypeOK
<1>1. TransportInv => TypeOK
  BY TypesAreTypeOK DEF TransportInv, Packets, Messages
<1> QED
  BY <1>1, AlwaysInv, PTL

\* Every packet that DTLS has delivered is buffered or has been handed to the
\* association, and none twice, for any number of packets, before, during and after the
\* replay, which may fail, and whatever ICE, restarts and close() do meanwhile.
THEOREM AlwaysHandedOnce == Spec => []HandedOnce
<1>1. TransportInv => HandedOnce
  BY DEF TransportInv, Packets
<1> QED
  BY <1>1, AlwaysInv, PTL

\* What was given to send() of a channel made before SCTP was ready is sent once and in
\* order, or queued; only what is sent between the opening and the run of its listener
\* overtakes the queue, and only a close between them loses it, for any number of channels
\* and messages.
THEOREM AlwaysSentOnce == Spec => []SentOnce
<1>1. ASSUME TransportInv, NEW c \in Channels
      PROVE  /\ ToSet(Line(c)) = 1..calls[c] \ lost[c]
             /\ Ordered(early[c], Line(c))
             /\ lost[c] # {} => real[c] = "closing"
  <2>1. /\ sent[c] \in Seq(1..MaxSends) /\ queue[c] \in Seq(1..MaxSends)
        /\ Kept(c) /\ Placed(c)
    BY <1>1 DEF TransportInv, Messages, ChannelTypes, InOrder
  <2>2. ToSet(sent[c] \o queue[c]) = ToSet(sent[c]) \cup ToSet(queue[c])
    BY <2>1, ToSetConcat
  <2>3. Ordered(early[c], sent[c] \o queue[c])
    BY <2>1, OrderedConcat DEF Kept
  <2> QED
    BY <2>1, <2>2, <2>3 DEF Line, Kept, Placed
<1>2. TransportInv => SentOnce
  BY <1>1 DEF SentOnce, Ordered, InTurn, Precedes
<1> QED
  BY <1>2, AlwaysInv, PTL
=============================================================================
