----------------------------- MODULE SrtpSession -----------------------------
(***************************************************************************)
(* SrtpSession and its ciphers (lib/src/srtp/): the server's media stream  *)
(* to the client and the RTCP packets of both, under AES-GCM ("gcm") or    *)
(* AES-CM with HMAC ("ctr").  Each end has a session made from the same    *)
(* keying material.  The network reorders, loses and repeats; a packet     *)
(* lost by a nonce or counter that the two ends build differently opens as *)
(* garbage ("ctr") or not at all ("gcm").                                  *)
(***************************************************************************)
EXTENDS SrtpScripts, ReplayWindow

CONSTANTS
  Profiles,     \* the protection profiles that may have been negotiated
  FirstNumber,  \* the sequence number of the first media packet
  MaxPackets,   \* bound: media packets sent
  MaxResends,   \* bound: packets sent again on a NACK, from the buffer
  MaxRollovers, \* bound: rollovers that a cipher counts
  MaxReports    \* bound: RTCP packets sent by each end

ASSUME SessionAssumption ==
  /\ Profiles \subseteq {"gcm", "ctr"}
  /\ FirstNumber \in 0..(SeqModulo - 1)
  /\ {MaxPackets, MaxResends, MaxRollovers, MaxReports} \subseteq Nat

Ends == {"client", "server"}
Peer(end) == IF end = "client" THEN "server" ELSE "client"

VARIABLES
  profile,      \* the profile of both sessions
  outbound,     \* the server's _ctrOutbound: its rollover counter
  inbound,      \* the client's _ctrInbound: its rollover counter
  sent,         \* the media packets sent: [number, roc]
  resends,      \* how many of them were sent again
  latest,       \* history: the newest packet decrypted under "ctr", or -1
  reports,      \* the SRTCP packets that each end has sent
  garbled,      \* history: packets decrypted with another counter than the sender's
  straddled     \* history: a cipher met a packet of an earlier rollover, or the
                \* receiver's first packet is of a later one

mediaVars == <<outbound, inbound, sent, resends, latest, garbled, straddled>>
vars == <<profile, mediaVars, reports, windowVars>>

Counters == [roc : Nat, highest : 0..(SeqModulo - 1), first : BOOLEAN]
Packets == [number : Nat, roc : Nat]

TypeOK ==
  /\ profile \in Profiles /\ WindowTypeOK
  /\ outbound \in Counters /\ inbound \in Counters
  /\ sent \subseteq Packets /\ garbled \subseteq sent /\ resends \in 0..MaxResends
  /\ \A end \in Ends : Len(reports[end]) <= MaxReports
  /\ straddled \in BOOLEAN /\ latest \in Nat \cup {-1}

NewCounter == [roc |-> 0, highest |-> 0, first |-> TRUE]

Init ==
  /\ profile \in Profiles /\ WindowInit
  /\ outbound = NewCounter /\ inbound = NewCounter
  /\ sent = {} /\ garbled = {} /\ resends = 0 /\ latest = -1 /\ straddled = FALSE
  /\ reports = [end \in Ends |-> << >>]

-----------------------------------------------------------------------------
(* Media *)

\* _updateRolloverCounter.
\* Mutant: any step back counts as a wrap.
UpdateRolloverCounter_AnyStepBack(counter, seq) ==
  LET delta == seq - counter.highest
  IN  IF counter.first \/ delta > 0
      THEN [counter EXCEPT !.highest = seq, !.first = FALSE]
      ELSE IF delta < 0 THEN [counter EXCEPT !.highest = seq, !.roc = @ + 1] ELSE counter
UpdateRolloverCounter(counter, seq) ==
  LET delta == seq - counter.highest
  IN  IF counter.first \/ delta > 0
      THEN [counter EXCEPT !.highest = seq, !.first = FALSE]
      ELSE IF delta < -Half THEN [counter EXCEPT !.highest = seq, !.roc = @ + 1] ELSE counter

LastNumber == FirstNumber + Cardinality({p.number : p \in sent}) - 1
Rollover(number) == number \div SeqModulo

\* encryptRtp: under "gcm", _getROC keeps zero.
Encrypt(number) ==
  LET counter == IF profile = "ctr" THEN UpdateRolloverCounter(outbound, Sequence(number))
                                    ELSE outbound
  IN  /\ counter.roc <= MaxRollovers
      /\ outbound' = counter
      /\ sent' = sent \cup {[number |-> number, roc |-> counter.roc]}

SendRtp ==
  /\ LastNumber < FirstNumber + MaxPackets - 1
  /\ Encrypt(LastNumber + 1)
  /\ UNCHANGED <<profile, inbound, resends, latest, garbled, straddled, reports, windowVars>>

\* A NACK without RTX: _handleNack encrypts the buffered packet again.
Resend ==
  /\ resends < MaxResends /\ resends' = resends + 1
  /\ \E p \in sent :
       /\ p.number > LastNumber - Half
       /\ Encrypt(p.number)
       /\ straddled' = (straddled \/ Rollover(p.number) < Rollover(LastNumber))
  /\ UNCHANGED <<profile, inbound, latest, garbled, reports, windowVars>>

\* decryptSrtp under "ctr": no window, the counter moves with every packet.
DecryptCtr(p) ==
  LET counter == UpdateRolloverCounter(inbound, Sequence(p.number))
  IN  /\ counter.roc <= MaxRollovers
      /\ inbound' = counter
      /\ garbled' = IF counter.roc = p.roc THEN garbled ELSE garbled \cup {p}
      /\ latest' = IF p.number > latest THEN p.number ELSE latest
      /\ straddled' = (straddled \/ Rollover(p.number) < Rollover(latest)
                                 \/ (latest = -1 /\ Rollover(p.number) > 0))
      /\ UNCHANGED windowVars

\* decrypt under "gcm": the window first, then counter zero.
DecryptGcm(p) ==
  /\ \/ /\ Accept(p.number)
        /\ garbled' = IF p.roc = 0 THEN garbled ELSE garbled \cup {p}
     \/ Refuse(p.number) /\ UNCHANGED garbled
  /\ UNCHANGED <<inbound, straddled, latest>>

ReceiveRtp ==
  /\ \E p \in sent :
       \/ /\ profile = "ctr" /\ DecryptCtr(p)
          /\ latest >= 0 => p.number - latest \in (-Half)..(Half - 1)
       \/ profile = "gcm" /\ InTime(p.number) /\ DecryptGcm(p)
  /\ UNCHANGED <<profile, outbound, sent, resends, reports>>

-----------------------------------------------------------------------------
(* RTCP *)

Header(end) == [type |-> "receiver report", ssrc |-> end]
Session(end) == Masters(KeyMaterial(profile), end = "client")

\* _getAndIncrementIndex counts from 0, _srtcpIndex from 1.
\* Mutant: both count from 1.
NextIndex_FromOne(end) == (Len(reports[end]) + 1) % IndexModulo
NextIndex(end) ==
  IF profile = "gcm" THEN Len(reports[end]) % IndexModulo ELSE Len(reports[end]) + 1

SendRtcp(end) ==
  LET keys == Derived(Session(end).local, SrtcpLabels)
  IN  /\ Len(reports[end]) < MaxReports
      /\ reports' = [reports EXCEPT ![end] =
           Append(@, IF profile = "gcm"
                     THEN SealSrtcp(keys, Header(end), NextIndex(end), "none")
                     ELSE SealSrtcpCtr(keys, Header(end), NextIndex(end), "none"))]
      /\ UNCHANGED <<profile, mediaVars, windowVars>>

\* decryptSrtcp at the other end keeps no state.
DecryptSrtcp(end, packet) ==
  LET keys == Derived(Session(end).remote, SrtcpLabels)
  IN  IF profile = "gcm" THEN OpensSrtcp(keys, packet)
      ELSE packet.word >= IndexModulo /\ DecryptSrtcpCtr(keys, packet, "none")

Next == SendRtp \/ Resend \/ ReceiveRtp \/ \E end \in Ends : SendRtcp(end)

Spec == Init /\ [][Next]_vars

-----------------------------------------------------------------------------
\* The two ends of a stream count the rollovers of its sequence number alike,
\* and as the sender's packet numbers have it, whatever is lost, repeated or
\* reordered, as long as no cipher meets a packet of an earlier rollover again
\* and the first packet to arrive is not already of a later one.
RolloverAgrees ==
  profile = "ctr" /\ ~straddled =>
    garbled = {} /\ \A p \in sent : p.roc = Rollover(p.number)

\* Every SRTCP packet opens at the other end: the roles, labels, nonces and
\* additional data of the two sessions are each other's.
SrtcpOpens ==
  \A end \in Ends : \A i \in DOMAIN reports[end] : DecryptSrtcp(Peer(end), reports[end][i])

\* "Generate SRTP/SRTCP test vectors": what srtp_cipher_vectors.mjs seals is
\* what the library does.
VectorsAgree ==
  profile = "gcm" => \A end \in Ends : \A i \in DOMAIN reports[end] :
    reports[end][i] = Vector(Session(end).local, Header(end), (i - 1) % IndexModulo)

\* Captured at an end, any packet of its peer is opened by the attempts of the
\* scripts that use the derived keys of the peer, the one that puts 0 for the
\* index among them for the first packet only, and by no other; the attempt
\* without final() does not give what the verified one does: its output begins
\* with that text and goes on.
AttemptsExplain ==
  profile = "gcm" => \A end \in Ends : \A i \in DOMAIN reports[Peer(end)] :
    LET packet == reports[Peer(end)][i]
        session == Session(end)
    IN  /\ DerivationMatches(session.remote, Derived(session.remote, SrtcpLabels))
        /\ TryDerived(session.remote, packet) /\ TryWithoutEFlag(session.remote, packet)
        /\ WeriftVerified(session.remote, packet)
        /\ LET output == WeriftUnverified(session.remote, packet)
           IN  Head(output) = packet.box.cipher[3] /\ output # <<packet.box.cipher[3]>>
        /\ TryIndexZero(session.remote, packet) <=> IndexOf(packet.word) = 0
        /\ ~TryMaster(session.remote, packet) /\ ~TrySrtpKeys(session.remote, packet)
        /\ ~TryLocalKeys(session.local, packet)

\* What the library and the three scripts, which repeat its derivations outside
\* of it, make of the same keying material is the same.
ScriptsAgree == VectorsAgree /\ AttemptsExplain
=============================================================================
