----------------------------- MODULE SrtpScripts -----------------------------
(***************************************************************************)
(* The scripts that repeat the library's SRTCP outside of it:              *)
(* srtp_cipher_vectors.mjs seals a packet for the unit tests to compare    *)
(* with, srtp_gcm_compare.mjs tries a captured packet with every set of    *)
(* parameters somebody might have used by mistake, and                     *)
(* srtp_gcm_werift_style.mjs opens it the way werift does.  A script has a *)
(* result where its code computes one, TRUE where it prints SUCCESS.       *)
(***************************************************************************)
EXTENDS SrtpKeys, SequencesExt

-----------------------------------------------------------------------------
(* srtp_cipher_vectors.mjs *)

\* The salt is padded once, before the derivations, which take it as it is.
VectorMaster(key, salt) == [key |-> key, salt |-> [salt EXCEPT !.length = @ + 2]]
VectorSessionKey(master, label) == Aes(master.key, WithLabel(master.salt, label))
VectorSessionSalt(master, label) ==
  [bytes |-> Aes(master.key, WithLabel(master.salt, label)), length |-> 14]
VectorSessionKeys(master) == [key |-> VectorSessionKey(master, 3),
                              salt |-> VectorSessionSalt(master, 5)]
BuildSrtcpNonce(salt, ssrc, index) ==
  Masked({<<0, 0>>, <<2, ssrc>>, <<6, 0>>, <<8, index>>}, salt)
BuildSrtcpAad(header, index) == [header |-> header, word |-> index + IndexModulo]

\* The packet printed for a receiver report without payload.
Vector(master, header, index) ==
  LET keys == VectorSessionKeys(VectorMaster(master.key, master.salt))
  IN  [header |-> header, word |-> index + IndexModulo,
       box |-> Seal(keys.key, BuildSrtcpNonce(keys.salt, header.ssrc, index),
                    BuildSrtcpAad(header, index), "none")]

-----------------------------------------------------------------------------
(* srtp_gcm_compare.mjs *)

ComparedSalt(salt) == [salt EXCEPT !.length = 14]
CompareSessionKey(master, label) ==
  Aes(master.key, WithLabel(ComparedSalt(master.salt), label))
CompareSessionSalt(master, label) ==
  [bytes |-> Aes(master.key, WithLabel(ComparedSalt(master.salt), label)), length |-> 14]
Compared(master, labels) == [key |-> CompareSessionKey(master, labels.key),
                             salt |-> CompareSessionSalt(master, labels.salt)]

\* "Key match" and "Salt match".
DerivationMatches(master, derived) ==
  /\ CompareSessionKey(master, 3) = derived.key
  /\ CompareSessionSalt(master, 5).bytes = derived.salt.bytes

ComparedNonce(salt, ssrc, index) ==
  Masked({<<0, 0>>, <<2, ssrc>>, <<6, 0>>, <<8, index>>}, salt)
ComparedAad(packet) == [header |-> packet.header, word |-> packet.word]

\* An attempt: keys, the index in the nonce, the additional data.
Try(keys, index, aad, packet) ==
  Opens(keys.key, ComparedNonce(keys.salt, packet.header.ssrc, index), aad, packet.box)

TryDerived(master, packet) ==
  Try(Compared(master, SrtcpLabels), IndexOf(packet.word), ComparedAad(packet), packet)
\* The index first, then the flag ORed into its first byte.
TryWithoutEFlag(master, packet) ==
  Try(Compared(master, SrtcpLabels), IndexOf(packet.word),
      [header |-> packet.header, word |-> IndexOf(packet.word) + IndexModulo], packet)
TryMaster(master, packet) ==
  Try(master, IndexOf(packet.word), ComparedAad(packet), packet)
TryIndexZero(master, packet) ==
  Try(Compared(master, SrtcpLabels), 0, ComparedAad(packet), packet)
TrySrtpKeys(master, packet) ==
  Try(Compared(master, SrtpLabels), IndexOf(packet.word), ComparedAad(packet), packet)
TryLocalKeys(local, packet) ==
  Try(Compared(local, SrtcpLabels), IndexOf(packet.word), ComparedAad(packet), packet)

-----------------------------------------------------------------------------
(* srtp_gcm_werift_style.mjs *)

WeriftSessionKey(master, label) ==
  Aes(master.key, WithLabel([master.salt EXCEPT !.length = 14], label))
WeriftSessionSalt(master, label) ==
  [bytes |-> Aes(master.key, WithLabel([master.salt EXCEPT !.length = 14], label)),
   length |-> 14]
WeriftKeys(master) == [key |-> WeriftSessionKey(master, 3),
                       salt |-> [WeriftSessionSalt(master, 5) EXCEPT !.length = 12]]

\* createBufferWriter: each value at the end of the sizes before it.
BufferWriter(sizes, values) ==
  {<<FoldSeq(+, 0, SubSeq(sizes, 1, k - 1)), values[k]>> : k \in DOMAIN sizes}

\* The captured packet, parsed.
WeriftParsed(packet) ==
  [ssrc |-> packet.header.ssrc, index |-> packet.word % IndexModulo, sealed |-> packet.box]
WeriftIv(salt, parsed) ==
  Masked(BufferWriter(<<2, 4, 2, 4>>, <<0, parsed.ssrc, 0, parsed.index>>), salt)
WeriftAad(packet, parsed) ==
  [header |-> packet.header, word |-> parsed.index + IndexModulo]

\* Without final() the output comes whether or not the tag is right, and what
\* goes in is the ciphertext and the tag behind it.  Out come two pieces: the
\* text, when key and nonce are the sender's, or else "noise", and the sixteen
\* bytes of the tag under the keystream that follows, which no one has sealed.
WeriftUnverified(master, packet) ==
  LET key == WeriftKeys(master).key
      iv == WeriftIv(WeriftKeys(master).salt, WeriftParsed(packet))
      sealed == WeriftParsed(packet).sealed
  IN  <<IF sealed.cipher = <<key, iv, sealed.cipher[3]>> THEN sealed.cipher[3] ELSE "noise",
        <<"keystream", key, iv, sealed.tag>> >>

WeriftVerified(master, packet) ==
  LET keys == WeriftKeys(master)
      parsed == WeriftParsed(packet)
  IN  Opens(keys.key, WeriftIv(keys.salt, parsed), WeriftAad(packet, parsed), parsed.sealed)
=============================================================================
