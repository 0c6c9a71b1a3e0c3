------------------------------ MODULE SrtpKeys ------------------------------
(***************************************************************************)
(* Keys, nonces and additional data of SRTP and SRTCP: the library's       *)
(* (lib/src/srtp/) and the three scripts that repeat them in Node to find  *)
(* out why a camera's packet did not open (interop/srtp_*.mjs).            *)
(*                                                                         *)
(* Cryptography is ideal: a block cipher or an AEAD gives different        *)
(* outputs for different inputs, so an output is the tuple of its inputs.  *)
(* A byte string is what it is made from, with its length where the code   *)
(* depends on it, and a buffer is the set of the fields written in it,     *)
(* each with its offset.                                                   *)
(***************************************************************************)
EXTENDS Integers

CONSTANT IndexModulo      \* 2^31, beyond which an SRTCP index wraps

ASSUME IndexAssumption == IndexModulo \in Nat \ {0}

Aes(key, block) == <<"aes", key, block>>
Seal(key, nonce, aad, plain) ==
  [cipher |-> <<key, nonce, plain>>, tag |-> <<key, nonce, aad, plain>>]

\* createDecipheriv, setAuthTag, setAAD, update and final, which throws unless
\* the tag is the one of these parameters.
Opens(key, nonce, aad, box) == box.tag = <<key, nonce, aad, box.cipher[3]>>

-----------------------------------------------------------------------------
(* Key derivation in the library *)

SrtpLabels == [key |-> 0, salt |-> 2]
SrtcpLabels == [key |-> 3, salt |-> 5]

\* Mutant: the salt of twelve bytes is used as it is.
PadSaltTo14Bytes_Not(salt) == salt
PadSaltTo14Bytes(salt) == [salt EXCEPT !.length = 14]

\* The seven bytes of label and index are XORed on the end of the salt: the
\* label, the first of them, falls on byte length - 7.
WithLabel(salt, label) == <<salt.bytes, [byte |-> salt.length - 7, label |-> label]>>

GenerateSessionKey(master, label) ==
  Aes(master.key, WithLabel(PadSaltTo14Bytes(master.salt), label))
GenerateSessionSalt(master, label) ==
  [bytes |-> Aes(master.key, WithLabel(PadSaltTo14Bytes(master.salt), label)), length |-> 14]

\* What an end seals with, and what its peer is to open with: the keying
\* material is the client's key, the server's key, and their salts.
KeyMaterial(profile) ==
  LET length == IF profile = "gcm" THEN 12 ELSE 14
  IN  <<"ck", "sk", [bytes |-> "cs", length |-> length], [bytes |-> "ss", length |-> length]>>

\* Mutant: each end takes the remote salt next to the remote key.
Masters_SaltNextToKey(material, isClient) ==
  LET client == [key |-> material[1], salt |-> material[3]]
      server == [key |-> material[2], salt |-> material[4]]
  IN  IF isClient THEN [local |-> client, remote |-> [server EXCEPT !.salt = material[3]]]
                  ELSE [local |-> server, remote |-> client]
Masters(material, isClient) ==
  LET client == [key |-> material[1], salt |-> material[3]]
      server == [key |-> material[2], salt |-> material[4]]
  IN  IF isClient THEN [local |-> client, remote |-> server]
                  ELSE [local |-> server, remote |-> client]

Derived(master, labels) == [key |-> GenerateSessionKey(master, labels.key),
                            salt |-> GenerateSessionSalt(master, labels.salt)]

-----------------------------------------------------------------------------
(* Nonces, additional data and packets in the library *)

\* XOR with the first twelve bytes of the salt.
Masked(fields, salt) == [fields |-> fields, mask |-> salt.bytes]

SrtpNonce(salt, ssrc, seq, roc) ==
  Masked({<<0, 0>>, <<2, ssrc>>, <<6, roc>>, <<10, seq>>}, salt)
SrtcpNonce(salt, ssrc, index) ==
  Masked({<<0, 0>>, <<2, ssrc>>, <<6, 0>>, <<8, index>>}, salt)

WithEFlag(index) == index + IndexModulo
IndexOf(word) == word % IndexModulo

SrtcpAad(header, word) == [header |-> header, word |-> word]

SealSrtcp(keys, header, index, plain) ==
  [header |-> header, word |-> WithEFlag(index),
   box |-> Seal(keys.key, SrtcpNonce(keys.salt, header.ssrc, index),
                SrtcpAad(header, WithEFlag(index)), plain)]

OpensSrtcp(keys, packet) ==
  /\ packet.word >= IndexModulo
  /\ Opens(keys.key, SrtcpNonce(keys.salt, packet.header.ssrc, IndexOf(packet.word)),
           SrtcpAad(packet.header, packet.word), packet.box)

\* Under AES-CM the index is split over the two fields of the counter that the
\* rollover counter and the sequence number have in SRTP; the HMAC, which the
\* receiver does not look at, is left out.
SrtcpCounter(salt, ssrc, index) == Masked({<<4, ssrc>>, <<8, index>>}, salt)
SealSrtcpCtr(keys, header, index, plain) ==
  [header |-> header, word |-> WithEFlag(index),
   box |-> <<keys.key, SrtcpCounter(keys.salt, header.ssrc, index), plain>>]

\* What comes out of the keystream of other parameters is not the plain text.
DecryptSrtcpCtr(keys, packet, plain) ==
  packet.box = <<keys.key,
                 SrtcpCounter(keys.salt, packet.header.ssrc, IndexOf(packet.word)), plain>>
=============================================================================
