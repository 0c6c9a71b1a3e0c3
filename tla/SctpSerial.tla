----------------------------- MODULE SctpSerial -----------------------------
(***************************************************************************)
(* Serial-number arithmetic of the SCTP data path: transmission sequence   *)
(* numbers (TSNs) live in 32 bits and stream sequence numbers in 16, and   *)
(* are compared with wraparound (lib/src/sctp/inbound_stream.dart).  The   *)
(* widths are parameters so that a small instance meets the wraparound.    *)
(***************************************************************************)
EXTENDS Integers

CONSTANTS
  TsnModulo,    \* SctpConstants.tsnModulo: 2^32 in the program
  SsnModulo     \* 2^16 in the program

ASSUME ModuloAssumption ==
  /\ TsnModulo \in Nat \ {0} /\ TsnModulo % 2 = 0
  /\ SsnModulo \in Nat \ {0} /\ SsnModulo % 2 = 0

Tsns == 0 .. TsnModulo - 1
Ssns == 0 .. SsnModulo - 1

Uint32Gt(a, b) == (a - b) % TsnModulo < TsnModulo \div 2 /\ a # b
Uint32Gte(a, b) == a = b \/ Uint32Gt(a, b)
Uint16Gt(a, b) == (a - b) % SsnModulo < SsnModulo \div 2 /\ a # b

TsnPlusOne(t) == (t + 1) % TsnModulo
TsnMinusOne(t) == (t - 1) % TsnModulo
SsnPlusOne(n) == (n + 1) % SsnModulo
=============================================================================
