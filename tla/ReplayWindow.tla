---------------------------- MODULE ReplayWindow ----------------------------
(***************************************************************************)
(* ReplayProtection (lib/src/srtp/replay_protection.dart): which packets   *)
(* of a stream an SRTP receiver takes.  A packet has a number, the index   *)
(* its sender counts to; the code sees only its 16-bit sequence number.    *)
(***************************************************************************)
EXTENDS Integers

CONSTANTS
  Half,         \* half of the sequence number space, 2^15
  WindowSize    \* bits of the window: 64, all those of an int

ASSUME WindowAssumption ==
  /\ Half \in Nat \ {0}
  /\ WindowSize \in Nat \ {0} /\ WindowSize <= Half

SeqModulo == 2 * Half
Sequence(number) == number % SeqModulo

VARIABLES
  initialized,  \* _initialized
  highest,      \* _highestSequence
  window,       \* _window, as the set of the positions of its bits
  newest,       \* history: the number of the packet that _highestSequence is of
  taken         \* history: the numbers of the packets accepted

windowVars == <<initialized, highest, window, newest, taken>>

WindowTypeOK ==
  /\ initialized \in BOOLEAN /\ highest \in 0..(SeqModulo - 1)
  /\ window \subseteq 0..(WindowSize - 1)
  /\ newest \in Nat /\ taken \subseteq Nat

WindowInit ==
  /\ initialized = FALSE /\ highest = 0 /\ window = {}
  /\ newest = 0 /\ taken = {}

\* The 16-bit difference as a signed number.
\* Mutant: a packet half the space ahead and more is not seen as an old one.
SequenceDelta_Unsigned(s1, s2) == (s1 - s2) % SeqModulo
SequenceDelta(s1, s2) ==
  LET delta == (s1 - s2) % SeqModulo
  IN  IF delta > Half - 1 THEN delta - SeqModulo ELSE delta

\* check() accepts the packet.
\* Mutant: the first position beyond the window is looked up too, where no bit
\* is kept.
Fresh_Beyond(delta) == delta > 0 \/ -delta \in (1..WindowSize) \ window
Fresh(delta) == delta > 0 \/ -delta \in (1..(WindowSize - 1)) \ window

\* The window after an accepted packet: shifted, started again, or one bit more.
\* Mutant: a jump beyond the window keeps what was there.
Mark_Keeps(delta) ==
  IF delta > 0
  THEN {0} \cup (IF delta < WindowSize
                 THEN {bit + delta : bit \in window} \cap (0..(WindowSize - 1)) ELSE window)
  ELSE window \cup {-delta}
Mark(delta) ==
  IF delta > 0
  THEN {0} \cup ({bit + delta : bit \in window} \cap (0..(WindowSize - 1)))
  ELSE window \cup {-delta}

Accept(number) ==
  LET delta == SequenceDelta(Sequence(number), highest)
      ahead == ~initialized \/ delta > 0
  IN  /\ initialized => Fresh(delta)
      /\ initialized' = TRUE
      /\ highest' = IF ahead THEN Sequence(number) ELSE highest
      /\ window' = IF initialized THEN Mark(delta) ELSE {0}
      /\ newest' = IF ahead THEN number ELSE newest
      /\ taken' = taken \cup {number}

Refuse(number) ==
  /\ initialized /\ ~Fresh(SequenceDelta(Sequence(number), highest))
  /\ UNCHANGED windowVars

\* The network delays a packet, and the sender runs ahead of the last one that
\* arrived, by less than half of the sequence number space.
InTime(number) == initialized => number - newest \in (-Half)..(Half - 1)

WindowNext == \E number \in Nat : InTime(number) /\ (Accept(number) \/ Refuse(number))

WindowSpec == WindowInit /\ [][WindowNext]_windowVars

-----------------------------------------------------------------------------
\* The window remembers exactly the packets accepted among the last WindowSize
\* ones, across jumps and wraps of the sequence number.
WindowIsExact ==
  /\ highest = Sequence(newest)
  /\ taken # {} => newest \in taken /\ \A number \in taken : number <= newest
  /\ window = {newest - number : number \in {n \in taken : newest - n < WindowSize}}

\* Of the packets that may arrive, check() accepts those among the last
\* WindowSize and newer ones that it has not accepted before, and no other: no
\* duplicate is taken again and no late packet is lost to a wrap or a jump.
AcceptsExactlyFresh ==
  initialized =>
    \A number \in (newest - Half)..(newest + Half - 1) :
      Fresh(SequenceDelta(Sequence(number), highest)) <=>
        number > newest - WindowSize /\ number \notin taken
=============================================================================
