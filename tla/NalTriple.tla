------------------------------ MODULE NalTriple ------------------------------
(***************************************************************************)
(* The NAL's conversion helpers of nal.cpp: newTriple packs a remote IPv4  *)
(* address and the remote and local TCP ports into the 64-bit NalTriple   *)
(* the session table stores, the three getters unpack it, and              *)
(* extractByteCnt turns the tkeep of a 64-bit AXI word into a byte count. *)
(* An ap_uint<w> is a function from its bit positions 0 .. w-1 to {0, 1}, *)
(* so that casts, shifts and masks act on bits as the C++ operators do.   *)
(***************************************************************************)
EXTENDS Naturals, FiniteSets

\* The bits of the ap_uint<w> of value n (n < 2^31).
ToBits(n, w) == [i \in 0 .. w - 1 |-> (n \div 2^i) % 2]

Width(x) == Cardinality(DOMAIN x)

\* A conversion to ap_uint<w>: zero extension or truncation.
Cast(x, w) == [i \in 0 .. w - 1 |-> IF i \in DOMAIN x THEN x[i] ELSE 0]

\* ap_uint << k and >> k keep the width of their operand.
Shl(x, k) == [i \in DOMAIN x |-> IF i >= k THEN x[i - k] ELSE 0]
Shr(x, k) == [i \in DOMAIN x |-> IF i + k \in DOMAIN x THEN x[i + k] ELSE 0]

\* | and & of two ap_uint widen the narrower to the wider.
WiderOf(x, y) == IF Width(x) >= Width(y) THEN Width(x) ELSE Width(y)
BitOr(x, y) ==
  LET w == WiderOf(x, y) IN
  [i \in 0 .. w - 1 |-> IF Cast(x, w)[i] = 1 \/ Cast(y, w)[i] = 1 THEN 1 ELSE 0]
BitAnd(x, y) ==
  LET w == WiderOf(x, y) IN
  [i \in 0 .. w - 1 |-> IF Cast(x, w)[i] = 1 /\ Cast(y, w)[i] = 1 THEN 1 ELSE 0]

\* The literal 0xFF..F of `ones` bits, as a value of w bits.
Mask(w, ones) == [i \in 0 .. w - 1 |-> IF i < ones THEN 1 ELSE 0]

\* Mutant: the remote port cast to 16 bits before the shift.
newTripleNarrowPort(ip, rp, lp) ==
  Cast(BitOr(BitOr(Shl(Cast(ip, 64), 32), Shl(Cast(rp, 16), 16)), lp), 64)

\* newTriple, lines 86-91.
newTriple(ip, rp, lp) ==
  Cast(BitOr(BitOr(Shl(Cast(ip, 64), 32), Shl(Cast(rp, 32), 16)), lp), 64)

\* getRemoteIpAddrFromTriple, lines 94-99.
getRemoteIpAddrFromTriple(t) ==
  Cast(BitAnd(Cast(Shr(t, 32), 32), Mask(32, 32)), 32)

\* getRemotePortFromTriple, lines 102-107.
getRemotePortFromTriple(t) ==
  Cast(BitAnd(Cast(Shr(t, 16), 16), Mask(16, 16)), 16)

\* getLocalPortFromTriple, lines 110-115.
getLocalPortFromTriple(t) == Cast(BitAnd(t, Mask(64, 16)), 16)

\* Mutant: the 0x3F case counted as five bytes.
extractByteCntSixAsFive(keep) ==
  CASE keep = 255 -> 8 [] keep = 127 -> 7 [] keep = 63 -> 5
    [] keep = 31 -> 5 [] keep = 15 -> 4 [] keep = 7 -> 3 [] keep = 3 -> 2
    [] OTHER -> 1

\* extractByteCnt, lines 118-152: a contiguous tkeep gives its number of
\* ones; every other value, 0 included, gives 1 (the default case).
extractByteCnt(keep) ==
  CASE keep = 255 -> 8 [] keep = 127 -> 7 [] keep = 63 -> 6
    [] keep = 31 -> 5 [] keep = 15 -> 4 [] keep = 7 -> 3 [] keep = 3 -> 2
    [] OTHER -> 1

-----------------------------------------------------------------------------
\* Sample addresses and ports: 0, 1, the top bit alone and all ones in each
\* 16-bit half, so that every bit a shift or a mask could lose is set in
\* some sample.
HalfSamples == {0, 1, 32768, 65535}
IpSamples == {BitOr(Shl(Cast(ToBits(hi, 16), 32), 16), ToBits(lo, 16)) :
                hi, lo \in HalfSamples}
PortSamples == {ToBits(p, 16) : p \in HalfSamples}

\* The getters give back the address and ports newTriple packed.
Unpacks(ip, rp, lp) ==
  LET t == newTriple(ip, rp, lp) IN
  /\ getRemoteIpAddrFromTriple(t) = ip
  /\ getRemotePortFromTriple(t) = rp
  /\ getLocalPortFromTriple(t) = lp

AllUnpack ==
  \A ip \in IpSamples, rp, lp \in PortSamples : Unpacks(ip, rp, lp)

\* The number of bytes a word carries: the ones of its tkeep.
KeepOnes(keep) == Cardinality({i \in 0 .. 7 : (keep \div 2^i) % 2 = 1})

\* The byte count the NAL's Rx and Tx paths take from the last word of a
\* message is the number of valid bytes of every legal (contiguous, non-
\* empty) tkeep.
AllKeepsCounted == \A n \in 1 .. 8 : extractByteCnt(2^n - 1) = KeepOnes(2^n - 1)
=============================================================================
