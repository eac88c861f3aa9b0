------------------------------- MODULE Checksums -------------------------------
(***************************************************************************)
(* The checksum arithmetic of the packet programs.  A header is a sequence *)
(* of 16-bit words; a word is its value on the wire, and a program reads   *)
(* and writes it in the byte order of its machine.  The size of a byte is  *)
(* a parameter, so that small bytes can be checked exhaustively: 256 is    *)
(* the real one.                                                           *)
(***************************************************************************)
EXTENDS Integers

CONSTANTS
  Byte,         \* how many values a byte has
  LittleEndian  \* the machine is little-endian

ASSUME ByteAssumption == Byte \in Nat /\ Byte > 1 /\ LittleEndian \in BOOLEAN

Bytes == 0 .. Byte - 1
WordCount == Byte * Byte
Words == 0 .. WordCount - 1
AllOnes == WordCount - 1

\* bpf_htons() and bpf_ntohs(): the number a program sees in a word of the wire.
Swap(word) == (word % Byte) * Byte + (word \div Byte)
htons(word) == IF LittleEndian THEN Swap(word) ELSE word

\* What a receiver verifies: the words of a header and their checksum sum up to all
\* ones, with end-around carries. In plain numbers, the sum is a multiple of it.
Verifies(sum) == sum > 0 /\ sum % AllOnes = 0

\* Mutation: the addition is wider than 16 bits.
Added_Wide(check, n) == htons(htons(check) + htons(n % WordCount))

\* `check += bpf_htons(n)': a 16-bit addition, the carry is lost.
Added(check, n) == htons((htons(check) + htons(n % WordCount)) % WordCount)

\* xdp_patch_ports and _fix_port_egress: one addition, and another one when it gave 0.
PatchedChecksum(check, n) ==
  LET once == Added(check, n) IN IF once = 0 THEN Added(once, n) ELSE once

\* Mutation, here and below: the carry is lost.
TtlChecksum_NoCarry(check) ==
  htons((htons(check) + htons(Byte)) % WordCount)

\* ip_decrease_ttl(): the ttl is the upper byte of its word. The 32-bit sum carries
\* around when it reaches all ones.
TtlChecksum(check) ==
  LET sum == htons(check) + htons(Byte)
  IN  htons((sum + (IF sum >= AllOnes THEN 1 ELSE 0)) % WordCount)

Complement(word) == AllOnes - word

\* csum_fold_helper(): the halves of a 32-bit sum, and the carry of their sum.
Folded(sum) ==
  LET halves == (sum \div WordCount) + (sum % WordCount)
  IN  Complement((halves + (halves \div WordCount)) % WordCount)

\* bpf_csum_diff(): the seed, less the old 32-bit word, plus the new one, as a 32-bit
\* ones' complement sum. External.
CsumDiff(old, new, seed) ==
  LET top == WordCount * WordCount - 1
      sum == seed + (top - old) + new
  IN  (sum % (top + 1)) + (sum \div (top + 1))

\* icmp_checksum_diff() for a new type: type and code are the first word, the zeroed
\* checksum is the second, and the machine reads both as one number.
EchoChecksum(check, old, new) ==
  LET first(type) == IF LittleEndian THEN type ELSE type * Byte * WordCount
  IN  htons(Folded(CsumDiff(first(old), first(new), Complement(htons(check)))))

=============================================================================
