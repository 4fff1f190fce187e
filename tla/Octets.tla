------------------------------- MODULE Octets -------------------------------
(***************************************************************************)
(* Numbers as C and Java keep them, and the octets of a frame.  A frame    *)
(* here is anything with                                                   *)
(*                                                                         *)
(*   octets   the octets captured, or a buffer to send                     *)
(*   beyond   what a read past them finds                                  *)
(*                                                                         *)
(* Positions count from 0, as in C.  Numbers of 32 bits stay sequences of  *)
(* four octets, the most significant first: nothing calculates with them.  *)
(***************************************************************************)
EXTENDS Integers, SequencesExt

CONSTANT LittleEndian  \* the byte order of the host: TRUE on x86

ASSUME OctetsAssumption == LittleEndian \in BOOLEAN

Octet == 0..255
MaxUShort == 65535
MinShort == -32768
MaxShort == 32767
UShort == 0..MaxUShort
Short == MinShort..MaxShort

\* Conversion to u_short, to short and jshort, and to jbyte.
ToUShort(n) == n % 65536
ToShort(n) == ((n + 32768) % 65536) - 32768
ToByte(n) == ((n + 128) % 256) - 128

\* m > n where both are converted to unsigned int: a negative number is larger
\* than any that is not.
UnsignedGreater(m, n) == IF m < 0 /\ n >= 0 THEN TRUE
                         ELSE IF m >= 0 /\ n < 0 THEN FALSE ELSE m > n

\* Bit k of n, counted from the least significant.
Bit(n, k) == (n \div 2^k) % 2 = 1

Swap(n) == (n % 256) * 256 + n \div 256

\* htons and ntohs.
NetShort(n) == IF LittleEndian THEN Swap(n) ELSE n

\* htonl and ntohl of four octets.
NetLong(q) == IF LittleEndian THEN Reverse(q) ELSE q

OctetAt(f, pos) ==
  IF pos + 1 \in 1..Len(f.octets) THEN f.octets[pos + 1] ELSE f.beyond

\* A u_short at pos as ntohs gives it, and as it is read without ntohs.
WordAt(f, pos) == OctetAt(f, pos) * 256 + OctetAt(f, pos + 1)
HostWordAt(f, pos) == NetShort(WordAt(f, pos))

OctetsAt(f, pos, n) == [i \in 1..n |-> OctetAt(f, pos + i - 1)]

\* An int at pos as ntohl gives it, and as it is read without ntohl.
LongAt(f, pos) == OctetsAt(f, pos, 4)
HostLongAt(f, pos) == NetLong(LongAt(f, pos))

\* A u_short in memory, stored with htons and without.
WordOctets(n) == <<n \div 256, n % 256>>
HostWordOctets(n) == WordOctets(NetShort(n))
=============================================================================
