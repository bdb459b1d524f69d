-------------------------------- MODULE Cidr --------------------------------
(***************************************************************************)
(* Ranges of addresses (src/src/com/xtllib/xtl_inet.h): the CIDR notation  *)
(* of a source, and the test of a peer's address against it.               *)
(*                                                                         *)
(* An address is a family with its words, the most significant one first,  *)
(* in host order: one word for IPv4, four for IPv6.                        *)
(***************************************************************************)
EXTENDS Integers

CONSTANT WordBits   \* bits of a word: 32

ASSUME CidrAssumption == WordBits \in Nat \ {0}

NumWords(family) == IF family = "inet6" THEN 4 ELSE 1

Pow2[n \in 0 .. WordBits] == IF n = 0 THEN 1 ELSE 2 * Pow2[n - 1]

Word    == 0 .. Pow2[WordBits] - 1
Address == UNION {[family : {f}, words : [1 .. NumWords(f) -> Word]] : f \in {"inet", "inet6"}}

Full(family)  == WordBits * NumWords(family)

Fit(v, low, high) == IF v < low THEN low ELSE IF v > high THEN high ELSE v

\* parse_cidr_notation of a text whose host is the address addr.  Without a "/"
\* the range is that address; the length after it is cut to what is possible.
ParseCidr(text) ==
    [addr |-> text.addr,
     pref |-> LET full == Full(text.addr.family)
              IN IF text.slash THEN Fit(text.num, 0, full) ELSE full]

\* Mutant: the bits that do not count are those of the first words.
InCidrFromTheLeft(a, net) ==
    /\ a.family = net.addr.family
    /\ \/ net.pref = 0
       \/ \A w \in 1 .. NumWords(a.family) :
             LET left  == (Full(a.family) - net.pref) - WordBits * (w - 1)
                 shift == Fit(left, 0, WordBits)
             IN \/ shift = WordBits
                \/ a.words[w] \div Pow2[shift] = net.addr.words[w] \div Pow2[shift]

\* is_addr_in_cidr: from the last word to the first, each one without the bits that
\* do not count.  A shift by a whole word is undefined, and not done.
InCidr(a, net) ==
    /\ a.family = net.addr.family
    /\ \/ net.pref = 0
       \/ \A w \in 1 .. NumWords(a.family) :
             LET left  == (Full(a.family) - net.pref) - WordBits * (NumWords(a.family) - w)
                 shift == Fit(left, 0, WordBits)
             IN \/ shift = WordBits
                \/ a.words[w] \div Pow2[shift] = net.addr.words[w] \div Pow2[shift]

\* What is meant: the first pref bits of both are the same.
Bit(a, n) ==
    LET w == n \div WordBits
    IN (a.words[w + 1] \div Pow2[WordBits - 1 - (n % WordBits)]) % 2

SamePrefix(a, net) ==
    /\ a.family = net.addr.family
    /\ \A n \in 0 .. net.pref - 1 : Bit(a, n) = Bit(net.addr, n)
=============================================================================
