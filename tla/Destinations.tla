---------------------------- MODULE Destinations ----------------------------
(***************************************************************************)
(* Which destinations a computer may reach (proxy/policy.ts): the decision *)
(* on a host and a port, with the spellings an address has, the ranges     *)
(* that are refused, the allowlist of strict mode, and the addresses a     *)
(* name stands for.                                                        *)
(*                                                                         *)
(* An address is its bytes, 4 or 16 of them. A host is a name, a sequence  *)
(* of labels, or a spelling of an address: dotted, one number (as its two  *)
(* halves of 16 bits), or words around a gap. The digits of a number are   *)
(* left out: that it is decimal, octal or hexadecimal changes nothing else.*)
(***************************************************************************)
EXTENDS Integers, SequencesExt

CONSTANTS
    Hosts,      \* the hosts asked for
    Ports, AllowedPorts,
    Answers,    \* what a lookup may give: sets of addresses
    Allowlist,  \* hosts, and names with "wild"
    NeverHosts, \* NEVER_ALLOWED_HOSTNAMES
    ReservedTlds,
    DeniedRanges \* V4_DENY and V6_DENY: [base, bits]

\* 16 bits, an address, and the hosts there are
Word16 == 0..65535
IsAddress(bytes) == bytes \in Seq(0..255) /\ Len(bytes) \in {4, 16}
Spelling ==
    [is : {"name"}, labels : Seq(STRING)] \cup [is : {"dotted"}, parts : Seq(Nat)]
    \cup [is : {"number"}, hi : Word16, lo : Word16]
    \cup [is : {"words"}, left : Seq(Word16), gap : BOOLEAN, right : Seq(Word16)]

ASSUME PortAssumption == Ports \subseteq Int /\ AllowedPorts \subseteq 1..65535
ASSUME RangeAssumption == \A range \in DeniedRanges : IsAddress(range.base) /\ range.bits \in 0..8 * Len(range.base)
ASSUME AnswerAssumption == \A found \in Answers : \A a \in found : IsAddress(a)
ASSUME HostAssumption == Hosts \cup NeverHosts \subseteq Spelling

VARIABLE sought  \* the last decision: what was asked, and the verdict
destinationVars == sought

-----------------------------------------------------------------------------
(* Addresses *)

NoAddress == <<>>
Name(labels) == [is |-> "name", labels |-> labels]
Dotted(parts) == [is |-> "dotted", parts |-> parts]
Number(hi, lo) == [is |-> "number", hi |-> hi, lo |-> lo]
AddressWords(left, gap, right) == [is |-> "words", left |-> left, gap |-> gap, right |-> right]

BytesOf(words) == [i \in 1..2 * Len(words) |->
    IF i % 2 = 1 THEN words[(i + 1) \div 2] \div 256 ELSE words[i \div 2] % 256]
\* intToIpv4
Ipv4(number) == BytesOf(<<number.hi, number.lo>>)
\* parseIpv6Bytes: the gap stands for as many zeros as are missing, none included.
Ipv6Bytes(h) ==
    LET missing == 8 - Len(h.left) - Len(h.right) IN
    IF missing < 0 \/ (~h.gap /\ missing # 0) THEN NoAddress
    ELSE BytesOf(h.left \o [i \in 1..missing |-> 0] \o h.right)
\* extractMappedIpv4
MappedIpv4(bytes) ==
    IF Len(bytes) = 16 /\ SubSeq(bytes, 1, 12) = [i \in 1..10 |-> 0] \o <<255, 255>>
    THEN SubSeq(bytes, 13, 16) ELSE NoAddress
\* An address of 4 bytes written with 16 is the one of 4.
AsFour(bytes) == IF MappedIpv4(bytes) # NoAddress THEN MappedIpv4(bytes) ELSE bytes
\* net.isIP(h) = 6: a gap is for one zero at least.
IsIpv6(h) == Ipv6Bytes(h) # NoAddress /\ (h.gap => Len(h.left) + Len(h.right) < 8)

\* canonicalizeIpLiteral: a spelling of an address of 4 bytes becomes the dotted one, words
\* stay as they are spelled; the others are no literal.
Canonical(h) ==
    CASE h.is = "dotted" -> IF Len(h.parts) = 4 /\ \A i \in 1..4 : h.parts[i] \in 0..255 THEN {h} ELSE {}
      [] h.is = "number" -> {Dotted(Ipv4(h))}
      [] h.is = "words" -> IF Ipv6Bytes(h) = NoAddress THEN {}
                           ELSE IF Len(AsFour(Ipv6Bytes(h))) = 4 THEN {Dotted(AsFour(Ipv6Bytes(h)))}
                           ELSE IF IsIpv6(h) THEN {h} ELSE {AddressWords(h.left \o h.right, FALSE, <<>>)}
      [] h.is = "name" -> {}
AddressOf(literal) == IF literal.is = "dotted" THEN literal.parts ELSE Ipv6Bytes(literal)

\* 2^n
PowersOfTwo == <<1, 2, 4, 8, 16, 32, 64, 128, 256>>
Power(n) == PowersOfTwo[n + 1]
\* inCidrV4, inCidrV6: the first bits are those of the base.
BitsIn(range, i) == IF range.bits >= 8 * i THEN 8 ELSE IF range.bits <= 8 * (i - 1) THEN 0 ELSE range.bits % 8
InRange(address, range) ==
    /\ Len(address) = Len(range.base)
    /\ \A i \in DOMAIN address :
         address[i] \div Power(8 - BitsIn(range, i)) = range.base[i] \div Power(8 - BitsIn(range, i))
\* isDeniedAddress
IsDenied(address) == \E range \in DeniedRanges : InRange(AsFour(address), range)

-----------------------------------------------------------------------------
(* The decision *)

\* hostMatchesAllowlist: the same text, or a name of a wild entry's domain
AllowlistHas(h) ==
    \E entry \in Allowlist :
        IF "wild" \in DOMAIN entry THEN h.is = "name" /\ IsSuffix(entry.wild, h.labels) ELSE h = entry
\* isNeverAllowedHostname
IsNever(h) == h \in NeverHosts \/ \E l \in Canonical(h) : \E n \in NeverHosts : l = n \/ l \in Canonical(n)
\* isReservedTld
IsReserved(h) == h.is = "name" /\ h.labels[Len(h.labels)] \in ReservedTlds
\* What comes before any address: "ok", or the reason of the refusal
Asked(h, port, mode) ==
    CASE port \notin AllowedPorts -> "denied-port"
      [] port \in AllowedPorts /\ IsNever(h) -> "denied-host"
      [] port \in AllowedPorts /\ ~IsNever(h) /\ mode = "strict"
         /\ ~\E t \in Canonical(h) \cup {h} : AllowlistHas(t) -> "denied-allowlist"
      [] OTHER -> IF IsReserved(h) THEN "denied-dns" ELSE "ok"
\* The address it is, or those a lookup gave: none refused, and at least one
Vetted(h, found) == IF Canonical(h) # {} THEN {AddressOf(l) : l \in Canonical(h)} ELSE {AsFour(a) : a \in found}
EvaluateDestination(h, port, mode, found) ==
    LET reason == Asked(h, port, mode)
        addresses == Vetted(h, found)
    IN  IF reason # "ok" THEN reason
        ELSE IF addresses = {} THEN "denied-dns"
        ELSE IF \E a \in addresses : IsDenied(a) THEN "denied-ip" ELSE "allowed"

NothingSought == [host |-> Name(<<>>), port |-> 0, mode |-> "open", found |-> {}, says |-> "denied-port"]
DestinationInit == sought = NothingSought
Seeks(h, port, mode, found) ==
    sought' = [host |-> h, port |-> port, mode |-> mode, found |-> found,
               says |-> EvaluateDestination(h, port, mode, found)]
\* A literal is not looked up.
DestinationNext ==
    /\ sought = NothingSought
    /\ \E h \in Hosts, port \in Ports, mode \in {"open", "strict"} :
         \E found \in IF Canonical(h) = {} THEN Answers ELSE {{}} : Seeks(h, port, mode, found)
DestinationSpec == DestinationInit /\ [][DestinationNext]_destinationVars

-----------------------------------------------------------------------------
(* The same, said without masks and spellings *)

\* An address written in bits begins as the base of the range does.
BitOf(address, k) == (address[((k - 1) \div 8) + 1] \div Power(7 - ((k - 1) % 8))) % 2
BeginsAs(address, range) ==
    /\ Len(address) = Len(range.base)
    /\ \A k \in 1..range.bits : BitOf(address, k) = BitOf(range.base, k)

\* The address a spelling stands for, the one of 4 bytes for a mapped one.
StandsFor(h) ==
    CASE h.is = "number" -> Ipv4(h) [] h.is = "dotted" -> h.parts [] h.is = "words" -> AsFour(Ipv6Bytes(h))
      [] h.is = "name" -> NoAddress
Spells(h) == Canonical(h) # {}

Sought == IF Spells(sought.host) THEN {StandsFor(sought.host)} ELSE sought.found
Inside(address) == \E range \in DeniedRanges : BeginsAs(AsFour(address), range)

\* NEVER_ALLOWED_HOSTNAMES: the addresses among them are refused for their range too.
ASSUME NeverIsInside == \A n \in NeverHosts : Spells(n) => Inside(StandsFor(n))

\* policy.ts, "Default deny": what is allowed has an allowed port and addresses, none of them
\* of a refused range, however the host was spelled; what is refused for an address has one.
AllowedIsOutside ==
    /\ sought.says = "allowed" => sought.port \in AllowedPorts /\ Sought # {}
    /\ sought.says = "allowed" => \A a \in Sought : ~Inside(a)
    /\ sought.says = "denied-ip" => \E a \in Sought : Inside(a)
\* canonicalizeIpLiteral: two spellings of one address have one answer, where the text does
\* not count (strict mode compares it).
OneVerdict ==
    sought.mode = "open" /\ Spells(sought.host) =>
        \A h \in Hosts : Spells(h) /\ StandsFor(h) = StandsFor(sought.host) =>
            (EvaluateDestination(h, sought.port, "open", sought.found) = "allowed") <=> (sought.says = "allowed")
\* Strict mode allows nothing that open mode does not.
StrictIsNarrower ==
    sought.says = "allowed" => EvaluateDestination(sought.host, sought.port, "open", sought.found) = "allowed"
\* A destination has one answer in all its spellings, and it is outside what is refused.
DestinationSafe == AllowedIsOutside /\ OneVerdict /\ StrictIsNarrower

-----------------------------------------------------------------------------
\* What is written of the code and is not so; no run lists these.

\* policy.ts, isNeverAllowedHostname: "never-list IP literals (any IPv6 spelling)". Words are compared
\* as they are spelled; another spelling of the address is refused for its range.
NeverInAnySpelling ==
    sought.port \in AllowedPorts /\ Spells(sought.host)
    /\ (\E n \in NeverHosts : Spells(n) /\ StandsFor(n) = StandsFor(sought.host)) => sought.says = "denied-host"
=============================================================================
