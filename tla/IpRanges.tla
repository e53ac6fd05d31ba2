------------------------------ MODULE IpRanges ------------------------------
(***************************************************************************)
(* Ranges of addresses: IpMatcher and matchesIpWithExclusion                *)
(* (filter/ip-matcher.ts), which the rules use, and the patterns of the     *)
(* administration's allowlist (admin/auth.ts), which looks at whole octets. *)
(* An address has Octets octets of OctetBits bits; of IPv6, with its wider  *)
(* groups, the same holds.                                                  *)
(***************************************************************************)
EXTENDS Naturals

CONSTANTS Octets, OctetBits

ASSUME RangesAssumption == Octets \in Nat \ {0} /\ OctetBits \in Nat \ {0}

Width == Octets * OctetBits

Pow2[n \in 0..Width] == IF n = 0 THEN 1 ELSE 2 * Pow2[n - 1]

Ips == [1..Octets -> 0..(Pow2[OctetBits] - 1)]
Cidrs == [ip : Ips, prefix : 0..Width]

VARIABLES
    allowed,  \* a list of at most one range
    excluded, \* another
    asked,    \* the address that was asked for, if any
    verdict   \* what the rules and the administration said of it

rangesVars == <<allowed, excluded, asked, verdict>>

-----------------------------------------------------------------------------
(* A shift counts modulo the width, and the result keeps it.                *)
ShiftLeft(n, k) == (n * Pow2[k % Width]) % Pow2[Width]

(* The bitwise and of two numbers of n bits.                                *)
And[n \in 0..Width] ==
    [x \in Nat |-> [y \in Nat |->
        IF n = 0 THEN 0 ELSE 2 * And[n - 1][x \div 2][y \div 2] + (x % 2) * (y % 2)]]

ParseIp(ip) ==
    LET address[n \in 0..Octets] == IF n = 0 THEN 0
                                    ELSE address[n - 1] * Pow2[OctetBits] + ip[n]
    IN  address[Octets]

(* Variant of Mask: no prefix is special.                                   *)
MaskShifted(prefix) == ShiftLeft(Pow2[Width] - 1, Width - prefix)

Mask(prefix) == IF prefix = 0 THEN 0
                ELSE IF prefix = Width THEN Pow2[Width] - 1
                ELSE ShiftLeft(Pow2[Width] - 1, Width - prefix)

Masked(ip, prefix) == And[Width][ParseIp(ip)][Mask(prefix)]

Matches(ip, ranges) == \E r \in ranges : Masked(ip, r.prefix) = Masked(r.ip, r.prefix)

MatchesIpWithExclusion(ip, allow, exclude) ==
    /\ allow = {} \/ Matches(ip, allow)
    /\ exclude = {} \/ ~Matches(ip, exclude)

(* compileIpPatterns: what remains of a prefix is ignored, but the last     *)
(* octet is compared only if the whole address is.                          *)
IsIpAllowed(ip, ranges) ==
    \E r \in ranges : \A n \in 1..(r.prefix \div OctetBits) : ip[n] = r.ip[n]

-----------------------------------------------------------------------------
AtMostOne == {{}} \union {{r} : r \in Cidrs}

RangesInit == /\ allowed \in AtMostOne /\ excluded \in AtMostOne
              /\ asked = {} /\ verdict = [rules |-> FALSE, admin |-> FALSE]

Ask(ip) == /\ asked = {} /\ asked' = {ip}
           /\ verdict' = [rules |-> MatchesIpWithExclusion(ip, allowed, excluded),
                          admin |-> IsIpAllowed(ip, allowed)]
           /\ UNCHANGED <<allowed, excluded>>

RangesNext == \E ip \in Ips : Ask(ip)

RangesSpec == RangesInit /\ [][RangesNext]_rangesVars

-----------------------------------------------------------------------------
(* The addresses from a multiple of the range's size on.                    *)
Within(ip, ranges) ==
    \E r \in ranges : LET size == Pow2[Width - r.prefix]
                      IN  ParseIp(ip) \div size = ParseIp(r.ip) \div size

(* The rules accept the addresses of a range and no other; the              *)
(* administration's patterns accept them all, and others only if the prefix *)
(* ends within an octet.                                                    *)
RangesExact ==
    \A ip \in asked :
        /\ verdict.rules <=> (allowed = {} \/ Within(ip, allowed)) /\ ~Within(ip, excluded)
        /\ Within(ip, allowed) => verdict.admin
        /\ verdict.admin /\ (\A r \in allowed : r.prefix % OctetBits = 0) => Within(ip, allowed)
=============================================================================
