---------------------------- MODULE AddressLists ----------------------------
(***************************************************************************)
(* The lists of addresses a key accepts: what was typed turned into the    *)
(* blocks the API stores (readAddresses in internal/httpapi/addresses.go), *)
(* and what the API returns turned into blocks again (parsePrefix in       *)
(* internal/ovh/api.go, toDomain in internal/ovh/wire.go).                 *)
(*                                                                         *)
(* An address is a family and a number of that family's width.  The upper  *)
(* half of the longer family stands for the addresses that carry one of    *)
(* the shorter family (::ffff:192.0.2.1).                                  *)
(***************************************************************************)
EXTENDS Integers, SequencesExt

CONSTANTS
    Width,        \* the length of an address of each family, "v4" and "v6"
    maxAddresses  \* how many entries a list may have

ASSUME AddressAssumption ==
    /\ DOMAIN Width = {"v4", "v6"}
    /\ Width["v4"] \in Nat /\ Width["v6"] = Width["v4"] + 1
    /\ maxAddresses \in Nat

(* The powers of two an address and a block are read with.                 *)
Power[n \in 0 .. Width["v6"]] == IF n = 0 THEN 1 ELSE 2 * Power[n - 1]

Is4In6(a) == a.family = "v6" /\ a.number >= Power[Width["v4"]]
Unmap(a)  == IF Is4In6(a) THEN [family |-> "v4", number |-> a.number - Power[Width["v4"]]] ELSE a

PrefixFrom(a, bits) == [family |-> a.family, number |-> a.number, bits |-> bits]

Spare(p)  == Power[Width[p.family] - p.bits]
Masked(p) == [p EXCEPT !.number = @ - (@ % Spare(p))]

(* Whether a block lets an address in: an address of the longer family is  *)
(* never in a block of the shorter, even one that carries it.              *)
Covers(p, a) == p.family = a.family /\ p.number \div Spare(p) = a.number \div Spare(p)

-----------------------------------------------------------------------------
(* An entry is an address with a length or without, in a zone or not, or   *)
(* nothing that can be read.                                               *)
Refused   == [ok |-> FALSE]
Block(p)  == [ok |-> TRUE, block |-> p]
HasLength(e) == e.form = "block" /\ e.bits <= Width[e.address.family]

(* Mutant: the address a block carries is kept as it was typed.            *)
readAddressUnmasked(e) ==
    IF HasLength(e)
    THEN IF Is4In6(e.address) THEN Refused ELSE Block(PrefixFrom(e.address, e.bits))
    ELSE IF e.form = "address"
    THEN Block(PrefixFrom(Unmap(e.address), Width[Unmap(e.address).family]))
    ELSE Refused

readAddress(e) ==
    IF HasLength(e)
    THEN IF Is4In6(e.address) THEN Refused ELSE Block(Masked(PrefixFrom(e.address, e.bits)))
    ELSE IF e.form = "address"
    THEN Block(PrefixFrom(Unmap(e.address), Width[Unmap(e.address).family]))
    ELSE Refused

Bad(e) == ~readAddress(e).ok
AnyAddress(e) == ~Bad(e) /\ readAddress(e).block.bits = 0

(* The entries of a list are counted before the repeated ones are dropped, *)
(* and the first one that is refused decides the answer.                   *)
readAddresses(entries) ==
    LET wrong == {i \in DOMAIN entries : Bad(entries[i]) \/ AnyAddress(entries[i])}
        list[n \in 0 .. Len(entries)] ==
            IF n = 0 THEN <<>>
            ELSE LET block == readAddress(entries[n]).block
                 IN  IF Contains(list[n - 1], block) THEN list[n - 1]
                     ELSE Append(list[n - 1], block)
    IN IF Len(entries) > maxAddresses THEN [code |-> "too-many-addresses", list |-> <<>>]
       ELSE IF wrong # {}
       THEN [code |-> IF Bad(entries[Min(wrong)]) THEN "bad-address" ELSE "any-address-block",
             list |-> <<>>]
       ELSE [code |-> "ok", list |-> list[Len(entries)]]

-----------------------------------------------------------------------------
(* What the API returns is kept as it is; a bare address is a single host, *)
(* without its zone.                                                       *)
parsePrefix(e) ==
    IF HasLength(e) THEN Block(PrefixFrom(e.address, e.bits))
    ELSE IF e.form \in {"address", "zoned"}
    THEN Block(PrefixFrom(e.address, Width[e.address.family]))
    ELSE Refused

(* A credential with a block that cannot be read is not read at all.       *)
toDomain(blocks) ==
    IF \A i \in DOMAIN blocks : parsePrefix(blocks[i]).ok
    THEN Block([i \in DOMAIN blocks |-> parsePrefix(blocks[i]).block])
    ELSE Refused

(* A list is sent and kept block by block.                                 *)
Stored(list) ==
    [i \in DOMAIN list |-> [form |-> "block", bits |-> list[i].bits,
        address |-> [family |-> list[i].family, number |-> list[i].number]]]

restrictsAddresses(allowed) ==
    Len(allowed) > 0 /\ \A i \in DOMAIN allowed : allowed[i].bits # 0

=============================================================================
