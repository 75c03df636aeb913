---------------------------- MODULE RecordTypes -----------------------------
(***************************************************************************)
(* The record types that dog reads: the name, the number and the fields of *)
(* each as they stand in a record's data, in the order in which its `read' *)
(* takes and checks them (dns/src/record), and the types it only knows by  *)
(* name.                                                                   *)
(*                                                                         *)
(* A field of a fixed length is the span of the bytes it takes up among    *)
(* those that are read with it, counted from 1.                            *)
(***************************************************************************)
EXTENDS Integers, SequencesExt

(* The length stated must be this, and all of the data are these fields.   *)
Exactly(n, fields) == [step |-> "Exactly", n |-> n, fields |-> fields]

(* The length stated must be this or more.                                 *)
AtLeast(n) == [step |-> "AtLeast", n |-> n]

(* A byte that must be zero.                                               *)
Version == [step |-> "Version"]

(* So many bytes, which are these fields.                                  *)
Take(n, fields) == [step |-> "Take", n |-> n, fields |-> fields]

(* A domain name (read_labels); one string, which begins with its length   *)
(* (read_character_string); strings to the end, of which a full one is     *)
(* continued by the next.                                                  *)
Name(field) == [step |-> "Name", field |-> field]
String(field) == [step |-> "String", field |-> field]
Strings(open) == [step |-> "Strings", open |-> open]

(* What the stated length leaves, an error if the fields before it are     *)
(* longer than that; the same, but nothing if they are; and the check that *)
(* they are as long as stated.                                             *)
Rest(field) == [step |-> "Rest", field |-> field]
RestIfAny(field) == [step |-> "RestIfAny", field |-> field]
Whole == [step |-> "Whole"]

-----------------------------------------------------------------------------

A == [NAME |-> "A", RR_TYPE |-> 1,
      read |-> <<Exactly(4, [address |-> <<1, 4>>])>>]

AAAA == [NAME |-> "AAAA", RR_TYPE |-> 28,
         read |-> <<Exactly(16, [address |-> <<1, 16>>])>>]

CAA == [NAME |-> "CAA", RR_TYPE |-> 257,
        read |-> <<Take(1, [critical |-> <<1, 1>>]), String("tag"), RestIfAny("value")>>]

CNAME == [NAME |-> "CNAME", RR_TYPE |-> 5, read |-> <<Name("domain"), Whole>>]

MX == [NAME |-> "MX", RR_TYPE |-> 15,
       read |-> <<Take(2, [preference |-> <<1, 2>>]), Name("exchange"), Whole>>]

DNSKEY == [NAME |-> "DNSKEY", RR_TYPE |-> 48,
           read |-> <<AtLeast(4),
                      Take(4, [flags |-> <<1, 2>>, protocol |-> <<3, 3>>, algorithm |-> <<4, 4>>]),
                      Rest("public_key")>>]

DS == [NAME |-> "DS", RR_TYPE |-> 43,
       read |-> <<AtLeast(5),
                  Take(4, [key_tag |-> <<1, 2>>, algorithm |-> <<3, 3>>, digest_type |-> <<4, 4>>]),
                  Rest("digest")>>]

EUI48 == [NAME |-> "EUI48", RR_TYPE |-> 108,
          read |-> <<Exactly(6, [octets |-> <<1, 6>>])>>]

EUI64 == [NAME |-> "EUI64", RR_TYPE |-> 109,
          read |-> <<Exactly(8, [octets |-> <<1, 8>>])>>]

HINFO == [NAME |-> "HINFO", RR_TYPE |-> 13, read |-> <<String("cpu"), String("os"), Whole>>]

LOC == [NAME |-> "LOC", RR_TYPE |-> 29,
        read |-> <<Version,
                   Exactly(16, [size |-> <<1, 1>>, horizontal_precision |-> <<2, 2>>,
                                vertical_precision |-> <<3, 3>>, latitude |-> <<4, 7>>,
                                longitude |-> <<8, 11>>, altitude |-> <<12, 15>>])>>]

NAPTR == [NAME |-> "NAPTR", RR_TYPE |-> 35,
          read |-> <<Take(4, [order |-> <<1, 2>>, preference |-> <<3, 4>>]),
                     String("flags"), String("service"), String("regex"),
                     Name("replacement"), Whole>>]

NS == [NAME |-> "NS", RR_TYPE |-> 2, read |-> <<Name("nameserver"), Whole>>]

NSEC == [NAME |-> "NSEC", RR_TYPE |-> 47,
         read |-> <<AtLeast(2), Name("next_domain"), Rest("types")>>]

OPENPGPKEY == [NAME |-> "OPENPGPKEY", RR_TYPE |-> 61, read |-> <<AtLeast(1), Rest("key")>>]

PTR == [NAME |-> "PTR", RR_TYPE |-> 12, read |-> <<Name("cname"), Whole>>]

\* Mutant of RRSIG: the times are taken in the other order.
RRSIGInceptionFirst ==
    [NAME |-> "RRSIG", RR_TYPE |-> 46,
     read |-> <<AtLeast(19),
                Take(18, [type_covered |-> <<1, 2>>, algorithm |-> <<3, 3>>, labels |-> <<4, 4>>,
                          original_ttl |-> <<5, 8>>, signature_expiration |-> <<13, 16>>,
                          signature_inception |-> <<9, 12>>, key_tag |-> <<17, 18>>]),
                Name("signer_name"), Rest("signature")>>]

RRSIG == [NAME |-> "RRSIG", RR_TYPE |-> 46,
          read |-> <<AtLeast(19),
                     Take(18, [type_covered |-> <<1, 2>>, algorithm |-> <<3, 3>>, labels |-> <<4, 4>>,
                               original_ttl |-> <<5, 8>>, signature_expiration |-> <<9, 12>>,
                               signature_inception |-> <<13, 16>>, key_tag |-> <<17, 18>>]),
                     Name("signer_name"), Rest("signature")>>]

SSHFP == [NAME |-> "SSHFP", RR_TYPE |-> 44,
          read |-> <<Take(2, [algorithm |-> <<1, 1>>, fingerprint_type |-> <<2, 2>>]),
                     AtLeast(3), Rest("fingerprint")>>]

SOA == [NAME |-> "SOA", RR_TYPE |-> 6,
        read |-> <<Name("mname"), Name("rname"),
                   Take(20, [serial |-> <<1, 4>>, refresh_interval |-> <<5, 8>>,
                             retry_interval |-> <<9, 12>>, expire_limit |-> <<13, 16>>,
                             minimum_ttl |-> <<17, 20>>]),
                   Whole>>]

SRV == [NAME |-> "SRV", RR_TYPE |-> 33,
        read |-> <<Take(6, [priority |-> <<1, 2>>, weight |-> <<3, 4>>, port |-> <<5, 6>>]),
                   Name("target"), Whole>>]

TLSA == [NAME |-> "TLSA", RR_TYPE |-> 52,
         read |-> <<Take(3, [certificate_usage |-> <<1, 1>>, selector |-> <<2, 2>>,
                             matching_type |-> <<3, 3>>]),
                    AtLeast(4), Rest("certificate_data")>>]

TXT == [NAME |-> "TXT", RR_TYPE |-> 16, read |-> <<Strings(FALSE)>>]

URI == [NAME |-> "URI", RR_TYPE |-> 256,
        read |-> <<Take(4, [priority |-> <<1, 2>>, weight |-> <<3, 4>>]),
                   AtLeast(5), Rest("target")>>]

Records == {A, AAAA, CAA, CNAME, DNSKEY, DS, EUI48, EUI64, HINFO, LOC, MX, NAPTR, NS, NSEC,
            OPENPGPKEY, PTR, RRSIG, SSHFP, SOA, SRV, TLSA, TXT, URI}

OPT_RR_TYPE == 41

-----------------------------------------------------------------------------
(* The type of a record (enum RecordType): one of these, one that dog has  *)
(* only heard of, or one it has not.                                       *)

RECORD_TYPES ==
    {<<1, "A">>, <<2, "NS">>, <<5, "CNAME">>, <<6, "SOA">>, <<12, "PTR">>, <<13, "HINFO">>,
     <<15, "MX">>, <<16, "TXT">>, <<17, "RP">>, <<18, "AFSDB">>, <<24, "SIG">>, <<25, "KEY">>,
     <<28, "AAAA">>, <<29, "LOC">>, <<33, "SRV">>, <<35, "NAPTR">>, <<36, "KX">>, <<37, "CERT">>,
     <<39, "DNAME">>, <<41, "OPT">>, <<42, "APL">>, <<43, "DS">>, <<44, "SSHFP">>,
     <<45, "IPSECKEY">>, <<46, "RRSIG">>, <<47, "NSEC">>, <<48, "DNSKEY">>, <<49, "DHCID">>,
     <<50, "NSEC3">>, <<51, "NSEC3PARAM">>, <<52, "TLSA">>, <<53, "SMIMEA">>, <<55, "HIP">>,
     <<59, "CDS">>, <<60, "CDNSKEY">>, <<61, "OPENPGPKEY">>, <<62, "CSYNC">>, <<63, "ZONEMD">>,
     <<64, "SVCB">>, <<65, "HTTPS">>, <<108, "EUI48">>, <<109, "EUI64">>, <<249, "TKEY">>,
     <<250, "TSIG">>, <<251, "IXFR">>, <<252, "AXFR">>, <<255, "ANY">>, <<256, "URI">>,
     <<257, "CAA">>, <<32768, "TA">>, <<32769, "DLV">>}

Known(record) == [kind |-> "Known", name |-> record.NAME, number |-> record.RR_TYPE]
HeardOf(type) == [kind |-> "HeardOf", name |-> type[2], number |-> type[1]]
UnheardOf(number) == [kind |-> "UnheardOf", name |-> "", number |-> number]
NoType == [kind |-> "None", name |-> "", number |-> 0]

UnknownQtype(number) ==
    IF \E type \in RECORD_TYPES : type[1] = number
    THEN HeardOf(CHOOSE type \in RECORD_TYPES : type[1] = number)
    ELSE UnheardOf(number)

RecordType(number) ==
    IF \E record \in Records : record.RR_TYPE = number
    THEN Known(CHOOSE record \in Records : record.RR_TYPE = number)
    ELSE UnknownQtype(number)

\* Names are matched without regard to case, which is left out here.
FromTypeName(name) ==
    IF \E record \in Records : record.NAME = name
    THEN Known(CHOOSE record \in Records : record.NAME = name)
    ELSE IF \E type \in RECORD_TYPES : type[2] = name
    THEN HeardOf(CHOOSE type \in RECORD_TYPES : type[2] = name)
    ELSE NoType

(* How the data of a type are read; nothing is known of those of another.  *)
Reader(number) ==
    IF \E record \in Records : record.RR_TYPE = number
    THEN (CHOOSE record \in Records : record.RR_TYPE = number).read
    ELSE <<Rest("bytes")>>

DNSSEC_ALGORITHMS == {1, 3, 5, 6, 7, 8, 10, 12, 13, 14, 15, 16}
DIGEST_TYPES == 1..4

-----------------------------------------------------------------------------
(* What the header says, in its two bytes of flags.                        *)

Bit(byte, n) == (byte \div 2^n) % 2 = 1

\* ErrorCode::from_bits: of four bits, or of twelve.
ErrorCode(bits) ==
    CASE bits = 0 -> "None"
      [] bits = 1 -> "FormatError"
      [] bits = 2 -> "ServerFailure"
      [] bits = 3 -> "NXDomain"
      [] bits = 4 -> "NotImplemented"
      [] bits = 5 -> "QueryRefused"
      [] bits = 16 -> "BadVersion"
      [] bits \in 3841..4095 -> "Private"
      [] OTHER -> "Other"

Flags(high, low) ==
    [response |-> Bit(high, 7), opcode |-> (high \div 8) % 16, authoritative |-> Bit(high, 2),
     truncated |-> Bit(high, 1), recursion_desired |-> Bit(high, 0),
     recursion_available |-> Bit(low, 7), authentic_data |-> Bit(low, 5),
     checking_disabled |-> Bit(low, 4), rcode |-> low % 16]

One(bit, n) == IF bit THEN 2^n ELSE 0

\* Flags::to_u16, as two bytes: without the code.
FlagBytes(flags) ==
    <<One(flags.response, 7) + 8 * flags.opcode + One(flags.authoritative, 2)
        + One(flags.truncated, 1) + One(flags.recursion_desired, 0),
      One(flags.recursion_available, 7) + One(flags.authentic_data, 5)
        + One(flags.checking_disabled, 4)>>

QClass(number) ==
    CASE number = 1 -> "IN" [] number = 3 -> "CH" [] number = 4 -> "HS" [] OTHER -> "Other"

=============================================================================
