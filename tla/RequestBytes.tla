---------------------------- MODULE RequestBytes -----------------------------
(***************************************************************************)
(* A request as it is made from the options (requests.rs), and its bytes   *)
(* (Request::to_bytes): the header, the query, and the OPT record that may *)
(* go with it.                                                             *)
(***************************************************************************)
EXTENDS RecordTypes

\* Flags::query.
QueryFlags ==
    [response |-> FALSE, opcode |-> 0, authoritative |-> FALSE, truncated |-> FALSE,
     recursion_desired |-> TRUE, recursion_available |-> FALSE, authentic_data |-> FALSE,
     checking_disabled |-> FALSE]

AdditionalRecord == [udp_payload_size |-> 512, higher_bits |-> 0, edns0_version |-> 0, flags |-> 0]

\* UseEDNS: all but Disable.
ShouldSend(edns) == edns # "Disable"

\* ProtocolTweaks: the set of the flags to set, and a payload size or 0.
SetRequestFlags(tweaks, flags) ==
    [flags EXCEPT !.authoritative = @ \/ "aa" \in tweaks.set,
                  !.authentic_data = @ \/ "ad" \in tweaks.set,
                  !.checking_disabled = @ \/ "cd" \in tweaks.set]

SetRequestOptFields(tweaks, opt) ==
    [opt EXCEPT !.flags = IF "do" \in tweaks.set THEN 32768 ELSE @,
                !.udp_payload_size = IF tweaks.udp_payload_size # 0 THEN tweaks.udp_payload_size ELSE @]

MakeRequest(transaction_id, query, edns, tweaks) ==
    [transaction_id |-> transaction_id, query |-> query,
     flags |-> SetRequestFlags(tweaks, QueryFlags),
     additional |-> IF ShouldSend(edns) THEN <<SetRequestOptFields(tweaks, AdditionalRecord)>> ELSE <<>>]

-----------------------------------------------------------------------------

U16Bytes(n) == <<n \div 256, n % 256>>

LengthAndBytes(segments) == [i \in DOMAIN segments |-> <<Len(segments[i])>> \o segments[i]]

\* No segment of a request is longer than a byte can say (encode_label).
WriteLabels(segments) == FlattenSeq(LengthAndBytes(segments)) \o <<0>>

\* OPT::to_bytes; requests carry no option data.
OPTBytes(opt) ==
    U16Bytes(opt.udp_payload_size) \o <<opt.higher_bits, opt.edns0_version>>
        \o U16Bytes(opt.flags) \o <<0, 0>>

\* The ID is in two bytes, and there is one OPT record or none.
ToBytes(request) ==
    request.transaction_id
        \o FlagBytes(request.flags)
        \o <<0, 1, 0, 0, 0, 0, 0, Len(request.additional)>>
        \o WriteLabels(request.query.qname)
        \o U16Bytes(request.query.qtype.number) \o U16Bytes(request.query.qclass)
        \o FlattenSeq([i \in DOMAIN request.additional |->
               <<0>> \o U16Bytes(OPT_RR_TYPE) \o OPTBytes(request.additional[i])])

=============================================================================
