------------------------------ MODULE MCDogRun ------------------------------
(* Small instances of DogRun for TLC. *)
EXTENDS DogRun

Set(transport, servers, names) ==
    [transport |-> transport, servers |-> servers, names |-> names]

\* Search lists, failover and the automatic transport together, then two sets
\* whose failures and responses may mix.
MCPlans == {
    <<Set("auto", 2, 2)>>,
    <<Set("auto", 1, 1), Set("udp", 2, 1)>>,
    <<Set("tcp", 2, 1), Set("auto", 1, 2)>> }

Response(rcode, truncated, answers) ==
    [rcode |-> rcode, truncated |-> truncated, answers |-> answers]

\* An answer, one cut short, one whose only answer is an OPT record, NXDOMAIN,
\* and an error code cut short with what there was.
MCResponses == {
    Response(0, FALSE, "standard"),
    Response(0, TRUE, "none"),
    Response(0, FALSE, "pseudo"),
    Response(3, FALSE, "none"),
    Response(2, TRUE, "standard") }

=============================================================================
