------------------------------- MODULE Names --------------------------------
(***************************************************************************)
(* Domain names as users and search lists write them, and as requests have *)
(* them (Labels, dns/src/strings.rs).                                      *)
(*                                                                         *)
(* What is written is the sequence of what stands between its dots, so     *)
(* that a final dot is an empty last part.  A part has a text, which only  *)
(* tells it from others, whether a space or control character is in it,    *)
(* and the length of its ASCII form, which the idna library makes.  That   *)
(* form may be empty: UTS 46 leaves out characters such as soft hyphens.   *)
(***************************************************************************)
EXTENDS Integers, SequencesExt

CONSTANTS
    MAX_LABEL,     \* the longest a label can be (63)
    MAX_NAME       \* the longest a name can be on the wire (255)

ASSUME LengthsAssumption == MAX_LABEL \in Nat /\ MAX_NAME \in Nat

\* There is no ASCII form.
NoAscii == -1

Part(text, ascii) == [text |-> text, spaced |-> FALSE, ascii |-> ascii]

EmptyPart == Part("", 0)

Parts == [text : STRING, spaced : BOOLEAN, ascii : Nat \cup {NoAscii}]

\* encode_label: whether a part can be a label.
IsLabel(part) ==
    /\ part # EmptyPart
    /\ ~part.spaced
    /\ part.ascii # NoAscii
    /\ part.ascii <= MAX_LABEL

Root == <<>>

\* How many bytes a name takes: a length before each label, a zero at the end.
WireLength(name) ==
    FoldLeft(LAMBDA length, label : length + label.ascii + 1, 1, name)

\* A final dot is allowed.
WithoutRoot(written) ==
    IF Len(written) > 1 /\ Last(written) = EmptyPart THEN Front(written) ELSE written

\* Labels::encode succeeds.  A lone dot is the root.
IsName(written) ==
    \/ written = <<EmptyPart, EmptyPart>>
    \/ /\ \A i \in DOMAIN WithoutRoot(written) : IsLabel(WithoutRoot(written)[i])
       /\ WireLength(WithoutRoot(written)) <= MAX_NAME

\* What it then returns.
Encode(written) == IF written = <<EmptyPart, EmptyPart>> THEN Root ELSE WithoutRoot(written)

\* Labels::extend, which does not look at the length.
Extend(name, suffix) == name \o suffix

=============================================================================
