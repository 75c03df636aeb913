--------------------------- MODULE MCNameReading ----------------------------
(***************************************************************************)
(* Every message of up to five bytes of four values, of which 3 marks a    *)
(* pointer, read from everywhere in it.                                    *)
(***************************************************************************)
EXTENDS NameReading

MCMessages == UNION {[1..n -> 0..3] : n \in 0..5}

=============================================================================
