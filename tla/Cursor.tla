------------------------------- MODULE Cursor -------------------------------
(***************************************************************************)
(* The message that is read, and the cursor over it, which NameReading and *)
(* MessageReading share as the functions of dns/src do.  Positions count   *)
(* from 0, as the cursor does.                                             *)
(***************************************************************************)
EXTENDS Integers, SequencesExt

CONSTANT Messages   \* the messages there may be

VARIABLES
    message,   \* the message
    pos,       \* the cursor
    result     \* Reading, Ok, or the error

Byte(at) == message[at + 1]

=============================================================================
