-------------------------- MODULE MCBacnetExchange --------------------------
(* One endpoint with a worker that reads two points, and commands that read *)
(* back the object they write or another one, or nothing.                   *)
EXTENDS BacnetExchange, TLC

CONSTANTS w1, temp, room, odd, v1, v2

MCReads == (w1 :> <<room, odd>>)

CommandOf(mapped, encodes, point, readable) ==
  [mapped |-> mapped, encodes |-> encodes, point |-> point, readable |-> readable,
   readPoint |-> temp, target |-> v1]

MCCommands == {CommandOf(TRUE, TRUE, temp, TRUE), CommandOf(TRUE, TRUE, temp, FALSE),
               CommandOf(FALSE, TRUE, temp, TRUE)}

=============================================================================
