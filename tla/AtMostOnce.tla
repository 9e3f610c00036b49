----------------------------- MODULE AtMostOnce -----------------------------
(***************************************************************************)
(* dslabs.atmostonce.AMOApplication around an arbitrary deterministic      *)
(* application.                                                            *)
(*                                                                         *)
(* The wrapped application is abstracted to the sequence of commands it    *)
(* has executed, and the result of a command is that sequence with the     *)
(* command at its end: whatever a deterministic application answers is a   *)
(* function of it, and an append-only value is exactly it.                 *)
(*                                                                         *)
(* Definitions introduced by "Slip:" stand for plausible mistakes in the   *)
(* code (see ViewServerCore).                                              *)
(***************************************************************************)
EXTENDS Naturals, Sequences

CONSTANT Clients

\* AMOCommand; a client never uses a sequence number for two commands.
AMOCommand == [addr : Clients, sequenceNum : Nat \ {0}]
Log == Seq(AMOCommand)

\* AMOResult; number 0 stands for no entry in addr_result and addr_seq, which
\* execute always updates together.
AMOResult == [sequenceNum : Nat, result : Log]
NoResult == [sequenceNum |-> 0, result |-> <<>>]

AMOApplication == [log : Log, addr_result : [Clients -> AMOResult]]
NewApplication ==
  [log |-> <<>>, addr_result |-> [c \in Clients |-> NoResult]]

\* Slip: only the newest command is remembered.
ExecutedLast(app, cmd) ==
  app.addr_result[cmd.addr].sequenceNum = cmd.sequenceNum

\* Slip: a repeat of the newest command is taken for a new one.
ExecutedNewer(app, cmd) ==
  app.addr_result[cmd.addr].sequenceNum > cmd.sequenceNum

AlreadyExecuted(app, cmd) ==
  app.addr_result[cmd.addr].sequenceNum >= cmd.sequenceNum

\* The application after execute(cmd).
Execute(app, cmd) ==
  IF AlreadyExecuted(app, cmd)
  THEN app
  ELSE LET log == Append(app.log, cmd)
       IN  [log |-> log,
            addr_result |-> [app.addr_result EXCEPT
              ![cmd.addr] = [sequenceNum |-> cmd.sequenceNum, result |-> log]]]

\* Slip: the result is looked up before the command is executed.
AnswerBefore(app, cmd) == app.addr_result[cmd.addr]

\* What execute(cmd) returns: the newest result of the command's client.
Answer(app, cmd) == Execute(app, cmd).addr_result[cmd.addr]

=============================================================================
