------------------------- MODULE WrappedApplication -------------------------
(***************************************************************************)
(* Lab 1 with the application that the server's AMOApplication wraps.      *)
(* ClientServer abstracts it to the log of the commands it has executed;   *)
(* here it runs beside that log, whatever deterministic application it is. *)
(* A command's payload is a function of its client and number.             *)
(*                                                                         *)
(* Definitions introduced by "Slip:" stand for plausible mistakes in the   *)
(* code (see ViewServerCore).                                              *)
(***************************************************************************)
EXTENDS ClientServer

CONSTANTS
  NewState,    \* the wrapped application before the first command
  Apply(_, _)  \* application.execute: [state, result] for a state, a command

VARIABLES
  wrapped,  \* the fields of AMOApplication
  states,   \* history: what the application was after 0, 1, 2... commands
  answers   \* history: the result sent in each reply, and the log it stands for

wrappedVars == <<wrapped, states, answers>>

WrappedInit ==
  /\ Init
  /\ wrapped = [application |-> NewState,
                addr_result |-> [c \in Clients |-> [sequenceNum |-> 0]]]
  /\ states = [n \in {0} |-> NewState]
  /\ answers = {}

\* Slip: the command is executed before the check.
PerformFirst(w, cmd) ==
  LET x == Apply(w.application, cmd)
  IN  IF AlreadyExecuted(w, cmd)
      THEN [w EXCEPT !.application = x.state]
      ELSE [application |-> x.state,
            addr_result |-> [w.addr_result EXCEPT
              ![cmd.addr] = [sequenceNum |-> cmd.sequenceNum,
                             result |-> x.result]]]

\* The fields after execute(cmd).
Perform(w, cmd) ==
  IF AlreadyExecuted(w, cmd)
  THEN w
  ELSE LET x == Apply(w.application, cmd)
       IN  [application |-> x.state,
            addr_result |-> [w.addr_result EXCEPT
              ![cmd.addr] = [sequenceNum |-> cmd.sequenceNum,
                             result |-> x.result]]]

\* SimpleServer.handleRequest
AnswerRequest(m) ==
  /\ HandleRequest(m)
  /\ wrapped' = Perform(wrapped, m.command)
  /\ states' = [n \in 0..Len(app'.log) |->
                  IF n \in DOMAIN states THEN states[n]
                  ELSE wrapped'.application]
  /\ LET c == m.command.addr
     IN  answers' = answers \cup
           {[log |-> Answer(app, m.command).result,
             result |-> wrapped'.addr_result[c].result]}

WrappedNext ==
  \/ \E m \in net : AnswerRequest(m)
  \/ /\ \/ \E c \in Clients : ClientStep(c)
        \/ \E m \in net : HandleReply(m) \/ Lose(m)
     /\ UNCHANGED wrappedVars

WrappedSpec == WrappedInit /\ [][WrappedNext]_<<vars, wrappedVars>>
WrappedFairSpec == WrappedSpec /\ Fairness

-----------------------------------------------------------------------------

\* The application goes from state to state as the log says, each command
\* taking it on from the one before.
FollowsLog ==
  /\ DOMAIN states = 0..Len(app.log)
  /\ states[0] = NewState
  /\ \A n \in DOMAIN app.log : states[n] = Apply(states[n - 1], app.log[n]).state

\* The result of the last command of log, executed after the others.
ResultOf(log) == Apply(states[Len(log) - 1], log[Len(log)]).result

\* However often a request arrives, and whatever has been executed since, what
\* the server answers is what its application answers when the commands of the
\* log are executed one after the other, each once: a result may be taken for
\* the log that ends with its command.
AnswersByLog ==
  /\ FollowsLog
  /\ \A a \in answers :
       /\ Len(a.log) \in DOMAIN app.log
       /\ a.result = ResultOf(a.log)

=============================================================================
