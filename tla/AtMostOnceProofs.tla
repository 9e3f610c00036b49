-------------------------- MODULE AtMostOnceProofs --------------------------
(* What executing a command does to an application, for labs 1 and 2. *)
EXTENDS AtMostOnce, TLAPS

LEMMA AppendLog ==
  ASSUME NEW log \in Log, NEW cmd \in AMOCommand
  PROVE  /\ Append(log, cmd) \in Log
         /\ Len(Append(log, cmd)) = Len(log) + 1
         /\ \A i \in DOMAIN log : Append(log, cmd)[i] = log[i]
         /\ Append(log, cmd)[Len(log) + 1] = cmd
  BY DEF Log

\* A command that has not been executed is executed last.
LEMMA ExecuteEffect ==
  ASSUME NEW app \in AMOApplication, NEW cmd \in AMOCommand
  PROVE  \/ AlreadyExecuted(app, cmd) /\ Execute(app, cmd) = app
         \/ /\ ~AlreadyExecuted(app, cmd)
            /\ Execute(app, cmd).log = Append(app.log, cmd)
            /\ Execute(app, cmd).addr_result
                 = [app.addr_result EXCEPT
                      ![cmd.addr] = [sequenceNum |-> cmd.sequenceNum,
                                     result |-> Append(app.log, cmd)]]
  BY DEF Execute

LEMMA ExecuteType ==
  ASSUME NEW app \in AMOApplication, NEW cmd \in AMOCommand
  PROVE  Execute(app, cmd) \in AMOApplication
<1>1. CASE AlreadyExecuted(app, cmd)
  BY <1>1 DEF Execute
<1>2. CASE ~AlreadyExecuted(app, cmd)
  <2> DEFINE log == Append(app.log, cmd)
             res == [sequenceNum |-> cmd.sequenceNum, result |-> log]
  <2>1. app.log \in Log /\ app.addr_result \in [Clients -> AMOResult]
    BY DEF AMOApplication
  <2>2. cmd.addr \in Clients /\ cmd.sequenceNum \in Nat
    BY DEF AMOCommand
  <2>3. log \in Log
    BY <2>1, AppendLog
  <2>4. res \in AMOResult
    BY <2>2, <2>3 DEF AMOResult
  <2>5. Execute(app, cmd)
          = [log |-> log, addr_result |-> [app.addr_result EXCEPT ![cmd.addr] = res]]
    BY <1>2 DEF Execute
  <2> HIDE DEF log, res
  <2>6. [app.addr_result EXCEPT ![cmd.addr] = res] \in [Clients -> AMOResult]
    BY <2>1, <2>2, <2>4
  <2> QED
    BY <2>3, <2>5, <2>6 DEF AMOApplication
<1> QED
  BY <1>1, <1>2

LEMMA AnswerType ==
  ASSUME NEW app \in AMOApplication, NEW cmd \in AMOCommand
  PROVE  Answer(app, cmd) \in AMOResult
  BY ExecuteType DEF Answer, AMOApplication, AMOCommand
=============================================================================
