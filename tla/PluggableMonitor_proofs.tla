------------------------ MODULE PluggableMonitor_proofs ------------------------
(***************************************************************************)
(* Proofs about PluggableMonitor, for any settings and any behaviour of    *)
(* the tool and of the client that Worlds allows.                          *)
(***************************************************************************)
EXTENDS PluggableMonitor, SequenceTheorems, TLAPS

Callers == {"handler", "receiver"}

USE DEF Threads, Commands, Callers

\* A command of thread t ends: it could not be sent, or was answered, or there will be
\* no answer, or it has taken too long.
Ends(t) ==
    /\ Commanding(t) /\ \E ok \in BOOLEAN : After(t, ok)
    /\ held' \in {held, None} /\ timeouts' \in {timeouts, timeouts + 1}

LEMMA CommandCases ==
    ASSUME NEW t \in Callers, Command(t)
    PROVE  SendCommand(t) \/ Ends(t)
<1>1. CASE SendFailed(t)
  BY <1>1 DEF SendFailed, Ends
<1>2. CASE Receive(t)
  <2>1. (held.cmd = at[t] /\ held.ok) \in BOOLEAN
    OBVIOUS
  <2> QED
    BY <1>2, <2>1 DEF Receive, Ends
<1>3. CASE ChannelClosed(t)
  BY <1>3 DEF ChannelClosed, Ends
<1>4. CASE Timeout(t)
  BY <1>4 DEF Timeout, Ends
<1> QED
  BY <1>1, <1>2, <1>3, <1>4 DEF Command

\* The steps of the call, one by one.
LEMMA NextCases ==
    ASSUME [Next]_vars
    PROVE  \/ Run \/ Accept \/ StopServing \/ GracefullyClosed
           \/ \E t \in Callers : Command(t)
           \/ ReceiveClose \/ ReceiverEnds \/ \E s \in Settings : ReceiveSetting(s)
           \/ SenderEnds \/ Decode \/ DecoderEnds \/ \E ok \in BOOLEAN : Answer(ok)
           \/ Crash \/ Unplug \/ \E how \in {"silent", "gone"} : ClientLeaves(how)
           \/ UNCHANGED vars
BY DEF Next, Handler, Receiver, Decoder, Tool, Done

-----------------------------------------------------------------------------
\* The goroutines are there once the handler has accepted the connection, and from then
\* on it only serves and closes.
PhasesOK ==
    /\ at["receiver"] # "off" => at["handler"] \in {"serving", "graceful", "close", "quit", "returned"}
    /\ at["receiver"] = "off" => at["handler"] \notin {"serving", "graceful", "close"}
    /\ at["receiver"] = "off" <=> at["sender"] = "off"

TypeInv == TypeOK /\ PhasesOK

\* Every variable keeps its type.
LEMMA InitTypeInv == Init => TypeInv
<1> SUFFICES ASSUME Init PROVE TypeInv
  OBVIOUS
<1> USE WorldsOK DEF Init
<1>1. \A t \in Threads : at[t] \in Labels[t] /\ at[t] # "configure"
  BY DEF Labels
<1>2. left \in [settings : SUBSET Settings, close : BOOLEAN]
  OBVIOUS
<1>3. todo \in [Threads -> SUBSET Settings]
  OBVIOUS
<1>4. stdin \in Seq(Orders)
      /\ stdout \in Seq([cmd : Commands \cup {"port_closed"}, ok : BOOLEAN])
  OBVIOUS
<1>5. /\ proc = "none" <=> at["handler"] = "start"
      /\ decoder = "none" <=> proc = "none"
  OBVIOUS
<1>6. DOMAIN at = Threads /\ sent \in [Threads -> BOOLEAN]
  OBVIOUS
<1>7. world \in Worlds /\ accepted \subseteq Settings /\ applied \subseteq Settings
  OBVIOUS
<1>8. closes \in Nat /\ timeouts \in Nat
  OBVIOUS
<1>9. cancelled \in BOOLEAN /\ gracefulCloseInitiated \in BOOLEAN /\ gracefulCloseDone \in BOOLEAN
  OBVIOUS
<1>10. held \in Messages \cup {None}
  OBVIOUS
<1> QED
  BY <1>1, <1>2, <1>3, <1>4, <1>5, <1>6, <1>7, <1>8, <1>9, <1>10 DEF TypeOK, TypeInv, PhasesOK

\* What the end of a command does to the thread, to the process and to the connection.
LEMMA HandlerAfter ==
    ASSUME TypeOK, Commanding("handler"), NEW ok \in BOOLEAN, After("handler", ok)
    PROVE  /\ at' = [at EXCEPT !["handler"] = at'["handler"]]
           /\ at'["handler"] \in {"describe", "configure", "open", "accept", "quit", "returned"}
           /\ at'["handler"] = "returned" => Gone("reaped")
           /\ at'["handler"] # "returned" => UNCHANGED <<proc, conn>>
           /\ at'["handler"] = "configure" => todo'["handler"] # {}
           /\ at'["handler"] = "accept" => at["handler"] = "open"
           /\ at["handler"] = "close" => at'["handler"] = "quit"
           /\ at["handler"] = "quit" => at'["handler"] = "returned"
           /\ sent' = [sent EXCEPT !["handler"] = FALSE]
           /\ UNCHANGED gracefulCloseDone
<1> USE DEF TypeOK, Commanding, After, AfterHandler, Goto, Stays, Kill, Gone, Configured
<1>1. CASE at["handler"] = "hello"
  BY <1>1
<1>2. CASE at["handler"] = "describe"
  BY <1>2
<1>3. CASE at["handler"] = "configure"
  BY <1>3
<1>4. CASE at["handler"] = "open"
  BY <1>4
<1>5. CASE at["handler"] = "close"
  BY <1>5
<1>6. CASE at["handler"] = "quit"
  BY <1>6
<1> QED
  BY <1>1, <1>2, <1>3, <1>4, <1>5, <1>6

LEMMA ReceiverAfter ==
    ASSUME TypeOK, Commanding("receiver"), NEW ok \in BOOLEAN, After("receiver", ok)
    PROVE  /\ at' = [at EXCEPT !["receiver"] = at'["receiver"]]
           /\ at["receiver"] \in {"configure", "close", "quit"}
           /\ at["receiver"] = "quit" => Gone("reaped") /\ gracefulCloseDone' = TRUE
           /\ at["receiver"] # "quit" => UNCHANGED <<proc, conn, gracefulCloseDone>>
           /\ at'["receiver"] = IF at["receiver"] = "close" THEN "quit" ELSE "recv"
           /\ sent' = [sent EXCEPT !["receiver"] = FALSE]
<1> USE DEF TypeOK, Labels, Commanding, After, AfterReceiver, Goto, Stays, Kill, Gone
<1>1. CASE at["receiver"] = "configure"
  BY <1>1
<1>2. CASE at["receiver"] = "close"
  BY <1>2
<1>3. CASE at["receiver"] = "quit"
  BY <1>3
<1> QED
  BY <1>1, <1>2, <1>3

\* The end of a command leaves everything typed that it changes.
LEMMA AfterTypeInv ==
    ASSUME TypeInv, NEW t \in Callers, Commanding(t), NEW ok \in BOOLEAN, After(t, ok),
           held' \in Messages \cup {None}, timeouts' \in Nat
    PROVE  TypeInv'
<1> USE DEF TypeInv
<1>1. todo' \in [Threads -> SUBSET Settings] /\ applied' \subseteq Settings
  BY DEF TypeOK, After, Setting
<1>2. \A u \in Threads : u # t => todo'[u] = todo[u]
  BY DEF TypeOK, After
<1>3. /\ DOMAIN at' = Threads /\ \A u \in Threads : at'[u] \in Labels[u]
      /\ sent' \in [Threads -> BOOLEAN]
      /\ proc' \in {"running", "exited", "reaped"} /\ conn' \in {"none", "open", "closed"}
      /\ gracefulCloseDone' \in BOOLEAN
      /\ at'["handler"] # "start"
      /\ \A u \in Threads : at'[u] = "configure" => todo'[u] # {}
      /\ PhasesOK'
  <2>1. CASE t = "handler"
    <3>1. Commanding("handler") /\ After("handler", ok)
      BY <2>1
    <3>2. /\ at' = [at EXCEPT !["handler"] = at'["handler"]]
          /\ at'["handler"] \in {"describe", "configure", "open", "accept", "quit", "returned"}
          /\ at'["handler"] = "returned" => Gone("reaped")
          /\ at'["handler"] # "returned" => UNCHANGED <<proc, conn>>
          /\ at'["handler"] = "configure" => todo'["handler"] # {}
          /\ at["handler"] \in {"close", "quit"} => at'["handler"] \in {"quit", "returned"}
          /\ sent' = [sent EXCEPT !["handler"] = FALSE]
          /\ UNCHANGED gracefulCloseDone
      BY <3>1, HandlerAfter
    <3>3. proc # "none"
      BY <3>1 DEF TypeOK, Commanding
    <3>4. proc' \in {"running", "exited", "reaped"} /\ conn' \in {"none", "open", "closed"}
      BY <3>2, <3>3 DEF TypeOK, Gone
    <3>5. sent' \in [Threads -> BOOLEAN] /\ gracefulCloseDone' \in BOOLEAN
      BY <3>2 DEF TypeOK
    <3>6. DOMAIN at' = Threads /\ \A u \in Threads : at'[u] \in Labels[u]
      BY <3>2 DEF TypeOK, Labels
    <3>7. PhasesOK'
      BY <3>1, <3>2 DEF TypeOK, PhasesOK, Commanding
    <3>8. \A u \in Threads : at'[u] = "configure" => todo'[u] # {}
      BY <3>2, <2>1, <1>2 DEF TypeOK
    <3> QED
      BY <3>2, <3>4, <3>5, <3>6, <3>7, <3>8
  <2>2. CASE t = "receiver"
    <3>1. Commanding("receiver") /\ After("receiver", ok)
      BY <2>2
    <3>2. /\ at' = [at EXCEPT !["receiver"] = at'["receiver"]]
          /\ at["receiver"] = "quit" => Gone("reaped") /\ gracefulCloseDone' = TRUE
          /\ at["receiver"] # "quit" => UNCHANGED <<proc, conn, gracefulCloseDone>>
          /\ at'["receiver"] \in {"quit", "recv"}
          /\ sent' = [sent EXCEPT !["receiver"] = FALSE]
      BY <3>1, ReceiverAfter
    <3>3. at["receiver"] # "off" /\ at["handler"] # "start"
      BY <3>1 DEF TypeOK, PhasesOK, Commanding
    <3>4. proc' \in {"running", "exited", "reaped"} /\ conn' \in {"none", "open", "closed"}
      BY <3>2, <3>3 DEF TypeOK, Gone
    <3>5. sent' \in [Threads -> BOOLEAN] /\ gracefulCloseDone' \in BOOLEAN
      BY <3>2 DEF TypeOK
    <3>6. DOMAIN at' = Threads /\ \A u \in Threads : at'[u] \in Labels[u]
      BY <3>2 DEF TypeOK, Labels
    <3>7. PhasesOK' /\ at'["handler"] # "start"
      BY <3>2, <3>3 DEF TypeOK, PhasesOK
    <3>8. \A u \in Threads : at'[u] = "configure" => todo'[u] # {}
      BY <3>2, <2>2, <1>2 DEF TypeOK
    <3> QED
      BY <3>4, <3>5, <3>6, <3>7, <3>8
  <2> QED
    BY <2>1, <2>2
<1>4. UNCHANGED <<world, stdin, stdout, accepted, decoder, cancelled, gracefulCloseInitiated, left,
                  client, closes>>
  BY DEF After, clientVars
<1>5. decoder # "none"
  BY DEF TypeOK, PhasesOK, Commanding
<1> QED
  BY <1>1, <1>3, <1>4, <1>5 DEF TypeOK

LEMMA StepTypeInv ==
    ASSUME TypeInv, [Next]_vars
    PROVE  TypeInv'
<1> USE DEF TypeInv, toolVars, decoderVars, threadVars, flagVars, clientVars, historyVars
<1>1. CASE Run
  BY <1>1 DEF Run, Goto, TypeOK, PhasesOK, Labels
<1>2. CASE Accept
  BY <1>2 DEF Accept, TypeOK, PhasesOK, Labels
<1>3. CASE StopServing
  BY <1>3 DEF StopServing, Goto, TypeOK, PhasesOK, Labels
<1>4. CASE GracefullyClosed
  BY <1>4 DEF GracefullyClosed, Goto, TypeOK, PhasesOK, Labels
<1>5. ASSUME NEW t \in Callers, SendCommand(t) PROVE TypeInv'
  BY <1>5 DEF SendCommand, Commanding, Setting, TypeOK, PhasesOK, Orders
<1>6. ASSUME NEW t \in Callers, Ends(t) PROVE TypeInv'
  <2>1. PICK ok \in BOOLEAN : After(t, ok)
    BY <1>6 DEF Ends
  <2>2. held' \in Messages \cup {None} /\ timeouts' \in Nat
    BY <1>6 DEF Ends, TypeOK
  <2> QED
    BY <1>6, <2>1, <2>2, AfterTypeInv DEF Ends
<1>7. CASE ReceiveClose
  <2> USE <1>7 DEF ReceiveClose, Receiving, Goto
  <2>1. /\ at' = [at EXCEPT !["receiver"] = "close"] /\ sent' = [sent EXCEPT !["receiver"] = FALSE]
        /\ left' \in [settings : SUBSET Settings, close : BOOLEAN]
    BY DEF TypeOK
  <2>2. DOMAIN at' = Threads /\ \A u \in Threads : at'[u] \in Labels[u]
    BY <2>1 DEF TypeOK, Labels
  <2>3. PhasesOK' /\ (\A u \in Threads : at'[u] = "configure" => todo[u] # {})
    BY <2>1 DEF TypeOK, PhasesOK
  <2> QED
    BY <2>1, <2>2, <2>3 DEF TypeOK
<1>8. CASE ReceiverEnds
  BY <1>8 DEF ReceiverEnds, Receiving, Goto, TypeOK, PhasesOK, Labels
<1>9. ASSUME NEW s \in Settings, ReceiveSetting(s) PROVE TypeInv'
  BY <1>9 DEF ReceiveSetting, Receiving, Goto, TypeOK, PhasesOK, Labels
<1>10. CASE SenderEnds
  BY <1>10 DEF SenderEnds, Goto, TypeOK, PhasesOK, Labels
<1>11. CASE Decode
  <2> USE <1>11 DEF Decode
  <2>1. /\ Head(stdout) \in [cmd : Commands \cup {"port_closed"}, ok : BOOLEAN]
        /\ Tail(stdout) \in Seq([cmd : Commands \cup {"port_closed"}, ok : BOOLEAN])
    BY HeadTailProperties DEF TypeOK
  <2>2. held' \in Messages \cup {None}
    BY <2>1 DEF Messages
  <2>3. stdout' \in Seq([cmd : Commands \cup {"port_closed"}, ok : BOOLEAN])
    BY <2>1
  <2> QED
    BY <2>2, <2>3 DEF TypeOK, PhasesOK
<1>12. CASE DecoderEnds
  BY <1>12 DEF DecoderEnds, TypeOK, PhasesOK
<1>13. ASSUME NEW ok \in BOOLEAN, Answer(ok) PROVE TypeInv'
  <2> USE <1>13 DEF Answer
  <2>1. /\ Head(stdin) \in Orders
        /\ stdin' \in Seq(Orders)
    BY HeadTailProperties DEF TypeOK
  <2>2. stdout' \in Seq([cmd : Commands \cup {"port_closed"}, ok : BOOLEAN])
    <3>1. [cmd |-> Head(stdin).cmd, ok |-> ok] \in [cmd : Commands \cup {"port_closed"}, ok : BOOLEAN]
      BY <2>1 DEF Orders
    <3>2. stdout' = Append(stdout, [cmd |-> Head(stdin).cmd, ok |-> ok])
      OBVIOUS
    <3> QED
      BY <3>1, <3>2 DEF TypeOK
  <2>3. proc' \in {"running", "exited"} /\ conn' \in {"none", "open", "closed"}
    BY DEF TypeOK, Gone
  <2>4. proc # "none"
    OBVIOUS
  <2>5. accepted' \subseteq Settings
    BY <2>1 DEF TypeOK, Orders
  <2> QED
    BY <2>1, <2>2, <2>3, <2>4, <2>5 DEF TypeOK, PhasesOK
<1>14. CASE Crash
  BY <1>14 DEF Crash, Gone, TypeOK, PhasesOK
<1>15. CASE Unplug
  BY <1>15 DEF Unplug, TypeOK, PhasesOK
<1>16. ASSUME NEW how \in {"silent", "gone"}, ClientLeaves(how) PROVE TypeInv'
  BY <1>16 DEF ClientLeaves, TypeOK, PhasesOK
<1>17. CASE UNCHANGED vars
  BY <1>17 DEF vars, TypeOK, PhasesOK
<1> QED
  BY <1>1, <1>2, <1>3, <1>4, <1>5, <1>6, <1>7, <1>8, <1>9, <1>10, <1>11, <1>12, <1>13, <1>14,
     <1>15, <1>16, <1>17, CommandCases, NextCases

\* Every variable keeps its type in every behaviour of a call.
THEOREM TypeCorrect == Spec => []TypeInv
<1>1. TypeInv /\ [Next]_vars => TypeInv'
  BY StepTypeInv
<1> QED
  BY InitTypeInv, <1>1, PTL DEF Spec

-----------------------------------------------------------------------------
\* A process that is gone has taken its connection with it; the graceful close ends with
\* the process, and so does the call.
ExitInv ==
    /\ proc \in {"exited", "reaped"} => conn # "open"
    /\ gracefulCloseDone => proc = "reaped"
    /\ at["handler"] = "returned" => proc = "reaped"

\* Who may close the port, as long as client, port and process stay: only the receiver,
\* when the client says so; whatever ends the session follows from that.
NoClosingCommand == \A i \in 1..Len(stdin) : stdin[i].cmd \notin {"close", "quit"}

ClosesLeft ==
    (IF at["receiver"] = "close" /\ ~sent["receiver"] THEN 1 ELSE 0) + (IF left.close THEN 1 ELSE 0)

CloserInv ==
    /\ client = "here" /\ at["handler"] # "close"
    /\ at["receiver"] # "off" => at["handler"] \in {"serving", "graceful", "returned"}
    /\ \/ at["receiver"] \in {"close", "quit"} \/ at["handler"] = "graceful"
       \/ at["receiver"] # "off" /\ at["handler"] = "returned"
       \/ cancelled \/ gracefulCloseDone
       => gracefulCloseInitiated
    /\ at["receiver"] # "off" /\ ~gracefulCloseInitiated =>
          conn # "closed" /\ NoClosingCommand
    /\ at["receiver"] = "off" /\ at["handler"] \notin {"quit", "returned"} =>
          conn # "closed" /\ proc \in {"none", "running"} /\ NoClosingCommand
    /\ closes + ClosesLeft <= 1

\* The thread that may be in a command, as long as the two do not close the port together.
Asker == IF at["receiver"] = "off" THEN "handler" ELSE "receiver"

Asking == Commanding(Asker) /\ sent[Asker]

\* The answer a belongs to what the asker has asked for.
Fits(a) ==
    /\ Asking /\ a.cmd = at[Asker]
    /\ a.ok /\ a.cmd = "configure" => Setting(Asker) \in accepted

\* As long as the decoder reads, one command at most is on its way to the tool, or its
\* answer on the way back, and the asker waits for it.
OneInFlight ==
    /\ stdin # <<>> =>
          /\ Len(stdin) = 1 /\ held = None /\ \A i \in 1..Len(stdout) : stdout[i].cmd = "port_closed"
          /\ Asking /\ Head(stdin) = [cmd |-> at[Asker], of |-> Setting(Asker)]
    /\ held # None => Fits(held) /\ \A i \in 1..Len(stdout) : stdout[i].cmd = "port_closed"
    /\ \A i \in 1..Len(stdout) : stdout[i].cmd # "port_closed" =>
          /\ Fits(stdout[i])
          /\ \A j \in 1..Len(stdout) : stdout[j].cmd # "port_closed" => i = j

AnswersFit ==
    /\ decoder = "reading" => OneInFlight
    /\ decoder = "ended" => held = None /\ proc \in {"exited", "reaped"}
    /\ decoder = "none" => stdin = <<>> /\ stdout = <<>> /\ held = None
    /\ applied \subseteq accepted

\* The inductive invariant.
CallInv ==
    /\ TypeInv /\ ExitInv
    /\ world.fails = {} => CloserInv
    /\ timeouts = 0 /\ ~Crossing => AnswersFit

LEMMA InitCallInv == Init => CallInv
<1> SUFFICES ASSUME Init PROVE CallInv
  OBVIOUS
<1> USE DEF Init
<1>1. TypeInv
  BY InitTypeInv
<1>2. ExitInv
  BY DEF ExitInv
<1>3. world.fails = {} => CloserInv
  BY DEF CloserInv, NoClosingCommand, ClosesLeft
<1>4. AnswersFit
  BY DEF AnswersFit
<1> QED
  BY <1>1, <1>2, <1>3, <1>4 DEF CallInv

LEMMA StepExitInv ==
    ASSUME TypeInv, ExitInv, [Next]_vars
    PROVE  ExitInv'
<1> USE DEF ExitInv, toolVars, decoderVars, threadVars, flagVars, clientVars, historyVars
<1>1. CASE Run
  BY <1>1 DEF Run, Goto, TypeInv, TypeOK, PhasesOK
<1>2. CASE Accept
  BY <1>2 DEF Accept
<1>3. CASE StopServing
  BY <1>3 DEF StopServing, Goto, TypeInv, TypeOK
<1>4. CASE GracefullyClosed
  BY <1>4 DEF GracefullyClosed, Goto
<1>5. ASSUME NEW t \in Callers, SendCommand(t) PROVE ExitInv'
  BY <1>5 DEF SendCommand
<1>6. ASSUME Ends("handler") PROVE ExitInv'
  <2>1. PICK ok \in BOOLEAN : After("handler", ok)
    BY <1>6 DEF Ends
  <2>2. Commanding("handler")
    BY <1>6 DEF Ends
  <2>3. /\ at'["handler"] = "returned" => Gone("reaped")
        /\ at'["handler"] # "returned" => UNCHANGED <<proc, conn>>
        /\ UNCHANGED gracefulCloseDone
    BY <2>1, <2>2, HandlerAfter DEF TypeInv
  <2> QED
    BY <2>3 DEF Gone, TypeInv, TypeOK
<1>7. ASSUME Ends("receiver") PROVE ExitInv'
  <2>1. PICK ok \in BOOLEAN : After("receiver", ok)
    BY <1>7 DEF Ends
  <2>2. Commanding("receiver")
    BY <1>7 DEF Ends
  <2>3. /\ at' = [at EXCEPT !["receiver"] = at'["receiver"]]
        /\ at["receiver"] = "quit" => Gone("reaped") /\ gracefulCloseDone' = TRUE
        /\ at["receiver"] # "quit" => UNCHANGED <<proc, conn, gracefulCloseDone>>
    BY <2>1, <2>2, ReceiverAfter DEF TypeInv
  <2>4. at'["handler"] = at["handler"]
    BY <2>3 DEF TypeInv, TypeOK
  <2> QED
    BY <2>3, <2>4 DEF Gone, TypeInv, TypeOK
<1>8. CASE ReceiveClose
  BY <1>8 DEF ReceiveClose, Goto, TypeInv, TypeOK
<1>9. CASE ReceiverEnds
  BY <1>9 DEF ReceiverEnds, Goto, TypeInv, TypeOK
<1>10. ASSUME NEW s \in Settings, ReceiveSetting(s) PROVE ExitInv'
  BY <1>10 DEF ReceiveSetting, Goto, TypeInv, TypeOK
<1>11. CASE SenderEnds
  BY <1>11 DEF SenderEnds, Goto, TypeInv, TypeOK
<1>12. CASE Decode \/ DecoderEnds
  BY <1>12 DEF Decode, DecoderEnds
<1>13. ASSUME NEW ok \in BOOLEAN, Answer(ok) PROVE ExitInv'
  <2>1. /\ proc = "running" /\ UNCHANGED <<at, gracefulCloseDone>>
        /\ \/ UNCHANGED proc \/ Gone("running") \/ Gone("exited")
    BY <1>13 DEF Answer
  <2> QED
    BY <2>1 DEF Gone, TypeInv, TypeOK
<1>14. CASE Crash
  BY <1>14 DEF Crash, Gone, TypeInv, TypeOK
<1>15. CASE Unplug
  BY <1>15 DEF Unplug
<1>16. ASSUME NEW how \in {"silent", "gone"}, ClientLeaves(how) PROVE ExitInv'
  BY <1>16 DEF ClientLeaves
<1>17. CASE UNCHANGED vars
  BY <1>17 DEF vars
<1> QED
  BY <1>1, <1>2, <1>3, <1>4, <1>5, <1>6, <1>7, <1>8, <1>9, <1>10, <1>11, <1>12, <1>13, <1>14,
     <1>15, <1>16, <1>17, CommandCases, NextCases

LEMMA WorldStays == [Next]_vars => world' = world
<1> USE DEF toolVars, decoderVars, threadVars, flagVars, clientVars, historyVars
<1>1. ASSUME NEW t \in Callers, Command(t) PROVE world' = world
  BY <1>1, CommandCases DEF SendCommand, Ends, After
<1> QED
  BY <1>1, NextCases DEF Run, Accept, StopServing, GracefullyClosed, ReceiveClose, ReceiverEnds,
     ReceiveSetting, SenderEnds, Decode, DecoderEnds, Answer, Crash, Unplug, ClientLeaves, vars

\* Two threads do not close the port one after the other, as long as nothing fails.
LEMMA StepCloserInv ==
    ASSUME TypeInv, CloserInv, world.fails = {}, [Next]_vars
    PROVE  CloserInv'
<1> USE DEF CloserInv, NoClosingCommand, ClosesLeft, toolVars, decoderVars, threadVars, flagVars,
        clientVars, historyVars
<1>1. CASE Run
  BY <1>1 DEF Run, Goto, TypeInv, TypeOK, PhasesOK
<1>2. CASE Accept
  BY <1>2 DEF Accept, TypeInv, TypeOK, PhasesOK
<1>3. CASE StopServing
  BY <1>3 DEF StopServing, Goto, TypeInv, TypeOK, PhasesOK
<1>4. CASE GracefullyClosed
  BY <1>4 DEF GracefullyClosed, Goto, TypeInv, TypeOK, PhasesOK
<1>5. ASSUME SendCommand("handler") PROVE CloserInv'
  BY <1>5 DEF SendCommand, Commanding, TypeInv, TypeOK, PhasesOK
<1>6. ASSUME SendCommand("receiver") PROVE CloserInv'
  BY <1>6 DEF SendCommand, Commanding, TypeInv, TypeOK, PhasesOK
<1>7. ASSUME Ends("handler") PROVE CloserInv'
  <2>1. PICK ok \in BOOLEAN : After("handler", ok)
    BY <1>7 DEF Ends
  <2>2. Commanding("handler")
    BY <1>7 DEF Ends
  <2>3. /\ at' = [at EXCEPT !["handler"] = at'["handler"]]
        /\ at'["handler"] \in {"describe", "configure", "open", "accept", "quit", "returned"}
        /\ at'["handler"] # "returned" => UNCHANGED <<proc, conn>>
        /\ at["handler"] = "quit" => at'["handler"] = "returned"
        /\ sent' = [sent EXCEPT !["handler"] = FALSE]
        /\ UNCHANGED gracefulCloseDone
    BY <2>1, <2>2, HandlerAfter DEF TypeInv
  <2>4. UNCHANGED <<stdin, cancelled, gracefulCloseInitiated, left, client, closes>>
    BY <2>1 DEF After
  <2>5. at["receiver"] = "off"
    BY <2>2 DEF Commanding
  <2> QED
    BY <2>2, <2>3, <2>4, <2>5 DEF Commanding, TypeInv, TypeOK
<1>8. ASSUME Ends("receiver") PROVE CloserInv'
  <2>1. PICK ok \in BOOLEAN : After("receiver", ok)
    BY <1>8 DEF Ends
  <2>2. Commanding("receiver")
    BY <1>8 DEF Ends
  <2>3. /\ at' = [at EXCEPT !["receiver"] = at'["receiver"]]
        /\ at["receiver"] \in {"configure", "close", "quit"}
        /\ at["receiver"] # "quit" => UNCHANGED <<proc, conn, gracefulCloseDone>>
        /\ at'["receiver"] = IF at["receiver"] = "close" THEN "quit" ELSE "recv"
        /\ sent' = [sent EXCEPT !["receiver"] = FALSE]
    BY <2>1, <2>2, ReceiverAfter DEF TypeInv
  <2>4. UNCHANGED <<stdin, cancelled, gracefulCloseInitiated, left, client, closes>>
    BY <2>1 DEF After
  <2> QED
    BY <2>3, <2>4 DEF TypeInv, TypeOK
<1>9. CASE ReceiveClose
  BY <1>9 DEF ReceiveClose, Receiving, Goto, TypeInv, TypeOK
<1>10. CASE ReceiverEnds
  BY <1>10 DEF ReceiverEnds, Receiving, StreamEnded, Goto, TypeInv, TypeOK
<1>11. ASSUME NEW s \in Settings, ReceiveSetting(s) PROVE CloserInv'
  BY <1>11 DEF ReceiveSetting, Receiving, Goto, TypeInv, TypeOK
<1>12. CASE SenderEnds
  BY <1>12 DEF SenderEnds, Goto, TypeInv, TypeOK, PhasesOK
<1>13. CASE Decode \/ DecoderEnds
  BY <1>13 DEF Decode, DecoderEnds
<1>14. ASSUME NEW ok \in BOOLEAN, Answer(ok) PROVE CloserInv'
  <2>1. \A i \in 1..Len(Tail(stdin)) : Tail(stdin)[i] = stdin[i + 1]
    BY <1>14, HeadTailProperties DEF Answer, TypeInv, TypeOK
  <2>2. NoClosingCommand => /\ \A i \in 1..Len(Tail(stdin)) : Tail(stdin)[i].cmd \notin {"close", "quit"}
                            /\ Head(stdin).cmd \notin {"close", "quit"}
    BY <1>14, <2>1, HeadTailProperties DEF Answer, TypeInv, TypeOK
  <2>3. NoClosingCommand => NoClosingCommand' /\ proc' = proc /\ (conn # "closed" => conn' # "closed")
    BY <1>14, <2>2 DEF Answer, Gone
  <2>4. UNCHANGED <<at, sent, left, client, cancelled, gracefulCloseInitiated, gracefulCloseDone, closes>>
    BY <1>14 DEF Answer
  <2>5. ClosesLeft' = ClosesLeft
    BY <2>4
  <2> HIDE DEF NoClosingCommand, ClosesLeft
  <2> QED
    BY <2>3, <2>4, <2>5
<1>15. CASE Crash \/ Unplug \/ \E how \in {"silent", "gone"} : ClientLeaves(how)
  BY <1>15 DEF Crash, Unplug, ClientLeaves
<1>16. CASE UNCHANGED vars
  BY <1>16 DEF vars
<1> QED
  BY <1>1, <1>2, <1>3, <1>4, <1>5, <1>6, <1>7, <1>8, <1>9, <1>10, <1>11, <1>12, <1>13, <1>14,
     <1>15, <1>16, CommandCases, NextCases

-----------------------------------------------------------------------------
\* Nothing is on its way.
Quiet == stdin = <<>> /\ held = None /\ \A i \in 1..Len(stdout) : stdout[i].cmd = "port_closed"

LEMMA QuietIsFine == Quiet => OneInFlight
BY DEF Quiet, OneInFlight

LEMMA NobodyAsks == ASSUME OneInFlight, ~Asking PROVE Quiet
BY DEF OneInFlight, Fits, Quiet

\* Once the two threads close the port beside each other they always have.
LEMMA CrossingStays ==
    ASSUME TypeInv, [Next]_vars, Crossing
    PROVE  Crossing'
<1> USE DEF Crossing, TypeInv, TypeOK, toolVars, decoderVars, threadVars, flagVars, clientVars, historyVars
<1>1. ASSUME SendCommand("handler") \/ SendCommand("receiver") PROVE Crossing'
  BY <1>1 DEF SendCommand
<1>2. ASSUME Ends("handler") PROVE Crossing'
  <2>1. PICK ok \in BOOLEAN : After("handler", ok)
    BY <1>2 DEF Ends
  <2>2. Commanding("handler")
    BY <1>2 DEF Ends
  <2>3. /\ at' = [at EXCEPT !["handler"] = at'["handler"]]
        /\ at["handler"] = "close" => at'["handler"] = "quit"
        /\ at["handler"] = "quit" => at'["handler"] = "returned"
    BY <2>1, <2>2, HandlerAfter
  <2> QED
    BY <2>2, <2>3 DEF Commanding
<1>3. ASSUME Ends("receiver") PROVE Crossing'
  <2>1. PICK ok \in BOOLEAN : After("receiver", ok)
    BY <1>3 DEF Ends
  <2>2. Commanding("receiver")
    BY <1>3 DEF Ends
  <2>3. /\ at' = [at EXCEPT !["receiver"] = at'["receiver"]]
        /\ at'["receiver"] = IF at["receiver"] = "close" THEN "quit" ELSE "recv"
    BY <2>1, <2>2, ReceiverAfter
  <2> QED
    BY <2>3
<1>4. ASSUME Run \/ Accept \/ StopServing \/ GracefullyClosed PROVE Crossing'
  BY <1>4 DEF Run, Accept, StopServing, GracefullyClosed, Goto
<1>5. ASSUME ReceiveClose \/ ReceiverEnds \/ (\E s \in Settings : ReceiveSetting(s)) \/ SenderEnds
      PROVE  Crossing'
  BY <1>5 DEF ReceiveClose, ReceiverEnds, ReceiveSetting, SenderEnds, Goto
<1>6. ASSUME Decode \/ DecoderEnds \/ (\E ok \in BOOLEAN : Answer(ok)) \/ Crash \/ Unplug
             \/ (\E how \in {"silent", "gone"} : ClientLeaves(how)) \/ UNCHANGED vars
      PROVE  Crossing'
  BY <1>6 DEF Decode, DecoderEnds, Answer, Crash, Unplug, ClientLeaves, vars
<1> QED
  BY <1>1, <1>2, <1>3, <1>4, <1>5, <1>6, CommandCases, NextCases

\* A step that leaves the asker and the pipes alone.
LEMMA AskerUndisturbed ==
    ASSUME TypeInv, AnswersFit, UNCHANGED <<stdin, stdout, decoder, held, accepted, applied, todo>>,
           decoder = "ended" => proc' \in {"exited", "reaped"},
           Asker' = Asker, at'[Asker] = at[Asker], sent'[Asker] = sent[Asker]
    PROVE  AnswersFit'
<1>1. \A a : Fits(a) => Fits(a)'
  BY DEF Fits, Asking, Commanding, Setting
<1>2. Asking => Asking'
  BY DEF Asking, Commanding
<1>3. Setting(Asker)' = Setting(Asker)
  BY DEF Setting
<1>4. OneInFlight => OneInFlight'
  BY <1>1, <1>2, <1>3 DEF OneInFlight
<1> QED
  BY <1>4 DEF AnswersFit

\* A step of an asker that has sent nothing.
LEMMA NothingAsked ==
    ASSUME TypeInv, AnswersFit, UNCHANGED <<stdin, stdout, decoder, held, accepted, applied>>,
           decoder = "ended" => proc' \in {"exited", "reaped"},
           ~Asking
    PROVE  AnswersFit'
<1>1. decoder = "reading" => Quiet
  BY NobodyAsks DEF AnswersFit
<1>2. decoder = "reading" => Quiet'
  BY <1>1 DEF Quiet
<1>3. Quiet' => OneInFlight'
  BY QuietIsFine, PTL
<1> QED
  BY <1>2, <1>3 DEF AnswersFit

\* The thread that ends a command is the asker.
LEMMA CallerIsAsker ==
    ASSUME TypeInv, ~Crossing, NEW t \in Callers, Commanding(t)
    PROVE  t = Asker
BY DEF TypeInv, TypeOK, PhasesOK, Crossing, Commanding, Asker

\* A command that fails leaves nothing of what it asked for.
LEMMA FailureFits ==
    ASSUME TypeInv, AnswersFit, ~Crossing, NEW t \in Callers, Commanding(t), After(t, FALSE),
           UNCHANGED held, ~sent[t] \/ decoder = "ended"
    PROVE  AnswersFit'
<1>1. t = Asker
  BY CallerIsAsker
<1>2. UNCHANGED <<stdin, stdout, decoder, accepted, applied>>
  BY DEF After
<1>3. UNCHANGED proc \/ proc' = "reaped"
  <2>1. CASE t = "handler"
    BY <2>1, HandlerAfter DEF TypeInv, Gone
  <2>2. CASE t = "receiver"
    BY <2>2, ReceiverAfter DEF TypeInv, Gone
  <2> QED
    BY <2>1, <2>2
<1>4. decoder = "ended" => proc' \in {"exited", "reaped"}
  BY <1>3 DEF AnswersFit
<1>5. CASE ~sent[t]
  BY <1>1, <1>2, <1>4, <1>5, NothingAsked DEF Asking
<1>6. CASE decoder = "ended"
  BY <1>2, <1>4, <1>6 DEF AnswersFit
<1> QED
  BY <1>5, <1>6

\* An answer is the one that was asked for.
LEMMA ReceiveFits ==
    ASSUME TypeInv, AnswersFit, ~Crossing, NEW t \in Callers, Receive(t)
    PROVE  AnswersFit'
<1>1. t = Asker
  BY CallerIsAsker DEF Receive
<1>2. decoder = "reading" /\ OneInFlight
  BY DEF AnswersFit, TypeInv, TypeOK, Receive
<1>3. Fits(held) /\ stdin = <<>> /\ \A i \in 1..Len(stdout) : stdout[i].cmd = "port_closed"
  BY <1>2 DEF OneInFlight, Receive
<1>4. UNCHANGED <<stdin, stdout, decoder, accepted>> /\ held' = None
  BY DEF Receive, After
<1>5. Quiet'
  BY <1>3, <1>4 DEF Quiet
<1>6. applied' \subseteq accepted'
  BY <1>1, <1>3, <1>4 DEF AnswersFit, Receive, After, Fits
<1>7. Quiet' => OneInFlight'
  BY QuietIsFine, PTL
<1> QED
  BY <1>2, <1>4, <1>5, <1>6, <1>7 DEF AnswersFit

\* A command goes to a tool that has nothing else to do.
LEMMA SendFits ==
    ASSUME TypeInv, AnswersFit, ~Crossing, NEW t \in Callers, SendCommand(t)
    PROVE  AnswersFit'
<1>1. t = Asker /\ ~Asking
  BY CallerIsAsker DEF SendCommand, Asking
<1>2. decoder = "reading"
  BY DEF AnswersFit, TypeInv, TypeOK, SendCommand
<1>3. Quiet
  BY <1>1, <1>2, NobodyAsks DEF AnswersFit
<1>4. /\ stdin' = Append(<<>>, [cmd |-> at[Asker], of |-> Setting(Asker)])
      /\ UNCHANGED <<stdout, held, decoder, accepted, applied, at, todo>>
      /\ sent' = [sent EXCEPT ![t] = TRUE]
  BY <1>1, <1>3 DEF SendCommand, Quiet, decoderVars
<1>5. Asker' = Asker /\ Asking' /\ Setting(Asker)' = Setting(Asker)
  BY <1>1, <1>4 DEF Asker, Asking, Commanding, SendCommand, Setting, TypeInv, TypeOK
<1>6. Len(stdin') = 1 /\ Head(stdin') = [cmd |-> at[Asker], of |-> Setting(Asker)]
  BY <1>4
<1>7. OneInFlight'
  BY <1>3, <1>4, <1>5, <1>6 DEF OneInFlight, Quiet
<1> QED
  BY <1>2, <1>4, <1>7 DEF AnswersFit

LEMMA DecodeFits ==
    ASSUME TypeInv, AnswersFit, Decode
    PROVE  AnswersFit'
<1>1. OneInFlight
  BY DEF AnswersFit, Decode
<1>2. UNCHANGED <<stdin, decoder, accepted, applied, at, sent, todo>>
  BY DEF Decode, threadVars
<1>3. \A a : Fits(a) => Fits(a)'
  BY <1>2 DEF Fits, Asking, Commanding, Setting, Asker
<1>4. Asker' = Asker /\ Setting(Asker)' = Setting(Asker) /\ (Asking => Asking')
  BY <1>2 DEF Asking, Commanding, Setting, Asker
<1>5. /\ stdout' = Tail(stdout) /\ Len(stdout) > 0 /\ Len(Tail(stdout)) = Len(stdout) - 1
      /\ \A i \in 1..Len(Tail(stdout)) : Tail(stdout)[i] = stdout[i + 1]
      /\ Head(stdout) = stdout[1] /\ Len(stdout) \in Nat
  BY HeadTailProperties DEF Decode, TypeInv, TypeOK
<1>6. held = None /\ held' = IF stdout[1].cmd = "port_closed" THEN None ELSE stdout[1]
  BY <1>5 DEF Decode
<1>7. \A i \in 1..Len(stdout') : i + 1 \in 1..Len(stdout) /\ stdout'[i] = stdout[i + 1]
  BY <1>5
<1>8. 1 \in 1..Len(stdout)
  BY <1>5
<1>9. held' # None => Fits(held)' /\ \A i \in 1..Len(stdout') : stdout'[i].cmd = "port_closed"
  <2> SUFFICES ASSUME held' # None
               PROVE  Fits(held)' /\ \A i \in 1..Len(stdout') : stdout'[i].cmd = "port_closed"
    OBVIOUS
  <2>1. held' = stdout[1] /\ stdout[1].cmd # "port_closed"
    BY <1>6
  <2>2. Fits(stdout[1]) /\ \A j \in 1..Len(stdout) : stdout[j].cmd # "port_closed" => 1 = j
    BY <2>1, <1>1, <1>8 DEF OneInFlight
  <2>3. Fits(held')
    BY <2>1, <2>2
  <2>4. ASSUME NEW i \in 1..Len(stdout') PROVE stdout'[i].cmd = "port_closed"
    BY <1>7, <2>2
  <2> QED
    BY <2>3, <2>4, <1>3
<1>10. stdin # <<>> => held' = None /\ \A i \in 1..Len(stdout') : stdout'[i].cmd = "port_closed"
  BY <1>1, <1>6, <1>7, <1>8 DEF OneInFlight
<1>11. ASSUME NEW i \in 1..Len(stdout'), stdout'[i].cmd # "port_closed"
       PROVE  /\ Fits(stdout[i])'
              /\ \A j \in 1..Len(stdout') : stdout'[j].cmd # "port_closed" => i = j
  <2>1. Fits(stdout[i + 1]) /\ \A j \in 1..Len(stdout) : stdout[j].cmd # "port_closed" => i + 1 = j
    BY <1>1, <1>7, <1>11 DEF OneInFlight
  <2>2. Fits(stdout'[i])
    BY <2>1, <1>7
  <2> QED
    BY <2>1, <2>2, <1>3, <1>7
<1>12. OneInFlight'
  BY <1>1, <1>2, <1>4, <1>9, <1>10, <1>11 DEF OneInFlight
<1> QED
  BY <1>2, <1>12 DEF AnswersFit, Decode

LEMMA AnswerFits ==
    ASSUME TypeInv, AnswersFit, NEW ok \in BOOLEAN, Answer(ok)
    PROVE  AnswersFit'
<1>1. decoder = "reading" /\ OneInFlight
  BY DEF AnswersFit, Answer, TypeInv, TypeOK
<1>2. /\ UNCHANGED <<held, decoder, applied, at, sent, todo>>
      /\ stdout' = Append(stdout, [cmd |-> Head(stdin).cmd, ok |-> ok]) /\ stdin' = Tail(stdin)
      /\ accepted \subseteq accepted'
      /\ Head(stdin).cmd = "configure" /\ ok => Head(stdin).of \in accepted'
  BY DEF Answer, decoderVars, threadVars
<1>3. /\ Len(stdin) = 1 /\ held = None /\ Asking
      /\ \A i \in 1..Len(stdout) : stdout[i].cmd = "port_closed"
      /\ Head(stdin) = [cmd |-> at[Asker], of |-> Setting(Asker)]
  BY <1>1 DEF OneInFlight, Answer
<1>4. stdin' = <<>>
  BY <1>2, <1>3, HeadTailProperties, EmptySeq DEF TypeInv, TypeOK, Answer
<1>5. Asker' = Asker /\ Setting(Asker)' = Setting(Asker) /\ Asking'
  BY <1>2, <1>3 DEF Asking, Commanding, Setting, Asker
<1>6. \A a : a = [cmd |-> Head(stdin).cmd, ok |-> ok] => Fits(a)'
  BY <1>2, <1>3, <1>5 DEF Fits
<1>7. /\ Len(stdout') = Len(stdout) + 1 /\ Len(stdout) \in Nat
      /\ stdout'[Len(stdout) + 1] = [cmd |-> Head(stdin).cmd, ok |-> ok]
      /\ \A i \in 1..Len(stdout) : stdout'[i] = stdout[i]
  BY <1>2 DEF TypeInv, TypeOK
<1>8. \A i \in 1..Len(stdout') : stdout'[i].cmd # "port_closed" => i = Len(stdout) + 1
  BY <1>3, <1>7
<1>9. OneInFlight'
  BY <1>2, <1>3, <1>4, <1>6, <1>7, <1>8 DEF OneInFlight
<1> QED
  BY <1>1, <1>2, <1>9 DEF AnswersFit

\* No step breaks the order of commands and answers.
LEMMA StepAnswersFit ==
    ASSUME TypeInv, timeouts = 0 /\ ~Crossing => AnswersFit, [Next]_vars,
           timeouts' = 0, ~Crossing'
    PROVE  AnswersFit'
<1> USE DEF toolVars, decoderVars, threadVars, flagVars, clientVars, historyVars
<1>1. ~Crossing
  BY CrossingStays
<1>2. timeouts = 0
  <2>1. ASSUME NEW t \in Callers, Command(t) PROVE timeouts = 0
    BY <2>1, CommandCases DEF SendCommand, Ends, TypeInv, TypeOK
  <2> QED
    BY <2>1, NextCases DEF Run, Accept, StopServing, GracefullyClosed, ReceiveClose, ReceiverEnds,
       ReceiveSetting, SenderEnds, Decode, DecoderEnds, Answer, Crash, Unplug, ClientLeaves, vars
<1>3. AnswersFit
  BY <1>1, <1>2
<1>4. CASE Run
  <2>1. decoder = "none" /\ stdin = <<>> /\ stdout = <<>> /\ held = None
    BY <1>3, <1>4 DEF AnswersFit, Run, TypeInv, TypeOK
  <2>2. Quiet'
    BY <1>4, <2>1 DEF Quiet, Run
  <2>3. Quiet' => OneInFlight'
    BY QuietIsFine, PTL
  <2> QED
    BY <1>3, <1>4, <2>2, <2>3 DEF AnswersFit, Run
<1>5. CASE Accept
  <2>1. ~Asking
    BY <1>5 DEF Accept, Asking, Asker, Commanding, TypeInv, PhasesOK
  <2> QED
    BY <1>3, <1>5, <2>1, NothingAsked DEF Accept, AnswersFit
<1>6. CASE StopServing
  <2>1. at["receiver"] # "off" /\ at'["receiver"] = at["receiver"] /\ sent'["receiver"] = sent["receiver"]
    BY <1>6 DEF StopServing, Goto, TypeInv, TypeOK, PhasesOK
  <2>2. Asker' = Asker /\ at'[Asker] = at[Asker] /\ sent'[Asker] = sent[Asker]
    BY <2>1 DEF Asker
  <2> QED
    BY <1>3, <1>6, <2>2, AskerUndisturbed DEF StopServing, AnswersFit
<1>7. CASE GracefullyClosed
  BY <1>7 DEF GracefullyClosed, Goto, Crossing, TypeInv, TypeOK, PhasesOK
<1>8. ASSUME NEW t \in Callers, Command(t) PROVE AnswersFit'
  <2>1. CASE SendCommand(t)
    BY <1>1, <1>3, <2>1, SendFits
  <2>2. CASE SendFailed(t)
    BY <1>1, <1>3, <2>2, FailureFits DEF SendFailed
  <2>3. CASE Receive(t)
    BY <1>1, <1>3, <2>3, ReceiveFits
  <2>4. CASE ChannelClosed(t)
    BY <1>1, <1>3, <2>4, FailureFits DEF ChannelClosed
  <2>5. CASE Timeout(t)
    BY <1>2, <2>5 DEF Timeout
  <2> QED
    BY <1>8, <2>1, <2>2, <2>3, <2>4, <2>5 DEF Command
<1>9. ASSUME ReceiveClose \/ ReceiverEnds \/ \E s \in Settings : ReceiveSetting(s)
      PROVE  AnswersFit'
  <2>1. ~Asking
    BY <1>9 DEF ReceiveClose, ReceiverEnds, ReceiveSetting, Receiving, Asking, Asker, Commanding
  <2>2. UNCHANGED <<stdin, stdout, decoder, held, accepted, applied, proc>>
    BY <1>9 DEF ReceiveClose, ReceiverEnds, ReceiveSetting
  <2> QED
    BY <1>3, <2>1, <2>2, NothingAsked DEF AnswersFit
<1>10. CASE SenderEnds
  <2>1. Asker' = Asker /\ at'[Asker] = at[Asker] /\ sent'[Asker] = sent[Asker]
    BY <1>10 DEF SenderEnds, Goto, Asker, TypeInv, TypeOK
  <2> QED
    BY <1>3, <1>10, <2>1, AskerUndisturbed DEF SenderEnds, AnswersFit
<1>11. CASE Decode
  BY <1>3, <1>11, DecodeFits
<1>12. CASE DecoderEnds
  BY <1>3, <1>12 DEF DecoderEnds, AnswersFit
<1>13. ASSUME NEW ok \in BOOLEAN, Answer(ok) PROVE AnswersFit'
  BY <1>3, <1>13, AnswerFits
<1>14. ASSUME Crash \/ (\E how \in {"silent", "gone"} : ClientLeaves(how)) \/ UNCHANGED vars
       PROVE  AnswersFit'
  <2>1. UNCHANGED <<stdin, stdout, decoder, held, accepted, applied, at, sent, todo>>
    BY <1>14 DEF Crash, ClientLeaves, vars
  <2>2. proc' \in {proc, "exited"}
    BY <1>14 DEF Crash, ClientLeaves, vars, Gone
  <2>3. Asker' = Asker
    BY <2>1 DEF Asker
  <2> QED
    BY <1>3, <2>1, <2>2, <2>3, AskerUndisturbed DEF AnswersFit
<1>15. CASE Unplug
  <2>1. decoder = "reading" /\ OneInFlight
    BY <1>3, <1>15 DEF AnswersFit, Unplug, TypeInv, TypeOK
  <2>2. UNCHANGED <<stdin, decoder, held, accepted, applied, at, sent, todo>>
    BY <1>15 DEF Unplug
  <2>3. (\A a : Fits(a) => Fits(a)') /\ Asker' = Asker /\ Setting(Asker)' = Setting(Asker) /\ (Asking => Asking')
    BY <2>2 DEF Fits, Asking, Commanding, Setting, Asker
  <2>4. /\ Len(stdout') = Len(stdout) + 1 /\ Len(stdout) \in Nat
        /\ stdout'[Len(stdout) + 1].cmd = "port_closed"
        /\ \A i \in 1..Len(stdout) : stdout'[i] = stdout[i]
    BY <1>15 DEF Unplug, TypeInv, TypeOK
  <2>5. \A i \in 1..Len(stdout') : stdout'[i].cmd # "port_closed" => i \in 1..Len(stdout)
    BY <2>4
  <2>6. \A i \in 1..Len(stdout') : stdout'[i].cmd # "port_closed" => Fits(stdout[i])'
    BY <2>1, <2>3, <2>4, <2>5 DEF OneInFlight
  <2>7. OneInFlight'
    BY <2>1, <2>2, <2>3, <2>4, <2>5, <2>6 DEF OneInFlight
  <2> QED
    BY <1>3, <2>1, <2>2, <2>7 DEF AnswersFit
<1> QED
  BY <1>4, <1>5, <1>6, <1>7, <1>8, <1>9, <1>10, <1>11, <1>12, <1>13, <1>14, <1>15, NextCases

-----------------------------------------------------------------------------
\* The inductive invariant holds in every behaviour of a call.
THEOREM CallInvariant == Spec => []CallInv
<1>1. ASSUME CallInv, [Next]_vars PROVE CallInv'
  <2>1. TypeInv' /\ ExitInv' /\ world' = world
    BY <1>1, StepTypeInv, StepExitInv, WorldStays DEF CallInv
  <2>2. world'.fails = {} => CloserInv'
    BY <1>1, <2>1, StepCloserInv DEF CallInv
  <2>3. timeouts' = 0 /\ ~Crossing' => AnswersFit'
    BY <1>1, StepAnswersFit DEF CallInv
  <2> QED
    BY <2>1, <2>2, <2>3 DEF CallInv
<1> QED
  BY InitCallInv, <1>1, PTL DEF Spec

\* The call returns only when the tool is gone and the port is closed, and as long as
\* client, port and process stay it tells the tool once to close it.
THEOREM MonitorIsSafe == Spec => []MonitorInv
<1>1. CallInv => MonitorInv
  <2>1. ASSUME CallInv, closes > 1 PROVE world.fails # {}
    BY <2>1 DEF CallInv, CloserInv, ClosesLeft, TypeInv, TypeOK
  <2> QED
    BY <2>1 DEF CallInv, TypeInv, ExitInv, MonitorInv, ReturnedMeansClosed, ClosedOnce
<1> QED
  BY CallInvariant, <1>1, PTL

\* As long as no wait has timed out and the handler does not close the port beside the receiver,
\* a setting that the client is told of is one that the tool has taken.
THEOREM AppliedOnlyIfAccepted == Spec => []AppliedIsAccepted
<1>1. CallInv => AppliedIsAccepted
  BY DEF CallInv, AnswersFit, AppliedIsAccepted
<1> QED
  BY CallInvariant, <1>1, PTL

-----------------------------------------------------------------------------
\* The call is a session: every step of handler, goroutines and tool is one step of
\* MonitorSession or none.

\* The conditions of the abstract steps, over the mapped variables.
LEMMA SessionStep ==
    ASSUME \/ Phase = "closed" /\ Phase' = "connecting" /\ Process = "none" /\ Process' = "running"
           \/ Phase = "connecting" /\ Phase' = "open" /\ Process' = Process
           \/ Process = "running" /\ Process' = "dead" /\ Phase # "ended" /\ Phase' = Phase
           \/ Phase \in {"connecting", "open"} /\ Phase' = "ended" /\ Process' = "dead"
           \/ Phase' = Phase /\ Process' = Process
    PROVE  [Session!SessionNext]_(Session!sessionVars)
BY DEF Session!SessionNext, Session!sessionVars, Session!Launch, Session!Opened,
   Session!Exits, Session!Ended

\* Each step does what the session may do.
LEMMA StepRefines ==
    ASSUME TypeInv, ExitInv, [Next]_vars
    PROVE  [Session!SessionNext]_(Session!sessionVars)
<1> USE DEF Phase, Process, TypeInv, TypeOK, PhasesOK, ExitInv, toolVars, decoderVars, threadVars,
        flagVars, clientVars, historyVars
<1>1. CASE Run
  <2>1. Phase = "closed" /\ Phase' = "connecting" /\ Process = "none" /\ Process' = "running"
    BY <1>1 DEF Run, Goto
  <2> QED
    BY <2>1, SessionStep
<1>2. CASE Accept
  <2>1. Phase = "connecting" /\ Phase' = "open" /\ Process' = Process
    BY <1>2 DEF Accept
  <2> QED
    BY <2>1, SessionStep
<1>3. CASE GracefullyClosed
  <2>1. Phase \in {"connecting", "open"} /\ Phase' = "ended" /\ Process' = "dead"
    BY <1>3 DEF GracefullyClosed, Goto
  <2> QED
    BY <2>1, SessionStep
<1>4. ASSUME Ends("handler") PROVE [Session!SessionNext]_(Session!sessionVars)
  <2>1. PICK ok \in BOOLEAN : After("handler", ok)
    BY <1>4 DEF Ends
  <2>2. Commanding("handler")
    BY <1>4 DEF Ends
  <2>3. /\ at' = [at EXCEPT !["handler"] = at'["handler"]]
        /\ at'["handler"] \in {"describe", "configure", "open", "accept", "quit", "returned"}
        /\ at'["handler"] = "returned" => Gone("reaped")
        /\ at'["handler"] # "returned" => UNCHANGED <<proc, conn>>
    BY <2>1, <2>2, HandlerAfter
  <2>4. Phase \in {"connecting", "open"}
    BY <2>2 DEF Commanding
  <2>5. CASE at'["handler"] = "returned"
    BY <2>3, <2>4, <2>5, SessionStep DEF Gone
  <2>6. CASE at'["handler"] # "returned"
    <3>1. Phase' = Phase /\ Process' = Process
      BY <2>2, <2>3, <2>6 DEF Commanding
    <3> QED
      BY <3>1, SessionStep
  <2> QED
    BY <2>5, <2>6
<1>5. ASSUME Ends("receiver") PROVE [Session!SessionNext]_(Session!sessionVars)
  <2>1. PICK ok \in BOOLEAN : After("receiver", ok)
    BY <1>5 DEF Ends
  <2>2. Commanding("receiver")
    BY <1>5 DEF Ends
  <2>3. /\ at' = [at EXCEPT !["receiver"] = at'["receiver"]]
        /\ at'["receiver"] \in {"quit", "recv"}
        /\ Gone("reaped") \/ UNCHANGED proc
    BY <2>1, <2>2, ReceiverAfter
  <2>4. Phase' = Phase
    BY <2>2, <2>3 DEF Commanding
  <2>5. CASE UNCHANGED proc
    BY <2>4, <2>5, SessionStep
  <2>6. CASE Gone("reaped")
    <3>1. Process' = "dead" /\ ((Process = "running" /\ Phase # "ended") \/ Process = "dead")
      BY <2>2, <2>6 DEF Gone, Commanding
    <3> QED
      BY <2>4, <3>1, SessionStep
  <2> QED
    BY <2>3, <2>5, <2>6
<1>6. ASSUME NEW ok \in BOOLEAN, Answer(ok) PROVE [Session!SessionNext]_(Session!sessionVars)
  <2>1. Process = "running" /\ Phase # "ended" /\ Phase' = Phase /\ Process' \in {"running", "dead"}
    BY <1>6 DEF Answer, Gone
  <2> QED
    BY <2>1, SessionStep
<1>7. CASE Crash
  <2>1. Process = "running" /\ Phase # "ended" /\ Phase' = Phase /\ Process' = "dead"
    BY <1>7 DEF Crash, Gone
  <2> QED
    BY <2>1, SessionStep
<1>8. ASSUME \/ StopServing \/ SendCommand("handler") \/ SendCommand("receiver")
             \/ ReceiveClose \/ ReceiverEnds \/ (\E s \in Settings : ReceiveSetting(s)) \/ SenderEnds
             \/ Decode \/ DecoderEnds \/ Unplug \/ (\E how \in {"silent", "gone"} : ClientLeaves(how))
             \/ UNCHANGED vars
      PROVE  [Session!SessionNext]_(Session!sessionVars)
  <2>1. UNCHANGED proc
    BY <1>8 DEF StopServing, SendCommand, ReceiveClose, ReceiverEnds, ReceiveSetting, SenderEnds,
       Decode, DecoderEnds, Unplug, ClientLeaves, vars
  <2>2. Phase' = Phase
    <3>1. CASE StopServing
      BY <3>1 DEF StopServing, Goto
    <3>2. CASE ReceiveClose \/ ReceiverEnds \/ SenderEnds \/ \E s \in Settings : ReceiveSetting(s)
      BY <3>2 DEF ReceiveClose, ReceiverEnds, ReceiveSetting, Receiving, SenderEnds, Goto
    <3>3. CASE UNCHANGED at
      BY <3>3
    <3> QED
      BY <1>8, <3>1, <3>2, <3>3 DEF SendCommand, Decode, DecoderEnds, Unplug, ClientLeaves, vars
  <2> QED
    BY <2>1, <2>2, SessionStep
<1> QED
  BY <1>1, <1>2, <1>3, <1>4, <1>5, <1>6, <1>7, <1>8, CommandCases, NextCases

\* The Monitor call implements the session it promises its client.
THEOREM MonitorImplementsSession == Spec => ImplementsSession
<1>1. Init => Session!SessionInit
  BY DEF Init, Phase, Process, Session!SessionInit
<1>2. CallInv /\ [Next]_vars => [Session!SessionNext]_(Session!sessionVars)
  BY StepRefines DEF CallInv
<1> QED
  BY CallInvariant, <1>1, <1>2, PTL DEF Spec, ImplementsSession, Session!SessionSpec
=============================================================================
