---------------------------- MODULE PluggableMonitor ----------------------------
(***************************************************************************)
(* One Monitor call: the handler, which starts a monitor tool and opens the*)
(* port (commands/service_monitor.go), the two goroutines that then serve  *)
(* the client, and the client side of the tool's protocol                  *)
(* (internal/arduino/monitor/monitor.go) that all of them use without a    *)
(* lock: commands go into the tool's standard input, and whoever waits for *)
(* a message gets the next one that the decoder has read.                  *)
(* The bytes that go through the port are left out.                        *)
(***************************************************************************)
EXTENDS Integers, Sequences, FiniteSets

CONSTANTS Settings,  \* the settings of the port, each of them asked for at most once
          Worlds,    \* what tool and client may do, see WorldsOK
          None

Threads  == {"handler", "receiver", "sender"}
Commands == {"hello", "describe", "configure", "open", "close", "quit"}

ASSUME WorldsOK == \A w \in Worlds :
    /\ w.first \subseteq Settings     \* settings of the request
    /\ w.later \subseteq Settings     \* settings that the client changes later
    /\ w.closes \in BOOLEAN           \* the client may send a close message
    /\ w.slow \in BOOLEAN             \* the tool may answer after the timeout, or never
    /\ w.refuses \subseteq Commands   \* the tool may answer these with an error
    /\ w.fails \subseteq {"crash", "unplug", "leave"}

VARIABLES world,
          proc,             \* the process of the tool: "none", "running", "exited", "reaped"
          stdin, stdout,    \* its pipes
          decoder, held,    \* jsonDecodeLoop, and the message it is sending
          conn,             \* the connection to the port: "none", "open", "closed"
          at,               \* at[t]: the command t is in, or where it is between commands
          sent,             \* sent[t]: the command has been sent
          todo,             \* todo[t]: settings still to be configured
          left,             \* what the client may still ask for
          client,           \* "here", "silent" (its side of the stream is closed) or "gone"
          cancelled, gracefulCloseInitiated, gracefulCloseDone,
          applied, accepted,    \* settings reported to the client, settings the tool took
          closes, timeouts      \* history: commands to close the port, waits that timed out

toolVars    == <<proc, stdin, stdout, conn, accepted>>
decoderVars == <<decoder, held>>
threadVars  == <<at, sent, todo>>
flagVars    == <<cancelled, gracefulCloseInitiated, gracefulCloseDone>>
clientVars  == <<left, client>>
historyVars == <<closes, timeouts>>
vars == <<world, toolVars, decoderVars, threadVars, flagVars, clientVars, applied, historyVars>>

Init ==
    /\ world \in Worlds
    /\ proc = "none" /\ stdin = <<>> /\ stdout = <<>> /\ conn = "none"
    /\ decoder = "none" /\ held = None
    /\ at = [t \in Threads |-> IF t = "handler" THEN "start" ELSE "off"]
    /\ sent = [t \in Threads |-> FALSE]
    /\ todo = [t \in Threads |-> IF t = "handler" THEN world.first ELSE {}]
    /\ left = [settings |-> world.later, close |-> world.closes] /\ client = "here"
    /\ cancelled = FALSE /\ gracefulCloseInitiated = FALSE /\ gracefulCloseDone = FALSE
    /\ applied = {} /\ accepted = {} /\ closes = 0 /\ timeouts = 0

-----------------------------------------------------------------------------
\* The tool, and what happens to it.

Gone(how) == proc' = how /\ conn' = IF conn = "open" THEN "closed" ELSE conn

Listening == at["handler"] = "open"

\* The tool reads a command and answers it, if it may with an error. It connects to
\* the listener before it answers OPEN, and may exit when it has answered QUIT.
Answer(ok) ==
    /\ proc = "running" /\ stdin # <<>>
    /\ LET c == Head(stdin)
       IN  /\ IF ok THEN c.cmd = "open" => Listening
                    ELSE c.cmd \in world.refuses \/ (c.cmd = "open" /\ ~Listening)
           /\ stdin' = Tail(stdin)
           /\ stdout' = Append(stdout, [cmd |-> c.cmd, ok |-> ok])
           /\ accepted' = IF c.cmd = "configure" /\ ok THEN accepted \cup {c.of} ELSE accepted
           /\ \/ ok /\ c.cmd = "open" /\ conn' = "open" /\ UNCHANGED proc
              \/ ok /\ c.cmd = "close" /\ Gone("running")
              \/ ok /\ c.cmd = "quit" /\ Gone("exited")
              \/ ~(ok /\ c.cmd \in {"open", "close"}) /\ UNCHANGED <<conn, proc>>
    /\ UNCHANGED <<world, decoderVars, threadVars, flagVars, clientVars, applied, historyVars>>

Crash ==
    /\ "crash" \in world.fails /\ proc = "running" /\ Gone("exited")
    /\ UNCHANGED <<world, stdin, stdout, accepted, decoderVars, threadVars, flagVars, clientVars,
                   applied, historyVars>>

\* The board goes: the tool closes the connection and sends a port_closed message.
Unplug ==
    /\ "unplug" \in world.fails /\ proc = "running" /\ conn = "open"
    /\ conn' = "closed" /\ stdout' = Append(stdout, [cmd |-> "port_closed", ok |-> TRUE])
    /\ UNCHANGED <<world, proc, stdin, accepted, decoderVars, threadVars, flagVars, clientVars,
                   applied, historyVars>>

-----------------------------------------------------------------------------
\* Mutant: the message that the port was closed is sent like any other.
DecodeEverything ==
    /\ decoder = "reading" /\ held = None /\ stdout # <<>>
    /\ held' = Head(stdout) /\ stdout' = Tail(stdout)
    /\ UNCHANGED <<world, proc, stdin, conn, accepted, decoder, threadVars, flagVars, clientVars,
                   applied, historyVars>>

\* jsonDecodeLoop: a message is read, and unless it says that the port was closed it
\* is held until somebody waits for one.

Decode ==
    /\ decoder = "reading" /\ held = None /\ stdout # <<>>
    /\ held' = IF Head(stdout).cmd = "port_closed" THEN None ELSE Head(stdout)
    /\ stdout' = Tail(stdout)
    /\ UNCHANGED <<world, proc, stdin, conn, accepted, decoder, threadVars, flagVars, clientVars,
                   applied, historyVars>>

\* The end of the pipe; waiting for a process closes it with what is still in it.
DecoderEnds ==
    /\ decoder = "reading" /\ held = None
    /\ proc = "reaped" \/ (proc = "exited" /\ stdout = <<>>)
    /\ decoder' = "ended"
    /\ UNCHANGED <<world, toolVars, held, threadVars, flagVars, clientVars, applied, historyVars>>

-----------------------------------------------------------------------------
\* What a thread does after a command, by its result.

Goto(t, label) == at' = [at EXCEPT ![t] = label] /\ sent' = [sent EXCEPT ![t] = FALSE]

\* Mutant: Quit kills the tool only if it does not answer.
KillIfSilent(ok) == IF ok THEN UNCHANGED <<proc, conn>> ELSE Gone("reaped")

Kill(ok) == Gone("reaped")

Configured(rest) == IF rest = {} THEN "open" ELSE "configure"

Stays == UNCHANGED <<proc, conn>>

\* The commands before the port is open, in their order; a setting that is refused is
\* left out.
AfterHandler(ok) ==
    LET in(c) == at["handler"] = c
    IN  /\ \/ in("hello") /\ ok /\ Goto("handler", "describe") /\ Stays
           \/ in("hello") /\ ~ok /\ Goto("handler", "returned") /\ Kill(ok)
           \/ in("describe") /\ ~ok /\ Goto("handler", "quit") /\ Stays
           \/ /\ in("configure") \/ (in("describe") /\ ok)
              /\ Goto("handler", Configured(todo'["handler"])) /\ Stays
           \/ in("open") /\ Goto("handler", IF ok THEN "accept" ELSE "quit") /\ Stays
           \/ in("close") /\ Goto("handler", "quit") /\ Stays
           \/ in("quit") /\ Goto("handler", "returned") /\ Kill(ok)
        /\ UNCHANGED gracefulCloseDone

AfterReceiver(ok) ==
    LET in(c) == at["receiver"] = c
    IN  \/ in("configure") /\ Goto("receiver", "recv") /\ Stays /\ UNCHANGED gracefulCloseDone
        \/ in("close") /\ Goto("receiver", "quit") /\ Stays /\ UNCHANGED gracefulCloseDone
        \/ in("quit") /\ Goto("receiver", "recv") /\ Kill(ok) /\ gracefulCloseDone' = TRUE

Setting(t) == IF at[t] = "configure" THEN CHOOSE s \in todo[t] : TRUE ELSE None

After(t, ok) ==
    /\ todo' = [todo EXCEPT ![t] = @ \ {Setting(t)}]
    /\ applied' = IF ok /\ at[t] = "configure" THEN applied \cup {Setting(t)} ELSE applied
    /\ IF t = "handler" THEN AfterHandler(ok) ELSE AfterReceiver(ok)
    /\ UNCHANGED <<world, stdin, stdout, accepted, decoder, cancelled, gracefulCloseInitiated, clientVars,
                   closes>>

-----------------------------------------------------------------------------
\* sendCommand and waitMessage, in any thread.

Commanding(t) == at[t] \in Commands

SendCommand(t) ==
    /\ Commanding(t) /\ ~sent[t] /\ proc = "running"
    /\ stdin' = Append(stdin, [cmd |-> at[t], of |-> Setting(t)])
    /\ sent' = [sent EXCEPT ![t] = TRUE]
    /\ closes' = IF at[t] = "close" THEN closes + 1 ELSE closes
    /\ UNCHANGED <<world, proc, stdout, conn, accepted, decoderVars, at, todo, flagVars, clientVars,
                   applied, timeouts>>

\* The pipe of a dead process is broken.
SendFailed(t) ==
    /\ Commanding(t) /\ ~sent[t] /\ proc \in {"exited", "reaped"}
    /\ After(t, FALSE) /\ UNCHANGED <<held, timeouts>>

\* Mutant: a message that says error is an answer like any other.
ReceiveRefusal(t) ==
    /\ Commanding(t) /\ sent[t] /\ held # None
    /\ held' = None /\ After(t, held.cmd = at[t]) /\ UNCHANGED timeouts

\* A message for another command, or one that says error, is an error.
Receive(t) ==
    /\ Commanding(t) /\ sent[t] /\ held # None
    /\ held' = None /\ After(t, held.cmd = at[t] /\ held.ok) /\ UNCHANGED timeouts

ChannelClosed(t) ==
    /\ Commanding(t) /\ sent[t] /\ decoder = "ended"
    /\ After(t, FALSE) /\ UNCHANGED <<held, timeouts>>

Timeout(t) ==
    /\ Commanding(t) /\ sent[t] /\ world.slow
    /\ After(t, FALSE) /\ timeouts' = timeouts + 1 /\ UNCHANGED held

-----------------------------------------------------------------------------
\* The handler, Monitor.

\* Run: the process is started and greeted.
Run ==
    /\ at["handler"] = "start" /\ Goto("handler", "hello")
    /\ proc' = "running" /\ decoder' = "reading"
    /\ UNCHANGED <<world, stdin, stdout, conn, accepted, held, todo, flagVars, clientVars, applied,
                   historyVars>>

\* Open has accepted the connection: the client is told, and two goroutines serve it.
Accept ==
    /\ at["handler"] = "accept" /\ conn # "none"
    /\ at' = [handler |-> "serving", receiver |-> "recv", sender |-> "read"]
    /\ UNCHANGED <<world, toolVars, decoderVars, sent, todo, flagVars, clientVars, applied,
                   historyVars>>

\* Mutant: it does not look whether the receiver is closing the port.
StopServingAtOnce ==
    /\ at["handler"] = "serving" /\ cancelled
    /\ Goto("handler", IF gracefulCloseInitiated THEN "returned" ELSE "close")
    /\ UNCHANGED <<world, toolVars, decoderVars, todo, flagVars, clientVars, applied, historyVars>>

StopServing ==
    /\ at["handler"] = "serving" /\ cancelled
    /\ Goto("handler", IF gracefulCloseInitiated THEN "graceful" ELSE "close")
    /\ UNCHANGED <<world, toolVars, decoderVars, todo, flagVars, clientVars, applied, historyVars>>

GracefullyClosed ==
    /\ at["handler"] = "graceful" /\ gracefulCloseDone /\ Goto("handler", "returned")
    /\ UNCHANGED <<world, toolVars, decoderVars, todo, flagVars, clientVars, applied, historyVars>>

-----------------------------------------------------------------------------
\* The goroutine that receives from the stream. What the client has sent before it
\* closed the stream may still be received, until the handler has returned.

Receiving == at["receiver"] = "recv"

ReceiveSetting(s) ==
    /\ Receiving /\ at["handler"] # "returned" /\ s \in left.settings
    /\ left' = [left EXCEPT !.settings = @ \ {s}]
    /\ Goto("receiver", "configure") /\ todo' = [todo EXCEPT !["receiver"] = {s}]
    /\ UNCHANGED <<world, toolVars, decoderVars, flagVars, client, applied, historyVars>>

ReceiveClose ==
    /\ Receiving /\ at["handler"] # "returned" /\ left.close
    /\ left' = [left EXCEPT !.close = FALSE]
    /\ Goto("receiver", "close") /\ gracefulCloseInitiated' = TRUE
    /\ UNCHANGED <<world, toolVars, decoderVars, todo, cancelled, gracefulCloseDone, client, applied,
                   historyVars>>

StreamEnded == client # "here" \/ at["handler"] = "returned"

\* The end of the stream, or an error when data of the client are written to the port.
ReceiverEnds ==
    /\ Receiving /\ (StreamEnded \/ conn = "closed")
    /\ Goto("receiver", "ended") /\ cancelled' = TRUE
    /\ UNCHANGED <<world, toolVars, decoderVars, todo, gracefulCloseInitiated, gracefulCloseDone,
                   clientVars, applied, historyVars>>

\* The goroutine that reads from the port: the connection or the stream is closed.
SenderEnds ==
    /\ at["sender"] = "read" /\ (conn = "closed" \/ client = "gone")
    /\ Goto("sender", "ended") /\ cancelled' = TRUE
    /\ UNCHANGED <<world, toolVars, decoderVars, todo, gracefulCloseInitiated, gracefulCloseDone,
                   clientVars, applied, historyVars>>

\* The client closes its side of the stream, or ends the call, which cancels the
\* context of the stream.
ClientLeaves(how) ==
    /\ "leave" \in world.fails /\ client = "here" /\ how \in {"silent", "gone"} /\ client' = how
    /\ cancelled' = (cancelled \/ how = "gone")
    /\ UNCHANGED <<world, toolVars, decoderVars, threadVars, gracefulCloseInitiated,
                   gracefulCloseDone, left, applied, historyVars>>

-----------------------------------------------------------------------------
\* Everything that is over, so that the end of the call is not a deadlock.
Done == at["handler"] = "returned" /\ UNCHANGED vars

Command(t) == SendCommand(t) \/ SendFailed(t) \/ Receive(t) \/ ChannelClosed(t) \/ Timeout(t)

Handler  == Run \/ Command("handler") \/ Accept \/ StopServing \/ GracefullyClosed
Receiver == \/ Command("receiver") \/ ReceiveClose \/ ReceiverEnds
            \/ \E s \in Settings : ReceiveSetting(s)
Decoder  == Decode \/ DecoderEnds
Tool     == \E ok \in BOOLEAN : Answer(ok)

Next ==
    \/ Handler \/ Receiver \/ SenderEnds \/ Decoder \/ Tool
    \/ Crash \/ Unplug
    \/ \E how \in {"silent", "gone"} : ClientLeaves(how)
    \/ Done

Spec == Init /\ [][Next]_vars

\* The goroutines and the timers run on, and a tool that is not slow answers. Nothing
\* makes the client leave or ask, or send data to a port that is closed.
FairSpec ==
    /\ Spec
    /\ WF_vars(Handler) /\ WF_vars(Command("receiver"))
    /\ WF_vars(StreamEnded /\ ReceiverEnds) /\ WF_vars(SenderEnds) /\ WF_vars(Decoder)
    /\ WF_vars(~world.slow /\ Tool)

-----------------------------------------------------------------------------
Labels == [handler  |-> Commands \cup {"start", "accept", "serving", "graceful", "returned"},
           receiver |-> {"off", "recv", "configure", "close", "quit", "ended"},
           sender   |-> {"off", "read", "ended"}]

Messages == [cmd : Commands, ok : BOOLEAN]

\* What is written to the tool: only CONFIGURE names a setting.
Orders == {m \in [cmd : Commands, of : Settings \cup {None}] : m.cmd = "configure" => m.of \in Settings}

\* The domains of the variables; nobody is in a command before there is a process,
\* and the decoder is there from the start of the process (runProcess).
TypeOK ==
    /\ world \in Worlds
    /\ proc \in {"none", "running", "exited", "reaped"}
    /\ stdin \in Seq(Orders)
    /\ stdout \in Seq([cmd : Commands \cup {"port_closed"}, ok : BOOLEAN])
    /\ decoder \in {"none", "reading", "ended"} /\ held \in Messages \cup {None}
    /\ conn \in {"none", "open", "closed"}
    /\ DOMAIN at = Threads /\ \A t \in Threads : at[t] \in Labels[t]
    /\ sent \in [Threads -> BOOLEAN] /\ todo \in [Threads -> SUBSET Settings]
    /\ left \in [settings : SUBSET Settings, close : BOOLEAN]
    /\ client \in {"here", "silent", "gone"}
    /\ cancelled \in BOOLEAN /\ gracefulCloseInitiated \in BOOLEAN /\ gracefulCloseDone \in BOOLEAN
    /\ applied \subseteq Settings /\ accepted \subseteq Settings
    /\ closes \in Nat /\ timeouts \in Nat
    /\ proc = "none" <=> at["handler"] = "start"
    /\ decoder = "none" <=> proc = "none"
    /\ \A t \in Threads : at[t] = "configure" => todo[t] # {}

\* The call ends after the port has been closed and the tool is gone, however the
\* client, the tool and the two closers race ("closed by the daemon AFTER the port has
\* been successfully closed", monitor.proto).
ReturnedMeansClosed ==
    at["handler"] = "returned" => proc = "reaped" /\ conn # "open"

\* The handler closes the port itself while the goroutines still serve the client. From
\* then on each of the two threads may get the other's answers, and the receiver the
\* answer to an earlier setting for the one that it configures.
Crossing == at["receiver"] # "off" /\ at["handler"] \in {"close", "quit", "returned"}

\* As long as no wait has timed out and the handler does not close the port beside the
\* receiver, a setting that is reported to the client as applied is one that the tool
\* took, although the client side never looks which command a message answers but by name.
AppliedIsAccepted == timeouts = 0 /\ ~Crossing => applied \subseteq accepted

\* Two goroutines may close the port, the receiver for the client's close message and
\* the handler for whatever else ends the session. As long as client, port and process
\* stay, one CLOSE command is sent, also when the tool refuses it or is too slow.
ClosedOnce == closes > 1 => world.fails # {}

\* When the connection is closed or the client is gone the call returns, whether the
\* tool answers in time, late, or never, and nobody is left behind: the goroutines end
\* with it, and so does the decoder, unless a wait has timed out.
EverybodyEnds ==
    (cancelled \/ conn = "closed" \/ at["handler"] = "returned") ~>
        /\ at["handler"] = "returned"
        /\ at["receiver"] \in {"off", "ended"} /\ at["sender"] \in {"off", "ended"}
        /\ decoder = "ended" \/ timeouts > 0

\* What the call promises its client, MonitorSession: its phase follows the handler, and
\* the process of the session is the tool's.
Phase == IF at["handler"] = "start" THEN "closed"
         ELSE IF at["handler"] = "returned" THEN "ended"
         ELSE IF at["receiver"] = "off" THEN "connecting" ELSE "open"

Process == IF proc \in {"exited", "reaped"} THEN "dead" ELSE proc

Session == INSTANCE MonitorSession WITH phase <- Phase, process <- Process

\* Every step of the handler, its goroutines and the tool is a step of the session, or
\* none of its business: one process, opened once, never left behind.
ImplementsSession == Session!SessionSpec

\* The invariant of the module: the types, what a return means, and what the tool is told.
MonitorInv == TypeOK /\ ReturnedMeansClosed /\ ClosedOnce
=============================================================================
