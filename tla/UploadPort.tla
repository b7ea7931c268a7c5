------------------------------- MODULE UploadPort -------------------------------
(***************************************************************************)
(* An upload (commands/service_upload.go): runProgramAction runs the tool, *)
(* and beside it the goroutine detectUploadPort follows the events of a    *)
(* discovery watcher to find out on which port the board is afterwards.    *)
(* A tick of the clock is a second.  The recipes, the properties and the   *)
(* 1200 bps touch are left out: they are time in which ports come and go.  *)
(***************************************************************************)
EXTENDS Integers, Sequences, FiniteSets

CONSTANTS Ports,         \* ports as discoveries describe them
          Place,         \* Place[p]: address and protocol, by which ports are equal
          SameHardware, SameProtocol, SameAddress,  \* ports that have it from the user's port
          UserPort,      \* the port of the request
          Worlds,        \* see WorldsOK
          None

ASSUME PortsOK ==
    /\ UserPort \in Ports \cap SameHardware \cap SameProtocol \cap SameAddress
    /\ SameHardware \cup SameProtocol \cup SameAddress \subseteq Ports
    /\ Place \in [Ports -> Ports] /\ None \notin Ports \cup Nat

ASSUME WorldsOK == \A w \in Worlds :
    /\ w.attached \subseteq Ports /\ IsFiniteSet(w.attached)  \* at the start, one at a place
    /\ w.events \in Nat            \* how often a port may come or go
    /\ w.wait \in BOOLEAN          \* upload.wait_for_upload_port
    /\ w.fails \subseteq {"tool", "cancel", "watcher"}

Long  == 5    \* seconds to wait for a port
Short == 1    \* seconds to wait if the port need not change

VARIABLES world, attached, events,      \* the ports that are there, events still to come
          feed, watcher,                \* its channel, and whether it is "open", "dropped" or
                                        \* "closed"
          upload, cancelled,            \* runProgramAction: "tool", "await", "done", "failed"
          phase,                        \* detectUploadPort: "upload", "pick", "sent"
          candidate, waitForUploadPort, timeout,
          waited, compared, known       \* history: seconds in "pick"; ports that have come
                                        \* since a candidate last went and are still there;
                                        \* ports that were ever there

boardVars   == <<world, attached, events, known>>
feedVars    == <<feed, watcher>>
detectVars  == <<phase, candidate, waitForUploadPort, timeout, waited, compared>>
uploadVars  == <<upload, cancelled>>
vars == <<boardVars, feedVars, uploadVars, detectVars>>

Add(p)    == [type |-> "add", port |-> p]
Remove(p) == [type |-> "remove", port |-> p]

Orders(S) == {q \in [1 .. Cardinality(S) -> S] : \A p \in S : \E i \in DOMAIN q : q[i] = p}

\* Watch first sends the ports that are there.
Init ==
    /\ world \in Worlds
    /\ attached = world.attached /\ events = world.events /\ known = attached
    /\ \E q \in Orders(attached) : feed = [i \in DOMAIN q |-> Add(q[i])]
    /\ watcher = "open"
    /\ upload = "tool" /\ cancelled = FALSE
    /\ phase = "upload" /\ candidate = UserPort /\ waitForUploadPort = world.wait
    /\ timeout = None /\ waited = 0 /\ compared = {}

-----------------------------------------------------------------------------
\* The ports.

Notify(event) == feed' = IF watcher = "open" THEN Append(feed, event) ELSE feed

PortComes(p) ==
    /\ phase # "sent" /\ events > 0 /\ events' = events - 1
    /\ \A q \in attached : Place[q] # Place[p]
    /\ attached' = attached \cup {p} /\ known' = known \cup {p} /\ Notify(Add(p))
    /\ UNCHANGED <<world, watcher, uploadVars, detectVars>>

PortGoes(p) ==
    /\ phase # "sent" /\ events > 0 /\ events' = events - 1
    /\ p \in attached /\ attached' = attached \ {p} /\ Notify(Remove(p))
    /\ UNCHANGED <<world, known, watcher, uploadVars, detectVars>>

\* The manager sends nothing more to a watcher that was slow once; its channel stays.
WatcherDropped ==
    /\ "watcher" \in world.fails /\ watcher = "open" /\ watcher' = "dropped"
    /\ UNCHANGED <<boardVars, feed, uploadVars, detectVars>>

-----------------------------------------------------------------------------
\* runProgramAction, from the start of the detection on.

Completed == upload # "tool" \/ cancelled    \* uploadCtx is done

\* The tool may also end well after the cancellation, before it is killed.
ToolEnds ==
    /\ upload = "tool" /\ upload' = "await"
    /\ UNCHANGED <<boardVars, feedVars, cancelled, detectVars>>

\* The client ends the call: the context of the upload ends at once, the tool is
\* killed when a goroutine has seen it.
Cancel ==
    /\ "cancel" \in world.fails /\ upload = "tool" /\ ~cancelled /\ cancelled' = TRUE
    /\ UNCHANGED <<boardVars, feedVars, upload, detectVars>>

\* An error closes the watcher.
ToolFails ==
    /\ upload = "tool" /\ (cancelled \/ "tool" \in world.fails)
    /\ upload' = "failed" /\ watcher' = "closed"
    /\ UNCHANGED <<boardVars, feed, cancelled, detectVars>>

Await ==
    /\ upload = "await" /\ phase = "sent"
    /\ upload' = "done" /\ watcher' = "closed"
    /\ UNCHANGED <<boardVars, feed, cancelled, detectVars>>

\* The port that the client is told, if it is told one.
UpdatedPort == IF candidate = None THEN UserPort ELSE candidate

-----------------------------------------------------------------------------
\* detectUploadPort.

Event == Head(feed)
TakeEvent == feed # <<>> /\ feed' = Tail(feed) /\ UNCHANGED <<boardVars, watcher, uploadVars>>

CandidateGone ==
    candidate # None /\ Event.type = "remove" /\ Place[Event.port] = Place[candidate]

\* Mutant: every event is ignored.
NothingCounts == UNCHANGED <<candidate, waitForUploadPort>>

\* The only event that counts during the upload is that the port goes.
LoseDuringUpload ==
    IF CandidateGone THEN candidate' = None /\ waitForUploadPort' = TRUE
                     ELSE UNCHANGED <<candidate, waitForUploadPort>>

DuringUpload ==
    /\ phase = "upload" /\ TakeEvent /\ LoseDuringUpload
    /\ UNCHANGED <<phase, timeout, waited, compared>>

AfterUpload ==
    /\ phase = "upload" /\ Completed /\ phase' = "pick"
    /\ timeout' = IF waitForUploadPort THEN Long ELSE Short
    /\ UNCHANGED <<boardVars, feedVars, uploadVars, candidate, waitForUploadPort, waited, compared>>

\* Mutant: the timeout is not extended.
LoseCandidateKeepingTimeout ==
    /\ phase = "pick" /\ TakeEvent /\ CandidateGone
    /\ candidate' = None /\ waitForUploadPort' = TRUE /\ compared' = {}
    /\ UNCHANGED <<phase, waited, timeout>>

LoseCandidate ==
    /\ phase = "pick" /\ TakeEvent /\ CandidateGone
    /\ candidate' = None /\ waitForUploadPort' = TRUE /\ compared' = {}
    /\ timeout' = IF waitForUploadPort THEN timeout ELSE Long
    /\ UNCHANGED <<phase, waited>>

Priority(p) ==
    IF p = None THEN 0
    ELSE (IF p \in SameHardware THEN 1000 ELSE 0) + (IF p \in SameProtocol THEN 100 ELSE 0)
         + (IF p \in SameAddress THEN 10 ELSE 0)

\* Mutant: the last one is taken.
AnyBetter(p, q) == p # q

Better(p, q) == Priority(p) > Priority(q)

\* The port of the event has the hardware ID of the port of the event: the timeout is
\* set anew for every better candidate.
PickCandidate ==
    /\ phase = "pick" /\ TakeEvent /\ ~CandidateGone
    /\ IF Event.type = "add" /\ Better(Event.port, candidate)
       THEN candidate' = Event.port /\ timeout' = Short
       ELSE UNCHANGED <<candidate, timeout>>
    /\ compared' = IF Event.type = "add" THEN compared \cup {Event.port}
                 ELSE {p \in compared : Place[p] # Place[Event.port]}
    /\ UNCHANGED <<phase, waitForUploadPort, waited>>

WatcherClosed ==
    /\ phase # "sent" /\ feed = <<>> /\ watcher = "closed" /\ phase' = "sent"
    /\ UNCHANGED <<boardVars, feedVars, uploadVars, candidate, waitForUploadPort, timeout, waited, compared>>

Tick ==
    /\ phase = "pick" /\ timeout > 0
    /\ timeout' = timeout - 1 /\ waited' = waited + 1
    /\ UNCHANGED <<boardVars, feedVars, uploadVars, phase, candidate, waitForUploadPort, compared>>

\* Mutant: without a candidate it goes on waiting.
TimeoutWithCandidate ==
    /\ phase = "pick" /\ timeout = 0 /\ candidate # None /\ phase' = "sent"
    /\ UNCHANGED <<boardVars, feedVars, uploadVars, candidate, waitForUploadPort, timeout, waited, compared>>

TimeoutFires ==
    /\ phase = "pick" /\ timeout = 0 /\ phase' = "sent"
    /\ UNCHANGED <<boardVars, feedVars, uploadVars, candidate, waitForUploadPort, timeout, waited, compared>>

-----------------------------------------------------------------------------
Detection == \/ DuringUpload \/ AfterUpload \/ LoseCandidate \/ PickCandidate
             \/ WatcherClosed \/ Tick \/ TimeoutFires

Next ==
    \/ Detection
    \/ ToolEnds \/ ToolFails \/ Cancel \/ Await \/ WatcherDropped
    \/ \E p \in Ports : PortComes(p) \/ PortGoes(p)

Spec == Init /\ [][Next]_vars

\* The goroutine, the clock and the handler go on, and the tool ends. Ports need not
\* come or go.
FairSpec ==
    Spec /\ WF_vars(Detection) /\ WF_vars(ToolEnds \/ ToolFails) /\ WF_vars(Await)

-----------------------------------------------------------------------------
\* The domains of the variables; the timer runs once the upload is over, and whoever
\* has no candidate waits for one (detectUploadPort).
TypeOK ==
    /\ world \in Worlds /\ attached \subseteq Ports /\ known \subseteq Ports /\ events \in Nat
    /\ feed \in Seq([type : {"add", "remove"}, port : Ports]) /\ watcher \in {"open", "dropped", "closed"}
    /\ upload \in {"tool", "await", "done", "failed"} /\ cancelled \in BOOLEAN
    /\ phase \in {"upload", "pick", "sent"} /\ candidate \in Ports \cup {None}
    /\ waitForUploadPort \in BOOLEAN /\ timeout \in 0 .. Long \cup {None}
    /\ waited \in Nat /\ compared \subseteq Ports
    /\ phase = "pick" => timeout # None
    /\ candidate = None => waitForUploadPort

\* No ghost is answered: a candidate that was ever there is there, or the event that it
\* has gone is still to be read, also when ports come and go while the tool runs and
\* in between.
NoGhost ==
    phase = "pick" /\ watcher = "open" /\ candidate \in known =>
        candidate \in attached \/ \E i \in DOMAIN feed : feed[i].type = "remove"
                                                      /\ Place[feed[i].port] = Place[candidate]

\* Of the ports that the detection has been told since the upload ended or, if that is
\* later, since a candidate went, and that are still there for it, none is closer to the
\* user's port than the candidate, whatever the order in which they came.  A port that
\* was passed over before the candidate went is not looked at again: when no other comes
\* the user's port is answered, which is not there, although that one is.
BestIsPicked == \A p \in compared : ~(Priority(p) > Priority(candidate))

\* When the port goes and none comes, the detection has waited the long time for one,
\* also if the port went in the last second of the short one.
NothingElseHappened == events = world.events - 1 /\ compared = {} /\ watcher # "closed"
LostIsWaitedFor ==
    phase = "sent" /\ candidate = None /\ NothingElseHappened => waited >= Long

\* Every upload that succeeds is answered, and the goroutine of one that fails ends.
AlwaysAnswered == (upload \in {"await", "failed"}) ~> (phase = "sent" /\ upload \in {"done", "failed"})

\* The invariant of the module: the types, and that lost ports are noticed.
UploadInv == TypeOK /\ NoGhost
=============================================================================
