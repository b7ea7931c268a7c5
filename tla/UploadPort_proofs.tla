--------------------------- MODULE UploadPort_proofs ---------------------------
(***************************************************************************)
(* Proofs about UploadPort, for any ports and any order in which they come *)
(* and go.                                                                 *)
(***************************************************************************)
EXTENDS UploadPort, FiniteSetTheorems, TLAPS

PortEvents == [type : {"add", "remove"}, port : Ports]

\* The events q say, after event i, that the port at the place of p has gone.
GoneAfter(q, i, p) == \E j \in DOMAIN q : j > i /\ q[j].type = "remove" /\ Place[q[j].port] = Place[p]

\* A port that has come is there, or the event that it has gone follows.
AddsTrue(q, there, ever) ==
    \A i \in DOMAIN q : q[i].type = "add" =>
        q[i].port \in ever /\ (q[i].port \in there \/ GoneAfter(q, i, q[i].port))

\* As long as the watcher is told of the ports this holds for those in its feed and for the
\* candidate.
FeedOK ==
    watcher = "open" => /\ AddsTrue(feed, attached, known)
                        /\ candidate \in known => candidate \in attached \/ GoneAfter(feed, 0, candidate)

\* Nothing is compared before the upload is over, and then the candidate is the best.
PickOK == BestIsPicked /\ (phase = "upload" => compared = {})

\* Up to the first event that comes or goes, the candidate is the user's port, to which no port
\* is preferred; if that event takes the port away it is the last of the feed.
EventsOK ==
    /\ events <= world.events
    /\ events >= world.events - 1 => candidate \in {UserPort, None}
    /\ candidate = None /\ events >= world.events - 1 => feed = <<>> /\ events < world.events
    /\ events = world.events => \A i \in DOMAIN feed : feed[i].type = "add"
    /\ events = world.events - 1 => \A i \in DOMAIN feed : i < Len(feed) => feed[i].type = "add"

\* So the timer of a detection that waits for a port runs down from the long time.
TimerOK ==
    /\ phase = "upload" => waited = 0
    /\ phase = "pick" /\ waitForUploadPort /\ events >= world.events - 1 => timeout + waited >= Long
    /\ phase = "sent" /\ candidate = None /\ events >= world.events - 1 /\ watcher # "closed" => waited >= Long

WaitOK == EventsOK /\ TimerOK

DetectInv == TypeOK /\ FeedOK /\ PickOK /\ WaitOK

-----------------------------------------------------------------------------
\* The feed.
LEMMA UserPortIs ==
    /\ UserPort \in Ports /\ UserPort # None /\ None \notin Ports /\ None \notin Nat
    /\ UserPort \in SameHardware /\ UserPort \in SameProtocol /\ UserPort \in SameAddress
BY PortsOK

LEMMA EventIs ==
    /\ \A e \in PortEvents : e.type \in {"add", "remove"} /\ e.port \in Ports
    /\ \A p \in Ports : /\ Add(p) \in PortEvents /\ Add(p).type = "add" /\ Add(p).port = p
                        /\ Remove(p) \in PortEvents /\ Remove(p).type = "remove" /\ Remove(p).port = p
BY DEF PortEvents, Add, Remove

LEMMA FeedIs ==
    ASSUME TypeOK
    PROVE  /\ feed \in Seq(PortEvents) /\ Len(feed) \in Nat /\ DOMAIN feed = 1 .. Len(feed)
           /\ \A i \in DOMAIN feed : i \in Nat /\ feed[i] \in PortEvents
<1>1. feed \in Seq(PortEvents)
  BY DEF TypeOK, PortEvents
<1> HIDE DEF PortEvents
<1> QED
  BY <1>1

\* An event that is taken is the first one; the others move up.
LEMMA TakeIs ==
    ASSUME TypeOK, TakeEvent
    PROVE  /\ feed' \in Seq(PortEvents) /\ Len(feed') = Len(feed) - 1
           /\ DOMAIN feed' = 1 .. Len(feed) - 1
           /\ \A i \in DOMAIN feed' : i + 1 \in DOMAIN feed /\ feed'[i] = feed[i + 1]
           /\ 1 \in DOMAIN feed /\ Event = feed[1] /\ Event \in PortEvents
           /\ UNCHANGED <<world, attached, events, known, watcher, upload, cancelled>>
<1>1. feed \in Seq(PortEvents) /\ feed # <<>> /\ feed' = Tail(feed)
  BY FeedIs DEF TakeEvent
<1>2. /\ feed' \in Seq(PortEvents) /\ Len(feed') = Len(feed) - 1
      /\ DOMAIN feed' = 1 .. Len(feed) - 1
      /\ \A i \in DOMAIN feed' : i + 1 \in DOMAIN feed /\ feed'[i] = feed[i + 1]
  BY <1>1
<1>3. 1 \in DOMAIN feed /\ Event = feed[1]
  BY <1>1 DEF Event
<1> QED
  BY <1>1, <1>2, <1>3, FeedIs DEF TakeEvent, boardVars, uploadVars

\* An event that is sent is the last one.
LEMMA NotifyIs ==
    ASSUME TypeOK, NEW e \in PortEvents, Notify(e)
    PROVE  /\ feed' \in Seq(PortEvents)
           /\ watcher = "open" => /\ DOMAIN feed' = 1 .. Len(feed) + 1 /\ Len(feed') = Len(feed) + 1
                                  /\ feed'[Len(feed) + 1] = e
                                  /\ \A i \in DOMAIN feed : i \in DOMAIN feed' /\ feed'[i] = feed[i]
           /\ watcher # "open" => feed' = feed
<1>1. feed \in Seq(PortEvents)
  BY FeedIs
<1>2. CASE watcher = "open"
  <2>1. feed' = Append(feed, e)
    BY <1>2 DEF Notify
  <2> QED
    BY <1>1, <1>2, <2>1
<1>3. CASE watcher # "open"
  BY <1>1, <1>3 DEF Notify
<1> QED
  BY <1>2, <1>3

\* The steps, one by one.
LEMMA NextCases ==
    ASSUME [Next]_vars
    PROVE  \/ DuringUpload \/ AfterUpload \/ LoseCandidate \/ PickCandidate
           \/ WatcherClosed \/ Tick \/ TimeoutFires
           \/ ToolEnds \/ ToolFails \/ Cancel \/ Await \/ WatcherDropped
           \/ \E p \in Ports : PortComes(p) \/ PortGoes(p)
           \/ UNCHANGED vars
BY DEF Next, Detection

-----------------------------------------------------------------------------
\* The types.
LEMMA InitTypes == Init => TypeOK
<1> SUFFICES ASSUME Init PROVE TypeOK
  OBVIOUS
<1>1. /\ world \in Worlds /\ world.attached \subseteq Ports /\ world.events \in Nat /\ world.wait \in BOOLEAN
      /\ IsFiniteSet(world.attached)
  BY WorldsOK DEF Init
<1>2. attached = world.attached /\ Cardinality(attached) \in Nat
  BY <1>1, FS_CardinalityType DEF Init
<1>3. feed \in Seq(PortEvents)
  <2>1. PICK q \in Orders(attached) : feed = [i \in DOMAIN q |-> Add(q[i])]
    BY DEF Init
  <2>2. DOMAIN q = 1 .. Cardinality(attached) /\ \A i \in DOMAIN q : q[i] \in Ports
    BY <1>1, <1>2, <2>1 DEF Orders
  <2>3. \A i \in DOMAIN q : Add(q[i]) \in PortEvents
    BY <2>2, EventIs
  <2>4. feed \in [1 .. Cardinality(attached) -> PortEvents]
    BY <2>1, <2>2, <2>3
  <2> QED
    BY <1>2, <2>4
<1> QED
  BY <1>1, <1>2, <1>3, UserPortIs DEF Init, TypeOK, PortEvents

LEMMA StepTypes ==
    ASSUME TypeOK, [Next]_vars
    PROVE  TypeOK'
<1> USE DEF boardVars, feedVars, uploadVars, detectVars, PortEvents
<1> USE UserPortIs
<1>1. CASE DuringUpload
  BY <1>1, TakeIs, EventIs DEF DuringUpload, LoseDuringUpload, TypeOK
<1>2. CASE AfterUpload
  BY <1>2 DEF AfterUpload, TypeOK, Long, Short
<1>3. CASE LoseCandidate
  BY <1>3, TakeIs DEF LoseCandidate, TypeOK, Long
<1>4. CASE PickCandidate
  BY <1>4, TakeIs, EventIs DEF PickCandidate, TypeOK, Long, Short
<1>5. CASE WatcherClosed
  BY <1>5 DEF WatcherClosed, TypeOK
<1>6. CASE Tick
  BY <1>6 DEF Tick, TypeOK, Long
<1>7. CASE TimeoutFires
  BY <1>7 DEF TimeoutFires, TypeOK
<1>8. CASE ToolEnds \/ ToolFails \/ Cancel \/ Await \/ WatcherDropped
  BY <1>8 DEF ToolEnds, ToolFails, Cancel, Await, WatcherDropped, TypeOK
<1>9. ASSUME NEW p \in Ports, PortComes(p) PROVE TypeOK'
  <2>1. Notify(Add(p)) /\ Add(p) \in PortEvents
    BY <1>9, EventIs DEF PortComes
  <2>2. feed' \in Seq(PortEvents)
    BY <2>1, NotifyIs
  <2> QED
    BY <1>9, <2>2 DEF PortComes, TypeOK
<1>10. ASSUME NEW p \in Ports, PortGoes(p) PROVE TypeOK'
  <2>1. Notify(Remove(p)) /\ Remove(p) \in PortEvents
    BY <1>10, EventIs DEF PortGoes
  <2>2. feed' \in Seq(PortEvents)
    BY <2>1, NotifyIs
  <2> QED
    BY <1>10, <2>2 DEF PortGoes, TypeOK
<1>11. CASE UNCHANGED vars
  BY <1>11 DEF vars, TypeOK
<1> QED
  BY <1>1, <1>2, <1>3, <1>4, <1>5, <1>6, <1>7, <1>8, <1>9, <1>10, <1>11, NextCases

-----------------------------------------------------------------------------
\* The feed tells of every port that has gone.

\* The removal of a port still follows when an event is taken that is not this removal.
LEMMA TakeKeepsGone ==
    ASSUME TypeOK, TakeEvent, NEW p \in Ports, NEW i \in Nat, GoneAfter(feed, i, p),
           i > 0 \/ ~(Event.type = "remove" /\ Place[Event.port] = Place[p])
    PROVE  \E j \in DOMAIN feed' : /\ j + 1 > i /\ feed'[j].type = "remove"
                                   /\ Place[feed'[j].port] = Place[p]
<1>1. PICK j \in DOMAIN feed : j > i /\ feed[j].type = "remove" /\ Place[feed[j].port] = Place[p]
  BY DEF GoneAfter
<1>2. j # 1
  BY <1>1, TakeIs
<1>3. j - 1 \in DOMAIN feed' /\ feed'[j - 1] = feed[j]
  BY <1>1, <1>2, TakeIs, FeedIs
<1>4. (j - 1) + 1 > i
  BY <1>1, FeedIs
<1> QED
  BY <1>1, <1>3, <1>4

LEMMA TakeKeepsAdds ==
    ASSUME TypeOK, TakeEvent, AddsTrue(feed, attached, known)
    PROVE  AddsTrue(feed', attached', known')
<1> SUFFICES ASSUME NEW i \in DOMAIN feed', feed'[i].type = "add"
             PROVE  /\ feed'[i].port \in known'
                    /\ feed'[i].port \in attached' \/ GoneAfter(feed', i, feed'[i].port)
  BY DEF AddsTrue
<1>1. i + 1 \in DOMAIN feed /\ feed'[i] = feed[i + 1] /\ i \in Nat /\ feed'[i].port \in Ports
  BY TakeIs, FeedIs, EventIs
<1>2. feed'[i].port \in known /\ (feed'[i].port \in attached \/ GoneAfter(feed, i + 1, feed'[i].port))
  BY <1>1 DEF AddsTrue
<1>3. ASSUME GoneAfter(feed, i + 1, feed'[i].port) PROVE GoneAfter(feed', i, feed'[i].port)
  <2>1. PICK j \in DOMAIN feed' : /\ j + 1 > i + 1 /\ feed'[j].type = "remove"
                                  /\ Place[feed'[j].port] = Place[feed'[i].port]
    BY <1>1, <1>3, TakeKeepsGone
  <2>2. j > i
    BY <1>1, <2>1, TakeIs, FeedIs
  <2> QED
    BY <2>1, <2>2 DEF GoneAfter
<1> QED
  BY <1>2, <1>3, TakeIs

\* So it is with a port that has come and the event of which is taken.
LEMMA TakenIsTrue ==
    ASSUME TypeOK, TakeEvent, AddsTrue(feed, attached, known), Event.type = "add"
    PROVE  Event.port \in known /\ (Event.port \in attached \/ GoneAfter(feed', 0, Event.port))
<1>1. 1 \in DOMAIN feed /\ feed[1] = Event /\ Event.port \in Ports
  BY TakeIs, EventIs
<1>2. Event.port \in known /\ (Event.port \in attached \/ GoneAfter(feed, 1, Event.port))
  BY <1>1 DEF AddsTrue
<1>3. ASSUME GoneAfter(feed, 1, Event.port) PROVE GoneAfter(feed', 0, Event.port)
  <2>1. PICK j \in DOMAIN feed' : /\ j + 1 > 1 /\ feed'[j].type = "remove"
                                  /\ Place[feed'[j].port] = Place[Event.port]
    BY <1>1, <1>3, TakeKeepsGone
  <2>2. j > 0
    BY <2>1, TakeIs
  <2> QED
    BY <2>1, <2>2 DEF GoneAfter
<1> QED
  BY <1>2, <1>3

\* And with the candidate, unless it is its own removal that is taken.
LEMMA TakeKeepsCandidate ==
    ASSUME TypeOK, TakeEvent, candidate \in known, ~CandidateGone,
           candidate \in attached \/ GoneAfter(feed, 0, candidate)
    PROVE  candidate \in attached \/ GoneAfter(feed', 0, candidate)
<1>1. candidate \in Ports /\ candidate # None
  BY UserPortIs DEF TypeOK
<1>2. ASSUME GoneAfter(feed, 0, candidate) PROVE GoneAfter(feed', 0, candidate)
  <2>1. PICK j \in DOMAIN feed' : feed'[j].type = "remove" /\ Place[feed'[j].port] = Place[candidate]
    BY <1>1, <1>2, TakeKeepsGone DEF CandidateGone
  <2>2. j > 0
    BY <2>1, TakeIs
  <2> QED
    BY <2>1, <2>2 DEF GoneAfter
<1> QED
  BY <1>2

\* An event that is sent after the others, and what has come or gone with it.
LEMMA NotifyKeepsGone ==
    ASSUME TypeOK, NEW e \in PortEvents, Notify(e), watcher = "open", NEW p, NEW i \in Nat, GoneAfter(feed, i, p)
    PROVE  GoneAfter(feed', i, p)
BY NotifyIs DEF GoneAfter

LEMMA NotifyTellsGone ==
    ASSUME TypeOK, NEW r \in Ports, Notify(Remove(r)), watcher = "open", NEW i \in Nat, i <= Len(feed)
    PROVE  GoneAfter(feed', i, r)
<1>1. Remove(r) \in PortEvents /\ Remove(r).type = "remove" /\ Remove(r).port = r
  BY EventIs
<1>2. Len(feed) + 1 \in DOMAIN feed' /\ feed'[Len(feed) + 1] = Remove(r)
  BY <1>1, NotifyIs, FeedIs
<1>3. Len(feed) + 1 > i
  BY FeedIs
<1> QED
  BY <1>1, <1>2, <1>3 DEF GoneAfter

LEMMA ComesFeed ==
    ASSUME TypeOK, FeedOK, NEW p \in Ports, PortComes(p)
    PROVE  FeedOK'
<1> SUFFICES ASSUME watcher = "open" PROVE FeedOK'
  BY DEF FeedOK, PortComes
<1>1. Notify(Add(p)) /\ Add(p) \in PortEvents /\ Add(p).port = p
  BY EventIs DEF PortComes
<1>2. attached' = attached \cup {p} /\ known' = known \cup {p} /\ candidate' = candidate
  BY DEF PortComes, detectVars
<1>3. /\ DOMAIN feed' = 1 .. Len(feed) + 1 /\ feed'[Len(feed) + 1] = Add(p)
      /\ \A i \in DOMAIN feed : feed'[i] = feed[i]
  BY <1>1, NotifyIs
<1>4. ASSUME NEW i \in DOMAIN feed', feed'[i].type = "add"
      PROVE  feed'[i].port \in known' /\ (feed'[i].port \in attached' \/ GoneAfter(feed', i, feed'[i].port))
  <2>1. CASE i = Len(feed) + 1
    BY <1>1, <1>2, <1>3, <2>1
  <2>2. CASE i # Len(feed) + 1
    <3>1. i \in DOMAIN feed /\ i \in Nat /\ feed'[i] = feed[i]
      BY <1>3, <2>2, FeedIs
    <3>2. feed[i].port \in known /\ (feed[i].port \in attached \/ GoneAfter(feed, i, feed[i].port))
      BY <1>4, <3>1 DEF FeedOK, AddsTrue
    <3>3. GoneAfter(feed, i, feed[i].port) => GoneAfter(feed', i, feed[i].port)
      BY <1>1, <3>1, NotifyKeepsGone
    <3> QED
      BY <1>2, <3>1, <3>2, <3>3
  <2> QED
    BY <2>1, <2>2
<1>5. AddsTrue(feed', attached', known')
  BY <1>4 DEF AddsTrue
<1>6. GoneAfter(feed, 0, candidate) => GoneAfter(feed', 0, candidate)
  BY <1>1, NotifyKeepsGone
<1>7. candidate' \in known' => candidate' \in attached' \/ GoneAfter(feed', 0, candidate')
  BY <1>2, <1>6 DEF FeedOK
<1> QED
  BY <1>5, <1>7 DEF FeedOK

LEMMA GoesFeed ==
    ASSUME TypeOK, FeedOK, NEW p \in Ports, PortGoes(p)
    PROVE  FeedOK'
<1> SUFFICES ASSUME watcher = "open" PROVE FeedOK'
  BY DEF FeedOK, PortGoes
<1>1. Notify(Remove(p)) /\ Remove(p) \in PortEvents /\ Remove(p).type = "remove"
  BY EventIs DEF PortGoes
<1>2. attached' = attached \ {p} /\ known' = known /\ candidate' = candidate
  BY DEF PortGoes, detectVars
<1>3. /\ DOMAIN feed' = 1 .. Len(feed) + 1 /\ feed'[Len(feed) + 1] = Remove(p)
      /\ \A i \in DOMAIN feed : feed'[i] = feed[i]
  BY <1>1, NotifyIs
<1>4. ASSUME NEW q, NEW i \in Nat, i <= Len(feed), q \in attached \/ GoneAfter(feed, i, q)
      PROVE  q \in attached' \/ GoneAfter(feed', i, q)
  <2>1. CASE GoneAfter(feed, i, q)
    BY <1>1, <2>1, NotifyKeepsGone
  <2>2. CASE q = p
    BY <1>1, <1>4, <2>2, NotifyTellsGone
  <2> QED
    BY <1>2, <1>4, <2>1, <2>2
<1>5. ASSUME NEW i \in DOMAIN feed', feed'[i].type = "add"
      PROVE  feed'[i].port \in known' /\ (feed'[i].port \in attached' \/ GoneAfter(feed', i, feed'[i].port))
  <2>1. i # Len(feed) + 1
    BY <1>1, <1>3, <1>5
  <2>2. i \in DOMAIN feed /\ i \in Nat /\ i <= Len(feed) /\ feed'[i] = feed[i]
    BY <1>3, <2>1, FeedIs
  <2>3. feed[i].port \in known /\ (feed[i].port \in attached \/ GoneAfter(feed, i, feed[i].port))
    BY <1>5, <2>2 DEF FeedOK, AddsTrue
  <2>4. feed[i].port \in attached' \/ GoneAfter(feed', i, feed[i].port)
    BY <1>4, <2>2, <2>3
  <2> QED
    BY <1>2, <2>2, <2>3, <2>4
<1>6. AddsTrue(feed', attached', known')
  BY <1>5 DEF AddsTrue
<1>7. candidate' \in known' => candidate' \in attached' \/ GoneAfter(feed', 0, candidate')
  <2>1. 0 \in Nat /\ 0 <= Len(feed)
    BY FeedIs
  <2> QED
    BY <1>2, <1>4, <2>1 DEF FeedOK
<1> QED
  BY <1>6, <1>7 DEF FeedOK

LEMMA StepFeed ==
    ASSUME TypeOK, FeedOK, [Next]_vars
    PROVE  FeedOK'
<1> USE DEF boardVars, feedVars, uploadVars, detectVars
<1>1. CASE DuringUpload
  <2> SUFFICES ASSUME watcher = "open" PROVE FeedOK'
    BY <1>1, TakeIs DEF DuringUpload, FeedOK
  <2>1. TakeEvent /\ AddsTrue(feed', attached', known')
    BY <1>1, TakeKeepsAdds DEF DuringUpload, FeedOK
  <2>2. CASE CandidateGone
    <3>1. candidate' = None /\ candidate' \notin known'
      BY <1>1, <2>2, <2>1, TakeIs, UserPortIs DEF DuringUpload, LoseDuringUpload, TypeOK
    <3> QED
      BY <2>1, <3>1 DEF FeedOK
  <2>3. CASE ~CandidateGone
    <3>1. candidate' = candidate /\ known' = known /\ attached' = attached
      BY <1>1, <2>1, <2>3, TakeIs DEF DuringUpload, LoseDuringUpload
    <3>2. candidate \in known => candidate \in attached \/ GoneAfter(feed', 0, candidate)
      BY <2>1, <2>3, TakeKeepsCandidate DEF FeedOK
    <3> QED
      BY <2>1, <3>1, <3>2 DEF FeedOK
  <2> QED
    BY <2>2, <2>3
<1>2. CASE LoseCandidate
  <2> SUFFICES ASSUME watcher = "open" PROVE FeedOK'
    BY <1>2, TakeIs DEF LoseCandidate, FeedOK
  <2>1. TakeEvent /\ AddsTrue(feed', attached', known')
    BY <1>2, TakeKeepsAdds DEF LoseCandidate, FeedOK
  <2>2. candidate' = None /\ candidate' \notin known'
    BY <1>2, <2>1, TakeIs, UserPortIs DEF LoseCandidate, TypeOK
  <2> QED
    BY <2>1, <2>2 DEF FeedOK
<1>3. CASE PickCandidate
  <2> SUFFICES ASSUME watcher = "open" PROVE FeedOK'
    BY <1>3, TakeIs DEF PickCandidate, FeedOK
  <2>1. TakeEvent /\ AddsTrue(feed, attached, known) /\ AddsTrue(feed', attached', known')
    BY <1>3, TakeKeepsAdds DEF PickCandidate, FeedOK
  <2>2. known' = known /\ attached' = attached
    BY <2>1, TakeIs
  <2>3. CASE Event.type = "add" /\ candidate' = Event.port
    <3>1. Event.port \in attached \/ GoneAfter(feed', 0, Event.port)
      BY <2>1, <2>3, TakenIsTrue
    <3> QED
      BY <2>1, <2>2, <2>3, <3>1 DEF FeedOK
  <2>4. CASE candidate' = candidate
    <3>1. candidate \in known => candidate \in attached \/ GoneAfter(feed', 0, candidate)
      BY <1>3, <2>1, TakeKeepsCandidate DEF FeedOK, PickCandidate
    <3> QED
      BY <2>1, <2>2, <2>4, <3>1 DEF FeedOK
  <2> QED
    BY <1>3, <2>3, <2>4 DEF PickCandidate
<1>4. CASE UNCHANGED <<feed, attached, known, candidate>> /\ (watcher' = "open" => watcher = "open")
  BY <1>4 DEF FeedOK
<1>5. CASE AfterUpload \/ WatcherClosed \/ Tick \/ TimeoutFires
  BY <1>4, <1>5 DEF AfterUpload, WatcherClosed, Tick, TimeoutFires
<1>6. CASE ToolEnds \/ ToolFails \/ Cancel \/ Await \/ WatcherDropped \/ UNCHANGED vars
  BY <1>4, <1>6 DEF ToolEnds, ToolFails, Cancel, Await, WatcherDropped, vars
<1> QED
  BY <1>1, <1>2, <1>3, <1>5, <1>6, ComesFeed, GoesFeed, NextCases

-----------------------------------------------------------------------------
\* The candidates.
LEMMA PriorityIsNat == ASSUME NEW p PROVE Priority(p) \in Nat
BY DEF Priority

LEMMA PriorityIs ==
    /\ \A p : Priority(p) \in 0 .. 1110
    /\ Priority(UserPort) = 1110
<1>1. \A p : Priority(p) \in 0 .. 1110
  BY DEF Priority
<1>2. Priority(UserPort) = 1110
  BY UserPortIs DEF Priority
<1> QED
  BY <1>1, <1>2

LEMMA StepPick ==
    ASSUME TypeOK, PickOK, [Next]_vars
    PROVE  PickOK'
<1> USE DEF boardVars, feedVars, uploadVars, detectVars
<1>1. CASE phase = "upload" /\ compared' = compared
  BY <1>1 DEF PickOK, BestIsPicked
<1>2. CASE LoseCandidate
  BY <1>2 DEF LoseCandidate, PickOK, BestIsPicked
<1>3. CASE PickCandidate
  <2>1. phase' # "upload"
    BY <1>3 DEF PickCandidate
  <2>2. CASE Event.type = "add"
    <3>1. compared' = compared \cup {Event.port}
      BY <1>3, <2>2 DEF PickCandidate
    <3>2. IF Priority(Event.port) > Priority(candidate) THEN candidate' = Event.port ELSE candidate' = candidate
      BY <1>3, <2>2 DEF PickCandidate, Better
    <3>3. \A p \in compared : ~(Priority(p) > Priority(candidate))
      BY DEF PickOK, BestIsPicked
    <3>4. CASE Priority(Event.port) > Priority(candidate)
      <4>1. \A p \in compared' : ~(Priority(p) > Priority(Event.port))
        <5> SUFFICES ASSUME NEW p \in compared' PROVE ~(Priority(p) > Priority(Event.port))
          OBVIOUS
        <5>1. CASE p \in compared
          <6>1. Priority(p) \in Nat /\ Priority(candidate) \in Nat /\ Priority(Event.port) \in Nat
            BY PriorityIsNat
          <6>2. ~(Priority(p) > Priority(candidate))
            BY <3>3, <5>1
          <6> QED
            BY <3>4, <6>1, <6>2
        <5>2. CASE p = Event.port
          BY <5>2, PriorityIs
        <5> QED
          BY <3>1, <5>1, <5>2
      <4> QED
        BY <2>1, <3>2, <3>4, <4>1 DEF PickOK, BestIsPicked
    <3>5. CASE ~(Priority(Event.port) > Priority(candidate))
      BY <2>1, <3>1, <3>2, <3>3, <3>5 DEF PickOK, BestIsPicked
    <3> QED
      BY <3>4, <3>5
  <2>3. CASE Event.type # "add"
    <3>1. compared' \subseteq compared /\ candidate' = candidate
      BY <1>3, <2>3 DEF PickCandidate
    <3> QED
      BY <2>1, <3>1 DEF PickOK, BestIsPicked
  <2> QED
    BY <2>2, <2>3
<1>4. CASE UNCHANGED <<compared, candidate>> /\ (phase' = "upload" => phase = "upload")
  BY <1>4 DEF PickOK, BestIsPicked
<1>5. CASE AfterUpload \/ WatcherClosed \/ Tick \/ TimeoutFires
  BY <1>4, <1>5 DEF AfterUpload, WatcherClosed, Tick, TimeoutFires
<1>6. CASE ToolEnds \/ ToolFails \/ Cancel \/ Await \/ WatcherDropped \/ UNCHANGED vars
  BY <1>4, <1>6 DEF ToolEnds, ToolFails, Cancel, Await, WatcherDropped, vars
<1>7. ASSUME NEW p \in Ports, PortComes(p) \/ PortGoes(p) PROVE PickOK'
  BY <1>4, <1>7 DEF PortComes, PortGoes
<1>8. CASE DuringUpload
  BY <1>1, <1>8 DEF DuringUpload
<1> QED
  BY <1>2, <1>3, <1>5, <1>6, <1>7, <1>8, NextCases

-----------------------------------------------------------------------------
\* The waiting.

\* An event that is taken before a second one has come or gone: it does not change the candidate
\* unless it is its removal, and then it was the last one.
LEMMA TakeFirst ==
    ASSUME TypeOK, WaitOK, TakeEvent, events >= world.events - 1
    PROVE  /\ candidate = UserPort /\ candidate # None
           /\ events \in Int /\ world.events \in Int /\ events' = events /\ world' = world
           /\ events = world.events => \A i \in DOMAIN feed' : feed'[i].type = "add"
           /\ events = world.events - 1 => \A i \in DOMAIN feed' : i < Len(feed') => feed'[i].type = "add"
           /\ CandidateGone => feed' = <<>> /\ events < world.events
<1>1. feed # <<>> /\ Len(feed) \in Nat
  BY FeedIs DEF TakeEvent
<1>2. events \in Int /\ world.events \in Int /\ events <= world.events
  BY WorldsOK DEF TypeOK, WaitOK, EventsOK
<1>3. candidate = UserPort /\ candidate # None
  BY <1>1, UserPortIs DEF WaitOK, EventsOK
<1>4. ASSUME events = world.events, NEW i \in DOMAIN feed' PROVE feed'[i].type = "add"
  BY <1>4, TakeIs DEF WaitOK, EventsOK
<1>5. ASSUME events = world.events - 1, NEW i \in DOMAIN feed', i < Len(feed') PROVE feed'[i].type = "add"
  <2>1. i + 1 \in DOMAIN feed /\ i + 1 < Len(feed) /\ feed'[i] = feed[i + 1]
    BY <1>1, <1>5, TakeIs
  <2> QED
    BY <1>5, <2>1 DEF WaitOK, EventsOK
<1>6. ASSUME CandidateGone PROVE feed' = <<>> /\ events < world.events
  <2>1. feed[1].type # "add" /\ 1 \in DOMAIN feed
    BY <1>6, TakeIs DEF CandidateGone
  <2>2. events # world.events
    BY <2>1 DEF WaitOK, EventsOK
  <2>3. ~(1 < Len(feed))
    BY <1>2, <2>1, <2>2 DEF WaitOK, EventsOK
  <2>4. Len(feed') = 0 /\ feed' \in Seq(PortEvents)
    BY <1>1, <2>3, <2>1, TakeIs, FeedIs
  <2> QED
    BY <1>2, <2>2, <2>4
<1> QED
  BY <1>2, <1>3, <1>4, <1>5, <1>6, TakeIs

LEMMA StepTimer ==
    ASSUME TypeOK, WaitOK, [Next]_vars
    PROVE  TimerOK'
<1> USE DEF boardVars, feedVars, uploadVars, detectVars
<1> USE DEF WaitOK
<1>0. /\ waited \in Nat /\ Long \in Nat /\ Long = 5
      /\ phase = "pick" => timeout \in 0 .. Long
      /\ candidate = None => waitForUploadPort
      /\ events \in Int /\ world.events \in Int
  BY WorldsOK DEF TypeOK, Long
<1>1. CASE DuringUpload
  <2>1. phase' = "upload" /\ waited' = waited /\ phase = "upload"
    BY <1>1 DEF DuringUpload
  <2> QED
    BY <2>1 DEF TimerOK
<1>2. CASE AfterUpload
  <2>1. phase' = "pick" /\ waited' = 0 /\ waitForUploadPort' = waitForUploadPort
    BY <1>2 DEF AfterUpload, TimerOK
  <2>2. waitForUploadPort => timeout' = Long
    BY <1>2 DEF AfterUpload
  <2> QED
    BY <1>0, <2>1, <2>2 DEF TimerOK
<1>3. CASE LoseCandidate
  <2>1. phase' = "pick" /\ phase = "pick" /\ waited' = waited /\ events' = events /\ world' = world
    BY <1>3, TakeIs DEF LoseCandidate
  <2>2. waitForUploadPort => timeout' = timeout
    BY <1>3 DEF LoseCandidate
  <2>3. ~waitForUploadPort => timeout' = Long
    BY <1>3 DEF LoseCandidate
  <2>4. waitForUploadPort \in BOOLEAN
    BY DEF TypeOK
  <2> QED
    BY <1>0, <2>1, <2>2, <2>3, <2>4 DEF TimerOK
<1>4. CASE PickCandidate
  <2>1. /\ phase' = "pick" /\ phase = "pick" /\ waited' = waited /\ events' = events /\ world' = world
        /\ waitForUploadPort' = waitForUploadPort
    BY <1>4, TakeIs DEF PickCandidate
  <2>2. events >= world.events - 1 => timeout' = timeout
    <3> SUFFICES ASSUME events >= world.events - 1 PROVE timeout' = timeout
      OBVIOUS
    <3>1. candidate = UserPort
      BY <1>4, TakeFirst DEF PickCandidate
    <3>2. ~Better(Event.port, candidate)
      BY <3>1, PriorityIs DEF Better
    <3> QED
      BY <1>4, <3>2 DEF PickCandidate
  <2> QED
    BY <2>1, <2>2 DEF TimerOK
<1>5. CASE WatcherClosed
  BY <1>5 DEF WatcherClosed, TimerOK
<1>6. CASE Tick
  <2>1. /\ phase' = "pick" /\ phase = "pick" /\ waited' = waited + 1 /\ timeout' = timeout - 1
        /\ UNCHANGED <<events, world, waitForUploadPort>>
    BY <1>6 DEF Tick
  <2>2. timeout' + waited' = timeout + waited
    BY <1>0, <2>1
  <2> QED
    BY <2>1, <2>2 DEF TimerOK
<1>7. CASE TimeoutFires
  <2>1. /\ phase' = "sent" /\ phase = "pick" /\ waited' = waited /\ timeout = 0
        /\ UNCHANGED <<events, world, candidate>>
    BY <1>7 DEF TimeoutFires
  <2>2. candidate = None /\ events >= world.events - 1 => waited >= Long
    BY <1>0, <2>1 DEF TimerOK
  <2> QED
    BY <2>1, <2>2 DEF TimerOK
<1>8. CASE ToolEnds \/ ToolFails \/ Cancel \/ Await \/ WatcherDropped
  BY <1>8 DEF ToolEnds, ToolFails, Cancel, Await, WatcherDropped, TimerOK
<1>9. ASSUME NEW p \in Ports, PortComes(p) \/ PortGoes(p) PROVE TimerOK'
  <2>1. events' = events - 1 /\ UNCHANGED <<world, watcher, detectVars>>
    BY <1>9 DEF PortComes, PortGoes
  <2>2. events' >= world'.events - 1 => events >= world.events - 1
    BY <1>0, <2>1
  <2> QED
    BY <2>1, <2>2 DEF TimerOK
<1>10. CASE UNCHANGED vars
  BY <1>10 DEF vars, TimerOK
<1> QED
  BY <1>1, <1>2, <1>3, <1>4, <1>5, <1>6, <1>7, <1>8, <1>9, <1>10, NextCases

LEMMA StepEvents ==
    ASSUME TypeOK, WaitOK, [Next]_vars
    PROVE  EventsOK'
<1> USE DEF boardVars, feedVars, uploadVars, detectVars
<1> USE DEF WaitOK
<1>0. events \in Int /\ world.events \in Int
  BY WorldsOK DEF TypeOK
<1>1. ASSUME TakeEvent,
             events >= world.events - 1 => \/ CandidateGone /\ candidate' = None
                                           \/ candidate' = candidate
      PROVE  EventsOK'
  <2>1. events' = events /\ world' = world
    BY <1>1, TakeIs
  <2>2. CASE events >= world.events - 1
    BY <1>1, <2>1, <2>2, TakeFirst DEF EventsOK
  <2>3. CASE ~(events >= world.events - 1)
    <3>1. events < world.events - 1
      BY <1>0, <2>3
    <3> QED
      BY <1>0, <2>1, <3>1 DEF EventsOK
  <2> QED
    BY <2>2, <2>3
<1>2. CASE DuringUpload
  BY <1>1, <1>2 DEF DuringUpload, LoseDuringUpload
<1>3. CASE LoseCandidate
  BY <1>1, <1>3 DEF LoseCandidate
<1>4. CASE PickCandidate
  <2>1. events >= world.events - 1 => candidate' = candidate
    <3> SUFFICES ASSUME events >= world.events - 1 PROVE candidate' = candidate
      OBVIOUS
    <3>1. candidate = UserPort
      BY <1>4, TakeFirst DEF PickCandidate
    <3>2. ~Better(Event.port, candidate)
      BY <3>1, PriorityIs DEF Better
    <3> QED
      BY <1>4, <3>2 DEF PickCandidate
  <2> QED
    BY <1>1, <1>4, <2>1 DEF PickCandidate
<1>5. CASE UNCHANGED <<feed, events, world, candidate>>
  BY <1>5 DEF EventsOK
<1>6. CASE AfterUpload \/ WatcherClosed \/ Tick \/ TimeoutFires
  BY <1>5, <1>6 DEF AfterUpload, WatcherClosed, Tick, TimeoutFires
<1>7. CASE ToolEnds \/ ToolFails \/ Cancel \/ Await \/ WatcherDropped \/ UNCHANGED vars
  BY <1>5, <1>7 DEF ToolEnds, ToolFails, Cancel, Await, WatcherDropped, vars
<1>8. ASSUME NEW p \in Ports, PortComes(p) \/ PortGoes(p) PROVE EventsOK'
  <2>1. events' = events - 1 /\ UNCHANGED <<world, candidate>>
    BY <1>8 DEF PortComes, PortGoes
  <2>2. PICK e \in PortEvents : Notify(e)
    BY <1>8, EventIs DEF PortComes, PortGoes
  <2>3. CASE events = world.events
    <3>1. candidate \in {UserPort, None} /\ candidate # None
      BY <1>0, <2>3 DEF EventsOK
    <3>2. \A i \in DOMAIN feed : feed[i].type = "add"
      BY <2>3 DEF EventsOK
    <3>3. \A i \in DOMAIN feed' : i < Len(feed') => feed'[i].type = "add"
      <4>1. CASE watcher = "open"
        <5>1. /\ DOMAIN feed' = 1 .. Len(feed) + 1 /\ Len(feed') = Len(feed) + 1
              /\ \A i \in DOMAIN feed : feed'[i] = feed[i]
          BY <2>2, <4>1, NotifyIs
        <5> QED
          BY <3>2, <5>1, FeedIs
      <4>2. CASE watcher # "open"
        <5>1. feed' = feed
          BY <2>2, <4>2, NotifyIs
        <5> QED
          BY <3>2, <5>1
      <4> QED
        BY <4>1, <4>2
    <3>4. events' # world'.events /\ events' <= world'.events
      BY <1>0, <2>1, <2>3
    <3> QED
      BY <2>1, <3>1, <3>3, <3>4 DEF EventsOK
  <2>4. CASE events # world.events
    <3>1. events' < world'.events - 1
      BY <1>0, <2>1, <2>4 DEF EventsOK
    <3> QED
      BY <1>0, <2>1, <3>1 DEF EventsOK
  <2> QED
    BY <2>3, <2>4
<1> QED
  BY <1>2, <1>3, <1>4, <1>6, <1>7, <1>8, NextCases

-----------------------------------------------------------------------------
\* The inductive invariant.
THEOREM DetectionInvariant == Spec => []DetectInv
<1>1. Init => DetectInv
  <2> SUFFICES ASSUME Init PROVE DetectInv
    OBVIOUS
  <2>1. TypeOK
    BY InitTypes
  <2>2. PICK q \in Orders(attached) : feed = [i \in DOMAIN q |-> Add(q[i])]
    BY DEF Init
  <2>3. \A i \in DOMAIN q : q[i] \in attached
    BY <2>2 DEF Orders
  <2>4. \A i \in DOMAIN feed : i \in DOMAIN q /\ feed[i] = Add(q[i])
    BY <2>2
  <2>5. attached \subseteq Ports
    BY <2>1 DEF TypeOK
  <2>6. \A i \in DOMAIN feed : feed[i].type = "add" /\ feed[i].port \in attached
    BY <2>3, <2>4, <2>5, EventIs
  <2>7. FeedOK
    BY <2>6 DEF Init, FeedOK, AddsTrue
  <2>8. PickOK
    BY DEF Init, PickOK, BestIsPicked
  <2>9. WaitOK
    <3>1. events = world.events /\ events \in Nat /\ candidate = UserPort /\ waited = 0 /\ phase = "upload"
      BY <2>1 DEF Init, TypeOK
    <3> QED
      BY <2>6, <3>1, UserPortIs DEF WaitOK, TimerOK, EventsOK
  <2> QED
    BY <2>1, <2>7, <2>8, <2>9 DEF DetectInv
<1>2. DetectInv /\ [Next]_vars => DetectInv'
  <2> SUFFICES ASSUME DetectInv, [Next]_vars PROVE DetectInv'
    OBVIOUS
  <2>1. TypeOK' /\ FeedOK' /\ PickOK'
    BY StepTypes, StepFeed, StepPick DEF DetectInv
  <2>2. TimerOK' /\ EventsOK'
    BY StepTimer, StepEvents DEF DetectInv
  <2>3. WaitOK'
    BY <2>2 DEF WaitOK
  <2> QED
    BY <2>1, <2>3 DEF DetectInv
<1> QED
  BY <1>1, <1>2, PTL DEF Spec

\* The types are right, and the port that is answered is no ghost: as long as the watcher is told
\* of the ports, a candidate that has ever been there is there or its removal is still to be read.
THEOREM NoGhostIsAnswered == Spec => []UploadInv
<1>1. DetectInv => UploadInv
  BY DEF DetectInv, FeedOK, GoneAfter, UploadInv, NoGhost
<1> QED
  BY <1>1, DetectionInvariant, PTL

\* In whatever order the ports come, the candidate is the closest to the user's port among those
\* that came since the upload ended or, if that is later, a candidate last went, and that are
\* still there (portPriority).
THEOREM ClosestIsPicked == Spec => []BestIsPicked
<1>1. DetectInv => BestIsPicked
  BY DEF DetectInv, PickOK
<1> QED
  BY <1>1, DetectionInvariant, PTL

\* If the user's port goes and nothing comes, the detection does not give up before the long time
\* is over, whether the port went while the tool ran or afterwards, at the last moment of the
\* short time.
THEOREM LossIsWaitedFor == Spec => []LostIsWaitedFor
<1>1. DetectInv => LostIsWaitedFor
  <2> SUFFICES ASSUME DetectInv, phase = "sent", candidate = None, NothingElseHappened
               PROVE  waited >= Long
    BY DEF LostIsWaitedFor
  <2>1. events = world.events - 1 /\ watcher # "closed" /\ world.events \in Nat
    BY WorldsOK DEF NothingElseHappened, DetectInv, TypeOK
  <2>2. events >= world.events - 1
    BY <2>1
  <2> QED
    BY <2>1, <2>2 DEF DetectInv, WaitOK, TimerOK
<1> QED
  BY <1>1, DetectionInvariant, PTL
=============================================================================
