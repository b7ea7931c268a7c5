--------------------------- MODULE DiscoveryManager ---------------------------
(***************************************************************************)
(* discoverymanager.DiscoveryManager: the events of the pluggable          *)
(* discoveries go through one feed to all watchers, under watchersMutex,   *)
(* and a cache of the ports serves the watchers that come later.  A        *)
(* discovery is a process of its own; each time it is started it has a new *)
(* client (a run), with its own event channel and transfer goroutine.      *)
(* Init of an instance clears the manager and adds the discoveries again.  *)
(***************************************************************************)
EXTENDS Integers, Sequences, FiniteSets

CONSTANTS Discoveries,
          Ports,       \* address and protocol of a port
          DiscoveryOf, \* DiscoveryOf[p]: the discovery that detects port p
          Watchers,    \* the watchers that BoardListWatch and Upload create
          EventCap,    \* buffer of a client's event channel, 5 in the code
          FeedCap,     \* buffer of dm.feed and the event taken from it, 51 in the code
          Worlds,      \* the watchers and the ports there are, the buffer of a
                       \* watcher's feed (10 in the code), and how often a port
                       \* comes or goes and a discovery is started: one of these
          MaxRuns,     \* bound of the latter
          Nobody, Feeder

ASSUME CapsOK == /\ EventCap \in Nat \ {0} /\ FeedCap \in Nat \ {0}
                 /\ Worlds \subseteq [watchers : SUBSET Watchers, ports : SUBSET Ports,
                                      cap : Nat \ {0}, plugs : Nat, runs : 1 .. MaxRuns]
                 /\ MaxRuns \in Nat \ {0}
                 /\ DiscoveryOf \in [Ports -> Discoveries]
                 /\ Nobody # Feeder /\ {Nobody, Feeder} \cap Watchers = {}

Clients == Discoveries \X (1 .. MaxRuns)
Events  == [type : {"add", "remove"}, of : Ports] \cup [type : {"stop"}, of : Discoveries]

VARIABLES world,     \* chosen once
          attached,  \* ports that are there
          plugs,     \* how often one has come or gone
          runs,      \* runs[d]: how often d was started
          running,   \* clients that are running
          reported,  \* reported[k]: ports client k has told of
          eventCh,   \* eventCh[k]: its event channel
          loaded,    \* dm.discoveries
          started,   \* dm.discoveriesRunning
          phase,     \* of the Init that refills dm: "idle", "clear", "add"
          pending,   \* discoveries that phase has still to quit or to add
          feed,      \* dm.feed
          lock,      \* who holds watchersMutex
          cache,     \* dm.watchersCache
          watchers,  \* dm.watchers
          toSend,    \* what the holder of the lock has still to send to whom
          adder,     \* adder[w]: the goroutine that Watch starts
          buffer,    \* buffer[w]: the watcher's feed
          handler,   \* handler[w]: "none", "open", "closing", "closed"
          reader,    \* reader[w]: the goroutine that ranges over the feed
          seen       \* seen[w]: the ports its client believes are there

discVars  == <<attached, plugs, runs, running, reported>>
adminVars == <<loaded, started, phase, pending>>
watchVars == <<cache, watchers, toSend>>
clientVars == <<handler, reader, seen>>
vars == <<world, discVars, eventCh, adminVars, feed, lock, watchVars, adder, buffer, clientVars>>

-----------------------------------------------------------------------------
Ev(type, x) == [type |-> type, of |-> x]

\* The feed of the watcher is closed, and nil.
Closed(w) == handler[w] = "closed"

PortsOf(d) == {p \in Ports : DiscoveryOf[p] = d}

\* Whether e says something of port p: a discovery that stops takes all its ports away.
About(e, p) == IF e.type = "stop" THEN DiscoveryOf[p] = e.of ELSE e.of = p

\* The ports that are known after the events q, to one who knew those of S: the last event
\* about a port counts.
Apply(S, q) ==
    {p \in Ports : \/ p \in S /\ \A i \in DOMAIN q : ~About(q[i], p)
                   \/ \E i \in DOMAIN q : /\ q[i] = Ev("add", p)
                                          /\ \A j \in DOMAIN q : j > i => ~About(q[j], p)}

Init ==
    /\ world \in Worlds
    /\ attached \in {{}, world.ports} /\ plugs = 0
    /\ runs = [d \in Discoveries |-> 0] /\ running = {}
    /\ reported = [k \in Clients |-> {}] /\ eventCh = [k \in Clients |-> <<>>]
    /\ loaded = Discoveries /\ started = FALSE
    /\ phase = "idle" /\ pending = {}
    /\ feed = <<>> /\ lock = Nobody
    /\ cache = {} /\ watchers = {} /\ toSend = {}
    /\ adder = [w \in Watchers |-> "none"] /\ buffer = [w \in Watchers |-> <<>>]
    /\ handler = [w \in Watchers |-> "none"]
    /\ reader = [w \in Watchers |-> "none"] /\ seen = [w \in Watchers |-> {}]

-----------------------------------------------------------------------------
\* The discoveries.

Plug(p) ==
    /\ p \in world.ports /\ plugs < world.plugs
    /\ plugs' = plugs + 1
    /\ attached' = IF p \in attached THEN attached \ {p} ELSE attached \cup {p}
    /\ UNCHANGED <<world, runs, running, reported, eventCh, adminVars, feed, lock, watchVars,
                   adder, buffer, clientVars>>

\* The client tells of a port of its own that has come or gone.
Report(k) ==
    /\ k \in running /\ Len(eventCh[k]) < EventCap
    /\ \E p \in PortsOf(k[1]) :
        \/ /\ p \in attached \ reported[k]
           /\ reported' = [reported EXCEPT ![k] = @ \cup {p}]
           /\ eventCh' = [eventCh EXCEPT ![k] = Append(@, Ev("add", p))]
        \/ /\ p \in reported[k] \ attached
           /\ reported' = [reported EXCEPT ![k] = @ \ {p}]
           /\ eventCh' = [eventCh EXCEPT ![k] = Append(@, Ev("remove", p))]
    /\ UNCHANGED <<world, attached, plugs, runs, running, adminVars, feed, lock, watchVars,
                   adder, buffer, clientVars>>

\* The client ends, quit or dead: a stop event is the last of its channel.
Stop(k) ==
    /\ Len(eventCh[k]) < EventCap
    /\ running' = running \ {k}
    /\ reported' = [reported EXCEPT ![k] = {}]
    /\ eventCh' = [eventCh EXCEPT ![k] = Append(@, Ev("stop", k[1]))]
    /\ UNCHANGED <<attached, plugs, runs>>

Die(k) ==
    /\ k \in running /\ Stop(k)
    /\ UNCHANGED <<world, adminVars, feed, lock, watchVars, adder, buffer, clientVars>>

\* The transfer goroutine of startDiscovery.
Transfer(k) ==
    /\ eventCh[k] # <<>> /\ Len(feed) < FeedCap
    /\ feed' = Append(feed, Head(eventCh[k]))
    /\ eventCh' = [eventCh EXCEPT ![k] = Tail(@)]
    /\ UNCHANGED <<world, discVars, adminVars, lock, watchVars, adder, buffer, clientVars>>

-----------------------------------------------------------------------------
\* The set of discoveries.

\* Start of the discoveries D, each of which may fail.
Launch(D) ==
    \E S \in SUBSET {d \in D : runs[d] < world.runs} :
        /\ runs' = [d \in Discoveries |-> IF d \in S THEN runs[d] + 1 ELSE runs[d]]
        /\ running' = running \cup {<<d, runs'[d]>> : d \in S}
        /\ UNCHANGED <<attached, plugs, reported, eventCh>>

\* An Init clears the manager, under discoveriesMutex.
BeginClear ==
    /\ phase = "idle" /\ \E d \in Discoveries : runs[d] < world.runs
    /\ phase' = "clear"
    /\ pending' = IF started THEN loaded ELSE {}
    /\ UNCHANGED <<world, discVars, eventCh, loaded, started, feed, lock, watchVars, adder, buffer,
                   clientVars>>

Quit(d) ==
    /\ phase = "clear" /\ d \in pending
    /\ pending' = pending \ {d}
    /\ IF <<d, runs[d]>> \in running THEN Stop(<<d, runs[d]>>) ELSE UNCHANGED <<discVars, eventCh>>
    /\ UNCHANGED <<world, loaded, started, phase, feed, lock, watchVars, adder, buffer, clientVars>>

EndClear ==
    /\ phase = "clear" /\ pending = {}
    /\ phase' = "add" /\ pending' = Discoveries /\ loaded' = {}
    /\ UNCHANGED <<world, discVars, eventCh, started, feed, lock, watchVars, adder, buffer, clientVars>>

\* add: a discovery added to a running manager is started at once.
Add(d) ==
    /\ phase = "add" /\ d \in pending
    /\ pending' = pending \ {d} /\ loaded' = loaded \cup {d}
    /\ phase' = IF pending' = {} THEN "idle" ELSE "add"
    /\ IF started THEN Launch({d}) ELSE UNCHANGED <<discVars, eventCh>>
    /\ UNCHANGED <<world, started, feed, lock, watchVars, adder, buffer, clientVars>>

-----------------------------------------------------------------------------
\* The feed goroutine.

\* Mutant: the watchers are not told of a discovery that has stopped.
FeedEventQuietStop ==
    /\ lock = Nobody /\ feed # <<>>
    /\ lock' = Feeder
    /\ toSend' = IF Head(feed).type = "stop" THEN {} ELSE watchers \X {Head(feed)}
    /\ UNCHANGED <<world, discVars, eventCh, adminVars, feed, cache, watchers, adder, buffer, clientVars>>

\* feedEvent takes watchersMutex.  When a discovery has stopped, each port that
\* the cache has of it is removed.
FeedEvent ==
    /\ lock = Nobody /\ feed # <<>>
    /\ lock' = Feeder
    /\ toSend' = watchers \X (IF Head(feed).type = "stop"
                              THEN {Ev("remove", p) : p \in cache \cap PortsOf(Head(feed).of)}
                              ELSE {Head(feed)})
    /\ UNCHANGED <<world, discVars, eventCh, adminVars, feed, cache, watchers, adder, buffer, clientVars>>

\* The event is sent to a watcher whose feed has room.
Deliver ==
    /\ lock = Feeder
    /\ \E m \in toSend :
        /\ Len(buffer[m[1]]) < world.cap
        /\ buffer' = [buffer EXCEPT ![m[1]] = Append(@, m[2])]
        /\ toSend' = toSend \ {m}
    /\ UNCHANGED <<world, discVars, eventCh, adminVars, feed, lock, cache, watchers, adder,
                   clientVars>>

\* A watcher whose feed stays full for half a second is dropped.
DropSlow ==
    /\ lock = Feeder
    /\ \E m \in toSend :
        /\ Len(buffer[m[1]]) = world.cap
        /\ watchers' = watchers \ {m[1]}
        /\ toSend' = {n \in toSend : n[1] # m[1]}
    /\ UNCHANGED <<world, discVars, eventCh, adminVars, feed, lock, cache, adder, buffer,
                   clientVars>>

\* Mutant: the cache is kept when a discovery stops.
CacheEventKeeping ==
    /\ lock = Feeder /\ toSend = {}
    /\ cache' = CASE Head(feed).type = "add"    -> cache \cup {Head(feed).of}
                  [] Head(feed).type = "remove" -> cache \ {Head(feed).of}
                  [] Head(feed).type = "stop"   -> cache
    /\ lock' = Nobody /\ feed' = Tail(feed)
    /\ UNCHANGED <<world, discVars, eventCh, adminVars, watchers, toSend, adder, buffer,
                   clientVars>>

CacheEvent ==
    /\ lock = Feeder /\ toSend = {}
    /\ cache' = CASE Head(feed).type = "add"    -> cache \cup {Head(feed).of}
                  [] Head(feed).type = "remove" -> cache \ {Head(feed).of}
                  [] Head(feed).type = "stop"   -> cache \ PortsOf(Head(feed).of)
    /\ lock' = Nobody /\ feed' = Tail(feed)
    /\ UNCHANGED <<world, discVars, eventCh, adminVars, watchers, toSend, adder, buffer,
                   clientVars>>

-----------------------------------------------------------------------------
\* The watchers.

\* Watch starts the discoveries if need be, and the goroutine that adds w.  Its
\* caller holds an Explorer, so no Init is at work.
Watch(w) ==
    /\ w \in world.watchers /\ handler[w] = "none" /\ phase = "idle"
    /\ started' = TRUE
    /\ IF started THEN UNCHANGED <<discVars, eventCh>> ELSE Launch(loaded)
    /\ handler' = [handler EXCEPT ![w] = "open"]
    /\ adder' = [adder EXCEPT ![w] = "new"]
    /\ reader' = [reader EXCEPT ![w] = "reading"]
    /\ UNCHANGED <<world, loaded, phase, pending, feed, lock, watchVars, buffer, seen>>

\* The goroutine takes watchersMutex; the watcher may be closed already.
BeginAdd(w) ==
    /\ adder[w] = "new" /\ lock = Nobody
    /\ IF Closed(w)
       THEN /\ adder' = [adder EXCEPT ![w] = "ended"]
            /\ UNCHANGED <<lock, toSend>>
       ELSE /\ lock' = w /\ toSend' = {<<w, Ev("add", p)>> : p \in cache}
            /\ adder' = [adder EXCEPT ![w] = "sending"]
    /\ UNCHANGED <<world, discVars, eventCh, adminVars, feed, cache, watchers, buffer, clientVars>>

\* The ports of the cache come first; the send waits as long as the feed is full.
SendCached(w) ==
    /\ adder[w] = "sending"
    /\ \E m \in toSend :
        /\ Len(buffer[w]) < world.cap
        /\ buffer' = [buffer EXCEPT ![w] = Append(@, m[2])]
        /\ toSend' = toSend \ {m}
    /\ UNCHANGED <<world, discVars, eventCh, adminVars, feed, lock, cache, watchers, adder,
                   clientVars>>

\* Mutant: the lock is not given back.
EndAddKeepingLock(w) ==
    /\ adder[w] = "sending" /\ toSend = {}
    /\ watchers' = watchers \cup {w}
    /\ adder' = [adder EXCEPT ![w] = "ended"]
    /\ UNCHANGED <<world, discVars, eventCh, adminVars, feed, lock, cache, toSend, buffer, clientVars>>

\* After the snapshot the watcher is registered, and the lock is given back.
EndAdd(w) ==
    /\ adder[w] = "sending" /\ toSend = {}
    /\ watchers' = watchers \cup {w}
    /\ adder' = [adder EXCEPT ![w] = "ended"]
    /\ lock' = Nobody
    /\ UNCHANGED <<world, discVars, eventCh, adminVars, feed, cache, toSend, buffer, clientVars>>

\* The response goes to a channel (streamResponseToChan); when the client has
\* stopped reading it, the reader blocks for ever.
Send(w) == \E r \in {"reading", "blocked"} : reader' = [reader EXCEPT ![w] = r]

\* The reader takes an event; of a new port it has to identify the board first.
Read(w) ==
    /\ reader[w] = "reading" /\ buffer[w] # <<>>
    /\ seen' = [seen EXCEPT ![w] = Apply(@, <<Head(buffer[w])>>)]
    /\ buffer' = [buffer EXCEPT ![w] = Tail(@)]
    /\ IF Head(buffer[w]).type = "add"
       THEN reader' = [reader EXCEPT ![w] = "identifying"] ELSE Send(w)
    /\ UNCHANGED <<world, discVars, eventCh, adminVars, feed, lock, watchVars, adder, handler>>

\* BoardIdentify takes an Explorer: it waits while an Init holds the packages.
Identify(w) ==
    /\ reader[w] = "identifying" /\ phase = "idle"
    /\ Send(w)
    /\ UNCHANGED <<world, discVars, eventCh, adminVars, feed, lock, watchVars, adder, buffer,
                   handler, seen>>

\* The client's context ends and the handler calls Close.
Cancel(w) ==
    /\ handler[w] = "open"
    /\ handler' = [handler EXCEPT ![w] = "closing"]
    /\ UNCHANGED <<world, discVars, eventCh, adminVars, feed, lock, watchVars, adder, buffer,
                   reader, seen>>

\* Mutant: the watcher is closed and stays registered.
CloseRegistered(w) ==
    /\ handler[w] = "closing" /\ lock = Nobody
    /\ handler' = [handler EXCEPT ![w] = "closed"]
    /\ UNCHANGED <<world, discVars, eventCh, adminVars, feed, lock, watchVars, adder, buffer, reader, seen>>

\* closeCB, under watchersMutex.  What the reader still does is of no concern to
\* anyone: it takes the rest of the feed and ends, or never had the feed.
Close(w) ==
    /\ handler[w] = "closing" /\ lock = Nobody
    /\ watchers' = watchers \ {w}
    /\ handler' = [handler EXCEPT ![w] = "closed"]
    /\ buffer' = [buffer EXCEPT ![w] = <<>>]
    /\ reader' = [reader EXCEPT ![w] = "ended"] /\ seen' = [seen EXCEPT ![w] = {}]
    /\ UNCHANGED <<world, discVars, eventCh, adminVars, feed, lock, cache, toSend, adder>>

-----------------------------------------------------------------------------
\* What the goroutines of the program do, as against its environment.
Go == \/ \E k \in Clients : Transfer(k)
      \/ \E d \in Discoveries : Quit(d) \/ Add(d)
      \/ EndClear \/ FeedEvent \/ Deliver \/ DropSlow \/ CacheEvent
      \/ \E w \in Watchers : \/ BeginAdd(w) \/ SendCached(w) \/ EndAdd(w)
                             \/ Read(w) \/ Identify(w) \/ Close(w)

Environment == \/ \E p \in Ports : Plug(p)
               \/ \E k \in Clients : Report(k) \/ Die(k)
               \/ BeginClear
               \/ \E w \in Watchers : Watch(w) \/ Cancel(w)

Next == Go \/ Environment

Spec == Init /\ [][Next]_vars

\* Go's mutex is granted to every waiter, and a goroutine that can run does.
FairSpec ==
    /\ Spec /\ WF_vars(EndClear) /\ WF_vars(FeedEvent) /\ WF_vars(Deliver) /\ WF_vars(DropSlow)
    /\ WF_vars(CacheEvent)
    /\ \A k \in Clients : WF_vars(Transfer(k))
    /\ \A d \in Discoveries : WF_vars(Quit(d)) /\ WF_vars(Add(d))
    /\ \A w \in Watchers : /\ SF_vars(BeginAdd(w)) /\ WF_vars(SendCached(w)) /\ WF_vars(EndAdd(w))
                           /\ WF_vars(Read(w)) /\ SF_vars(Identify(w))
                           /\ SF_vars(Close(w))

-----------------------------------------------------------------------------
\* The values the state ranges over.
TypeOK ==
    /\ world \in Worlds /\ attached \subseteq Ports /\ plugs \in 0 .. world.plugs
    /\ runs \in [Discoveries -> 0 .. MaxRuns] /\ running \subseteq Clients
    /\ reported \in [Clients -> SUBSET Ports]
    /\ eventCh \in [Clients -> Seq(Events)] /\ \A k \in Clients : Len(eventCh[k]) <= EventCap
    /\ loaded \subseteq Discoveries /\ started \in BOOLEAN
    /\ phase \in {"idle", "clear", "add"} /\ pending \subseteq Discoveries
    /\ feed \in Seq(Events) /\ Len(feed) <= FeedCap
    /\ lock \in Watchers \cup {Nobody, Feeder}
    /\ cache \subseteq Ports /\ watchers \subseteq Watchers
    /\ toSend \subseteq Watchers \X Events
    /\ adder \in [Watchers -> {"none", "new", "sending", "ended"}]
    /\ buffer \in [Watchers -> Seq(Events)] /\ \A w \in Watchers : Len(buffer[w]) <= world.cap
    /\ handler \in [Watchers -> {"none", "open", "closing", "closed"}]
    /\ reader \in [Watchers -> {"none", "reading", "identifying", "blocked", "ended"}]
    /\ seen \in [Watchers -> SUBSET Ports]

\* Between two events a registered watcher has in its feed just what takes its
\* client from what it has seen to the ports of the cache: no event is lost,
\* doubled or out of order between the snapshot that Watch sends and the events
\* that follow (discoverymanager.go: "send all the current active ports first...
\* and after that add the watcher").
WatcherInStep ==
    lock = Nobody => \A w \in watchers : Apply(seen[w], buffer[w]) = cache

\* Nothing is sent to a closed feed, which would panic.
NoSendOnClosed ==
    /\ \A w \in watchers : ~Closed(w)
    /\ \A m \in toSend : ~Closed(m[1])

\* All that the discoveries have told has been taken in.
Settled == lock = Nobody /\ feed = <<>> /\ \A k \in Clients : eventCh[k] = <<>>

Reported == UNION {reported[k] : k \in running}

\* discoverymanager.go:42: "this is a cache of all active ports", as long as no
\* discovery has been started a second time.
CacheOfFirstRuns == (\A d \in Discoveries : runs[d] <= 1) /\ Settled => cache = Reported

\* A new watcher that fills up while the ports of the cache are sent to it: its
\* client has stopped reading, or its reader waits for an Init.
Jammed == \E w \in Watchers : /\ adder[w] = "sending" /\ Len(buffer[w]) = world.cap
                              /\ reader[w] \in {"blocked", "identifying"}

\* The buffer and the reader take all the ports the cache can have, or else the
\* goroutine of Watch may wait for room with watchersMutex held.
MayJam == world.cap + 1 < Cardinality(world.ports) /\ Jammed

\* Close returns, whatever the other watchers do: a client that has stopped
\* reading is dropped from the list and does not keep the lock.
CloseReturns == \A w \in Watchers : handler[w] = "closing" ~> (handler[w] = "closed" \/ MayJam)

\* An Init gets past the discoveries, whatever the watchers do, even though the
\* readers of their feeds need the lock that it holds.
InitGoesOn == phase = "clear" ~> (phase = "idle" \/ MayJam)

\* Whoever closes a watcher, and an Init, always come through.
AllComeThrough == CloseReturns /\ InitGoesOn

\* The invariant of the module: the types, and that no feed in use is closed.
DiscoveryInv == TypeOK /\ NoSendOnClosed
=============================================================================
