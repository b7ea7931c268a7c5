------------------------ MODULE DiscoveryManager_proofs ------------------------
(***************************************************************************)
(* Proofs about DiscoveryManager: the locks and the feeds of the watchers, *)
(* the step between cache and watchers, and the way of an event from a     *)
(* discovery to the cache, for any number of discoveries, ports and        *)
(* watchers and for channels of any capacity.                              *)
(***************************************************************************)
EXTENDS DiscoveryManager, SequenceTheorems, TLAPS

USE CapsOK

-----------------------------------------------------------------------------
\* The events that a run of discovery d sends.
Own(d) == {e \in Events : IF e.type = "stop" THEN e.of = d ELSE DiscoveryOf[e.of] = d}

\* What w knows once it has read its feed.
Known(w) == Apply(seen[w], buffer[w])

\* What the feed goroutine sends to each watcher for the event e, and the cache afterwards.
Told(e)  == IF e.type = "stop" THEN {Ev("remove", p) : p \in cache \cap PortsOf(e.of)} ELSE {e}
After    == Apply(cache, <<Head(feed)>>)

LockOK ==
    /\ lock = Nobody => toSend = {}
    /\ lock = Feeder => feed # <<>> /\ toSend \subseteq watchers \X Told(Head(feed))
    /\ \A w \in Watchers :
        /\ adder[w] = "sending" <=> lock = w
        /\ lock = w => /\ handler[w] \in {"open", "closing"}
                       /\ toSend \subseteq {w} \X {Ev("add", p) : p \in cache}
        /\ w \in watchers => adder[w] = "ended" /\ handler[w] \in {"open", "closing"}
        /\ adder[w] = "none" <=> handler[w] = "none"
        /\ adder[w] \in {"none", "new"} => buffer[w] = <<>> /\ seen[w] = {}

\* While an event is under way, a watcher knows of each port what the cache will say, or an
\* event about the port is still to be sent to it; a watcher that is being added knows of the
\* cache all but what is still to be sent.
StepOK ==
    /\ lock # Feeder => \A w \in watchers : Known(w) = cache
    /\ lock = Feeder => \A w \in watchers, p \in Ports :
           (p \in Known(w) <=> p \in After) \/ \E m \in toSend : m[1] = w /\ About(m[2], p)
    /\ \A w \in Watchers : lock = w => Known(w) \cup {m[2].of : m \in toSend} = cache

\* What a discovery that was started once has told of its ports is in the cache, in the feed or
\* in its event channel, in this order.
FlowOK ==
    /\ \A k \in Clients :
        /\ \A i \in DOMAIN eventCh[k] : eventCh[k][i] \in Own(k[1])
        /\ reported[k] \subseteq PortsOf(k[1])
        /\ k \notin running => reported[k] = {}
        /\ k[2] > runs[k[1]] => k \notin running /\ eventCh[k] = <<>>
    /\ \A d \in Discoveries : runs[d] <= 1 =>
        \A p \in PortsOf(d) : p \in Apply(Apply(cache, feed), eventCh[<<d, 1>>]) <=> p \in reported[<<d, 1>>]

ManagerInv == TypeOK /\ LockOK /\ StepOK /\ FlowOK

-----------------------------------------------------------------------------
\* Events and what they make of a set of ports.
LEMMA EventIs ==
    /\ \A e \in Events : \/ e.type \in {"add", "remove"} /\ e.of \in Ports
                         \/ e.type = "stop" /\ e.of \in Discoveries
    /\ \A p \in Ports : /\ Ev("add", p) \in Events /\ Ev("remove", p) \in Events
                        /\ Ev("add", p).of = p /\ Ev("remove", p).of = p
                        /\ Ev("add", p).type = "add" /\ Ev("remove", p).type = "remove"
    /\ \A d \in Discoveries : /\ Ev("stop", d) \in Events
                              /\ Ev("stop", d).type = "stop" /\ Ev("stop", d).of = d
BY DEF Events, Ev

LEMMA AddIs ==
    ASSUME NEW e \in Events, NEW p \in Ports
    PROVE  e = Ev("add", p) <=> e.type = "add" /\ About(e, p)
BY DEF Events, Ev, About

LEMMA ApplyEmpty ==
    ASSUME NEW S \in SUBSET Ports
    PROVE  Apply(S, <<>>) = S
BY DEF Apply

LEMMA ApplyOne ==
    ASSUME NEW S, NEW e \in Events, NEW p \in Ports
    PROVE  p \in Apply(S, <<e>>) <=> IF About(e, p) THEN e.type = "add" ELSE p \in S
<1>1. DOMAIN <<e>> = {1} /\ <<e>>[1] = e
  OBVIOUS
<1>2. p \in Apply(S, <<e>>) <=> (p \in S /\ ~About(e, p)) \/ e = Ev("add", p)
  BY <1>1 DEF Apply
<1> QED
  BY <1>2, AddIs

LEMMA ApplyAppend ==
    ASSUME NEW S, NEW q \in Seq(Events), NEW e \in Events, NEW p \in Ports
    PROVE  p \in Apply(S, Append(q, e)) <=> IF About(e, p) THEN e.type = "add" ELSE p \in Apply(S, q)
<1> DEFINE n == Len(q)
           r == Append(q, e)
<1>1. n \in Nat /\ DOMAIN q = 1 .. n /\ DOMAIN r = 1 .. n + 1
      /\ r[n + 1] = e /\ \A i \in 1 .. n : r[i] = q[i]
  OBVIOUS
<1> HIDE DEF n, r
<1>2. CASE About(e, p)
  <2>1. p \in Apply(S, r) <=> e = Ev("add", p)
    <3>1. (n + 1) \in DOMAIN r /\ \A j \in DOMAIN r : ~(j > n + 1)
      BY <1>1
    <3>2. \A i \in DOMAIN r : i # n + 1 => n + 1 > i
      BY <1>1
    <3> QED
      BY <1>1, <1>2, <3>1, <3>2 DEF Apply
  <2> QED
    BY <1>2, <2>1, AddIs DEF r
<1>3. CASE ~About(e, p)
  <2>1. e # Ev("add", p)
    BY <1>3, AddIs
  <2>2. \A i \in DOMAIN r : i = n + 1 \/ i \in DOMAIN q
    BY <1>1
  <2>3. \A i \in DOMAIN q : i \in DOMAIN r /\ r[i] = q[i]
    BY <1>1
  <2>4. p \in Apply(S, r) <=> p \in Apply(S, q)
    BY <1>1, <1>3, <2>1, <2>2, <2>3 DEF Apply
  <2> QED
    BY <1>3, <2>4 DEF r
<1> QED
  BY <1>2, <1>3

LEMMA ApplyHead ==
    ASSUME NEW S, NEW q \in Seq(Events), q # <<>>
    PROVE  Apply(Apply(S, <<Head(q)>>), Tail(q)) = Apply(S, q)
<1> DEFINE n == Len(q)
           h == Head(q)
           t == Tail(q)
<1>1. n \in Nat \ {0} /\ DOMAIN q = 1 .. n /\ DOMAIN t = 1 .. n - 1 /\ h = q[1] /\ h \in Events
      /\ \A i \in 1 .. n - 1 : t[i] = q[i + 1]
  OBVIOUS
<1> HIDE DEF n, h, t
<1>2. \A i \in DOMAIN t : i + 1 \in DOMAIN q /\ q[i + 1] = t[i] /\ i + 1 # 1 /\ i + 1 > 1 /\ i \in Int
  BY <1>1
<1>3. \A i \in DOMAIN q : i \in Int /\ (i = 1 \/ (i - 1 \in DOMAIN t /\ t[i - 1] = q[i]))
  BY <1>1
<1>4. 1 \in DOMAIN q /\ q[1] = h
  BY <1>1
<1>5. ASSUME NEW p \in Ports PROVE p \in Apply(Apply(S, <<h>>), t) <=> p \in Apply(S, q)
  <2>1. p \in Apply(S, <<h>>) <=> (p \in S /\ ~About(h, p)) \/ h = Ev("add", p)
    BY <1>1, ApplyOne, AddIs
  <2>2. p \in Apply(Apply(S, <<h>>), t) <=>
          \/ p \in Apply(S, <<h>>) /\ \A i \in DOMAIN t : ~About(t[i], p)
          \/ \E i \in DOMAIN t : t[i] = Ev("add", p) /\ \A j \in DOMAIN t : j > i => ~About(t[j], p)
    BY DEF Apply
  <2>3. p \in Apply(S, q) <=>
          \/ p \in S /\ \A i \in DOMAIN q : ~About(q[i], p)
          \/ \E i \in DOMAIN q : q[i] = Ev("add", p) /\ \A j \in DOMAIN q : j > i => ~About(q[j], p)
    BY DEF Apply
  <2>4. (\A i \in DOMAIN t : ~About(t[i], p)) <=> \A j \in DOMAIN q : j > 1 => ~About(q[j], p)
    BY <1>2, <1>3
  <2>5. (\A i \in DOMAIN q : ~About(q[i], p)) <=> ~About(h, p) /\ \A i \in DOMAIN t : ~About(t[i], p)
    BY <1>2, <1>3, <1>4
  <2>6. ASSUME NEW i \in DOMAIN t
        PROVE  (\A j \in DOMAIN t : j > i => ~About(t[j], p)) <=>
               (\A j \in DOMAIN q : j > i + 1 => ~About(q[j], p))
    <3>1. \A j \in DOMAIN t : j > i => j + 1 \in DOMAIN q /\ j + 1 > i + 1 /\ q[j + 1] = t[j]
      BY <1>2
    <3>2. \A j \in DOMAIN q : j > i + 1 => j - 1 \in DOMAIN t /\ j - 1 > i /\ t[j - 1] = q[j]
      BY <1>2, <1>3
    <3> QED
      BY <3>1, <3>2
  <2>7. (\E i \in DOMAIN q : q[i] = Ev("add", p) /\ \A j \in DOMAIN q : j > i => ~About(q[j], p)) <=>
          \/ h = Ev("add", p) /\ \A i \in DOMAIN t : ~About(t[i], p)
          \/ \E i \in DOMAIN t : t[i] = Ev("add", p) /\ \A j \in DOMAIN t : j > i => ~About(t[j], p)
    <3>1. ASSUME NEW i \in DOMAIN q, q[i] = Ev("add", p), \A j \in DOMAIN q : j > i => ~About(q[j], p)
          PROVE  \/ h = Ev("add", p) /\ \A x \in DOMAIN t : ~About(t[x], p)
                 \/ \E x \in DOMAIN t : t[x] = Ev("add", p) /\ \A j \in DOMAIN t : j > x => ~About(t[j], p)
      <4>1. CASE i = 1
        BY <1>4, <2>4, <3>1, <4>1
      <4>2. CASE i # 1
        <5>1. i - 1 \in DOMAIN t /\ t[i - 1] = Ev("add", p) /\ i = (i - 1) + 1
          BY <1>3, <3>1, <4>2
        <5> QED
          BY <2>6, <3>1, <5>1
      <4> QED
        BY <4>1, <4>2
    <3>2. ASSUME h = Ev("add", p), \A x \in DOMAIN t : ~About(t[x], p)
          PROVE  \E i \in DOMAIN q : q[i] = Ev("add", p) /\ \A j \in DOMAIN q : j > i => ~About(q[j], p)
      BY <1>4, <2>4, <3>2
    <3>3. ASSUME NEW x \in DOMAIN t, t[x] = Ev("add", p), \A j \in DOMAIN t : j > x => ~About(t[j], p)
          PROVE  \E i \in DOMAIN q : q[i] = Ev("add", p) /\ \A j \in DOMAIN q : j > i => ~About(q[j], p)
      BY <1>2, <2>6, <3>3
    <3> QED
      BY <3>1, <3>2, <3>3
  <2> QED
    BY <2>1, <2>2, <2>3, <2>5, <2>7
<1>6. Apply(Apply(S, <<h>>), t) \subseteq Ports /\ Apply(S, q) \subseteq Ports
  BY DEF Apply
<1> QED
  BY <1>5, <1>6 DEF h, t

-----------------------------------------------------------------------------
\* The watchers: the steps of the feed goroutine.
LEMMA HeadIs ==
    ASSUME TypeOK, feed # <<>>
    PROVE  Head(feed) \in Events /\ Tail(feed) \in Seq(Events) /\ Len(Tail(feed)) <= FeedCap
BY DEF TypeOK

LEMMA WorldIs ==
    ASSUME TypeOK
    PROVE  /\ world.watchers \subseteq Watchers /\ world.ports \subseteq Ports /\ world.cap \in Nat \ {0}
           /\ world.plugs \in Nat /\ world.runs \in 1 .. MaxRuns
BY DEF TypeOK

\* The types, action by action.
LEMMA StopTypes ==
    ASSUME TypeOK, NEW k \in Clients, Stop(k)
    PROVE  /\ attached' \subseteq Ports /\ plugs' \in 0 .. world.plugs
           /\ runs' \in [Discoveries -> 0 .. MaxRuns] /\ running' \subseteq Clients
           /\ reported' \in [Clients -> SUBSET Ports]
           /\ eventCh' \in [Clients -> Seq(Events)] /\ \A x \in Clients : Len(eventCh'[x]) <= EventCap
<1>1. Ev("stop", k[1]) \in Events
  BY EventIs DEF Clients
<1>2. Append(eventCh[k], Ev("stop", k[1])) \in Seq(Events)
      /\ Len(Append(eventCh[k], Ev("stop", k[1]))) <= EventCap
  BY <1>1 DEF TypeOK, Stop
<1> QED
  BY <1>2 DEF TypeOK, Stop

LEMMA LaunchTypes ==
    ASSUME TypeOK, NEW D \in SUBSET Discoveries, Launch(D)
    PROVE  /\ attached' \subseteq Ports /\ plugs' \in 0 .. world.plugs
           /\ runs' \in [Discoveries -> 0 .. MaxRuns] /\ running' \subseteq Clients
           /\ reported' \in [Clients -> SUBSET Ports]
           /\ eventCh' \in [Clients -> Seq(Events)] /\ \A x \in Clients : Len(eventCh'[x]) <= EventCap
<1>1. PICK S \in SUBSET {d \in D : runs[d] < world.runs} :
        /\ runs' = [d \in Discoveries |-> IF d \in S THEN runs[d] + 1 ELSE runs[d]]
        /\ running' = running \cup {<<d, runs'[d]>> : d \in S}
        /\ UNCHANGED <<attached, plugs, reported, eventCh>>
  BY DEF Launch
<1>2. \A d \in S : d \in Discoveries /\ runs[d] + 1 \in 1 .. MaxRuns /\ runs'[d] = runs[d] + 1
  BY <1>1, WorldIs DEF TypeOK
<1>3. runs' \in [Discoveries -> 0 .. MaxRuns]
  BY <1>1, <1>2 DEF TypeOK
<1>4. running' \subseteq Clients
  BY <1>1, <1>2 DEF TypeOK, Clients
<1> QED
  BY <1>1, <1>3, <1>4 DEF TypeOK

LEMMA DiscoveryTypes ==
    ASSUME TypeOK,
           \/ \E p \in Ports : Plug(p)
           \/ \E k \in Clients : Report(k) \/ Die(k) \/ Transfer(k)
           \/ \E d \in Discoveries : Quit(d) \/ Add(d)
           \/ BeginClear \/ EndClear
    PROVE  TypeOK'
<1>1. ASSUME NEW p \in Ports, Plug(p) PROVE TypeOK'
  <2>1. attached' \subseteq Ports /\ plugs' \in 0 .. world.plugs
    BY <1>1, WorldIs DEF Plug, TypeOK
  <2> QED
    BY <1>1, <2>1 DEF Plug, TypeOK, adminVars, watchVars, clientVars
<1>2. ASSUME NEW k \in Clients, Report(k) PROVE TypeOK'
  <2>1. PICK p \in PortsOf(k[1]), type \in {"add", "remove"} :
          /\ reported' = [reported EXCEPT ![k] = IF type = "add" THEN @ \cup {p} ELSE @ \ {p}]
          /\ eventCh' = [eventCh EXCEPT ![k] = Append(@, Ev(type, p))]
    BY <1>2 DEF Report
  <2>2. Append(eventCh[k], Ev(type, p)) \in Seq(Events) /\ Len(Append(eventCh[k], Ev(type, p))) <= EventCap
    BY <1>2, EventIs DEF Report, TypeOK, PortsOf
  <2>3. eventCh' \in [Clients -> Seq(Events)] /\ \A x \in Clients : Len(eventCh'[x]) <= EventCap
    BY <2>1, <2>2 DEF TypeOK
  <2>4. reported' \in [Clients -> SUBSET Ports]
    BY <2>1 DEF TypeOK, PortsOf
  <2> QED
    BY <1>2, <2>3, <2>4 DEF Report, TypeOK, adminVars, watchVars, clientVars
<1>3. ASSUME NEW k \in Clients, Die(k) PROVE TypeOK'
  BY <1>3, StopTypes DEF Die, TypeOK, adminVars, watchVars, clientVars
<1>4. ASSUME NEW k \in Clients, Transfer(k) PROVE TypeOK'
  <2>1. Head(eventCh[k]) \in Events /\ Tail(eventCh[k]) \in Seq(Events) /\ Len(Tail(eventCh[k])) <= EventCap
    BY <1>4 DEF Transfer, TypeOK
  <2>2. feed' \in Seq(Events) /\ Len(feed') <= FeedCap
    BY <1>4, <2>1 DEF Transfer, TypeOK
  <2>3. eventCh' \in [Clients -> Seq(Events)] /\ \A x \in Clients : Len(eventCh'[x]) <= EventCap
    BY <1>4, <2>1 DEF Transfer, TypeOK
  <2> QED
    BY <1>4, <2>2, <2>3 DEF Transfer, TypeOK, discVars, adminVars, watchVars, clientVars
<1>5. ASSUME NEW d \in Discoveries, Quit(d) PROVE TypeOK'
  <2>1. CASE <<d, runs[d]>> \in running /\ Stop(<<d, runs[d]>>)
    <3>1. <<d, runs[d]>> \in Clients
      BY <2>1 DEF TypeOK
    <3> QED
      BY <1>5, <2>1, <3>1, StopTypes DEF Quit, TypeOK, watchVars, clientVars
  <2>2. CASE UNCHANGED <<discVars, eventCh>>
    BY <1>5, <2>2 DEF Quit, TypeOK, discVars, watchVars, clientVars
  <2> QED
    BY <1>5, <2>1, <2>2 DEF Quit
<1>6. ASSUME NEW d \in Discoveries, Add(d) PROVE TypeOK'
  <2>1. pending' \subseteq Discoveries /\ loaded' \subseteq Discoveries /\ phase' \in {"idle", "clear", "add"}
    BY <1>6 DEF Add, TypeOK
  <2>2. CASE Launch({d})
    BY <1>6, <2>1, <2>2, LaunchTypes DEF Add, TypeOK, watchVars, clientVars
  <2>3. CASE UNCHANGED <<discVars, eventCh>>
    BY <1>6, <2>1, <2>3 DEF Add, TypeOK, discVars, watchVars, clientVars
  <2> QED
    BY <1>6, <2>2, <2>3 DEF Add
<1>7. CASE BeginClear
  BY <1>7 DEF BeginClear, TypeOK, discVars, watchVars, clientVars
<1>8. CASE EndClear
  BY <1>8 DEF EndClear, TypeOK, discVars, watchVars, clientVars
<1> QED
  BY <1>1, <1>2, <1>3, <1>4, <1>5, <1>6, <1>7, <1>8

LEMMA FeederTypes ==
    ASSUME TypeOK, LockOK, FeedEvent \/ Deliver \/ DropSlow \/ CacheEvent
    PROVE  TypeOK'
<1>1. CASE FeedEvent
  <2>1. watchers \X Told(Head(feed)) \subseteq Watchers \X Events
    <3>1. Told(Head(feed)) \subseteq Events
      BY <1>1, HeadIs, EventIs DEF FeedEvent, Told, PortsOf
    <3> QED
      BY <3>1 DEF TypeOK
  <2>2. toSend' \subseteq Watchers \X Events
    BY <1>1, <2>1 DEF FeedEvent, Told
  <2> QED
    BY <1>1, <2>2 DEF FeedEvent, TypeOK, discVars, adminVars, clientVars
<1>2. CASE Deliver
  <2>1. PICK m \in toSend : /\ Len(buffer[m[1]]) < world.cap
                            /\ buffer' = [buffer EXCEPT ![m[1]] = Append(@, m[2])]
                            /\ toSend' = toSend \ {m}
    BY <1>2 DEF Deliver
  <2>2. m[1] \in Watchers /\ m[2] \in Events
    BY DEF TypeOK
  <2>3. Append(buffer[m[1]], m[2]) \in Seq(Events) /\ Len(Append(buffer[m[1]], m[2])) <= world.cap
    BY <2>1, <2>2, WorldIs DEF TypeOK
  <2>4. buffer' \in [Watchers -> Seq(Events)] /\ \A w \in Watchers : Len(buffer'[w]) <= world.cap
    BY <2>1, <2>2, <2>3 DEF TypeOK
  <2> QED
    BY <1>2, <2>1, <2>4 DEF Deliver, TypeOK, discVars, adminVars, clientVars
<1>3. CASE DropSlow
  <2>1. watchers' \subseteq Watchers /\ toSend' \subseteq Watchers \X Events
    BY <1>3 DEF DropSlow, TypeOK
  <2> QED
    BY <1>3, <2>1 DEF DropSlow, TypeOK, discVars, adminVars, clientVars
<1>4. CASE CacheEvent
  <2>1. feed # <<>> /\ feed' = Tail(feed) /\ Head(feed) \in Events
    BY <1>4, HeadIs DEF CacheEvent, LockOK
  <2>2. feed' \in Seq(Events) /\ Len(feed') <= FeedCap
    BY <2>1, HeadIs
  <2>3. cache' \subseteq Ports
    BY <1>4, <2>1, EventIs DEF CacheEvent, TypeOK
  <2> QED
    BY <1>4, <2>2, <2>3 DEF CacheEvent, TypeOK, discVars, adminVars, clientVars
<1> QED
  BY <1>1, <1>2, <1>3, <1>4

LEMMA WatcherTypes ==
    ASSUME TypeOK, NEW w \in Watchers,
           \/ Watch(w) \/ BeginAdd(w) \/ SendCached(w) \/ EndAdd(w)
           \/ Read(w) \/ Identify(w) \/ Cancel(w) \/ Close(w)
    PROVE  TypeOK'
<1>1. CASE Watch(w)
  <2>1. /\ handler' \in [Watchers -> {"none", "open", "closing", "closed"}]
        /\ adder' \in [Watchers -> {"none", "new", "sending", "ended"}]
        /\ reader' \in [Watchers -> {"none", "reading", "identifying", "blocked", "ended"}]
    BY <1>1 DEF Watch, TypeOK
  <2>2. CASE Launch(loaded)
    <3>1. loaded \in SUBSET Discoveries
      BY DEF TypeOK
    <3> QED
      BY <1>1, <2>1, <2>2, <3>1, LaunchTypes DEF Watch, TypeOK, watchVars
  <2>3. CASE UNCHANGED <<discVars, eventCh>>
    BY <1>1, <2>1, <2>3 DEF Watch, TypeOK, discVars, watchVars
  <2> QED
    BY <1>1, <2>2, <2>3 DEF Watch
<1>2. CASE BeginAdd(w)
  <2>1. adder' \in [Watchers -> {"none", "new", "sending", "ended"}]
    BY <1>2 DEF BeginAdd, TypeOK
  <2>2. lock' \in Watchers \cup {Nobody, Feeder} /\ toSend' \subseteq Watchers \X Events
    BY <1>2, EventIs DEF BeginAdd, TypeOK
  <2> QED
    BY <1>2, <2>1, <2>2 DEF BeginAdd, TypeOK, discVars, adminVars, clientVars
<1>3. CASE SendCached(w)
  <2>1. PICK m \in toSend : /\ Len(buffer[w]) < world.cap
                            /\ buffer' = [buffer EXCEPT ![w] = Append(@, m[2])]
                            /\ toSend' = toSend \ {m}
    BY <1>3 DEF SendCached
  <2>2. m[2] \in Events
    BY DEF TypeOK
  <2>3. Append(buffer[w], m[2]) \in Seq(Events) /\ Len(Append(buffer[w], m[2])) <= world.cap
    BY <2>1, <2>2, WorldIs DEF TypeOK
  <2>4. buffer' \in [Watchers -> Seq(Events)] /\ \A x \in Watchers : Len(buffer'[x]) <= world.cap
    BY <2>1, <2>3 DEF TypeOK
  <2> QED
    BY <1>3, <2>1, <2>4 DEF SendCached, TypeOK, discVars, adminVars, clientVars
<1>4. CASE EndAdd(w)
  <2>1. adder' \in [Watchers -> {"none", "new", "sending", "ended"}]
    BY <1>4 DEF EndAdd, TypeOK
  <2> QED
    BY <1>4, <2>1 DEF EndAdd, TypeOK, discVars, adminVars, clientVars
<1>5. CASE Read(w)
  <2>1. Tail(buffer[w]) \in Seq(Events) /\ Len(Tail(buffer[w])) <= world.cap
    BY <1>5, WorldIs DEF Read, TypeOK
  <2>2. buffer' \in [Watchers -> Seq(Events)] /\ \A x \in Watchers : Len(buffer'[x]) <= world.cap
    BY <1>5, <2>1 DEF Read, TypeOK
  <2>3. seen' \in [Watchers -> SUBSET Ports]
    <3>1. Apply(seen[w], <<Head(buffer[w])>>) \subseteq Ports
      BY DEF Apply
    <3> QED
      BY <1>5, <3>1 DEF Read, TypeOK
  <2>4. reader' \in [Watchers -> {"none", "reading", "identifying", "blocked", "ended"}]
    BY <1>5 DEF Read, Send, TypeOK
  <2> QED
    BY <1>5, <2>2, <2>3, <2>4 DEF Read, TypeOK, discVars, adminVars, watchVars
<1>6. CASE Identify(w)
  <2>1. reader' \in [Watchers -> {"none", "reading", "identifying", "blocked", "ended"}]
    BY <1>6 DEF Identify, Send, TypeOK
  <2> QED
    BY <1>6, <2>1 DEF Identify, TypeOK, discVars, adminVars, watchVars
<1>7. CASE Cancel(w)
  <2>1. handler' \in [Watchers -> {"none", "open", "closing", "closed"}]
    BY <1>7 DEF Cancel, TypeOK
  <2> QED
    BY <1>7, <2>1 DEF Cancel, TypeOK, discVars, adminVars, watchVars
<1>8. CASE Close(w)
  <2>1. /\ handler' \in [Watchers -> {"none", "open", "closing", "closed"}]
        /\ reader' \in [Watchers -> {"none", "reading", "identifying", "blocked", "ended"}]
        /\ seen' \in [Watchers -> SUBSET Ports] /\ watchers' \subseteq Watchers
    BY <1>8 DEF Close, TypeOK
  <2>2. buffer' \in [Watchers -> Seq(Events)] /\ \A x \in Watchers : Len(buffer'[x]) <= world.cap
    BY <1>8, WorldIs DEF Close, TypeOK
  <2> QED
    BY <1>8, <2>1, <2>2 DEF Close, TypeOK, discVars, adminVars
<1> QED
  BY <1>1, <1>2, <1>3, <1>4, <1>5, <1>6, <1>7, <1>8

-----------------------------------------------------------------------------
\* The steps of the discoveries, and those of an Init, do not touch the watchers.
WatcherVars == <<lock, toSend, cache, watchers, adder, handler, buffer, seen>>

LEMMA WatchersStay ==
    ASSUME LockOK, StepOK, UNCHANGED WatcherVars, lock = Feeder => feed' # <<>> /\ Head(feed') = Head(feed)
    PROVE  LockOK' /\ StepOK'
<1>1. LockOK'
  BY DEF LockOK, WatcherVars, Told
<1>2. StepOK'
  BY DEF StepOK, WatcherVars, Known, After
<1> QED
  BY <1>1, <1>2

\* What is told of an event is what the cache makes of it.
LEMMA AfterIs ==
    ASSUME TypeOK, feed # <<>>, NEW p \in Ports
    PROVE  /\ p \in After <=> IF About(Head(feed), p) THEN Head(feed).type = "add" ELSE p \in cache
           /\ \A e \in Told(Head(feed)) : e \in Events /\ (About(e, p) => (p \in After <=> e.type = "add"))
<1>1. Head(feed) \in Events
  BY HeadIs
<1>2. p \in After <=> IF About(Head(feed), p) THEN Head(feed).type = "add" ELSE p \in cache
  BY <1>1, ApplyOne DEF After
<1>3. ASSUME NEW e \in Told(Head(feed))
      PROVE  e \in Events /\ (About(e, p) => (p \in After <=> e.type = "add"))
  <2>1. CASE Head(feed).type = "stop"
    <3>1. PICK x \in cache \cap PortsOf(Head(feed).of) : e = Ev("remove", x)
      BY <1>3, <2>1 DEF Told
    <3>2. x \in Ports /\ DiscoveryOf[x] = Head(feed).of
      BY <3>1 DEF PortsOf
    <3>3. e \in Events /\ e.type = "remove" /\ (About(e, p) => x = p)
      BY <3>1, <3>2, EventIs DEF About
    <3> QED
      BY <1>2, <2>1, <3>2, <3>3 DEF About
  <2>2. CASE Head(feed).type # "stop"
    BY <1>1, <1>2, <1>3, <2>2 DEF Told
  <2> QED
    BY <2>1, <2>2
<1> QED
  BY <1>2, <1>3

LEMMA FeedEventStep ==
    ASSUME TypeOK, LockOK, StepOK, FeedEvent
    PROVE  LockOK' /\ StepOK'
<1>0. /\ lock = Nobody /\ lock' = Feeder /\ feed # <<>> /\ toSend' = watchers \X Told(Head(feed))
      /\ UNCHANGED <<feed, cache, watchers, adder, buffer, handler, seen>> /\ watchers \subseteq Watchers
  BY DEF FeedEvent, Told, clientVars, TypeOK
<1>1. Told(Head(feed))' = Told(Head(feed)) /\ After' = After /\ \A w : Known(w)' = Known(w)
  BY <1>0 DEF Told, After, Known
<1>2. LockOK'
  BY <1>0, <1>1 DEF LockOK, Told
<1>3. ASSUME NEW w \in watchers, NEW p \in Ports
      PROVE  (p \in Known(w) <=> p \in After) \/ \E m \in toSend' : m[1] = w /\ About(m[2], p)
  <2>1. p \in Known(w) <=> p \in cache
    BY <1>0 DEF StepOK
  <2>2. CASE ~About(Head(feed), p) \/ (Head(feed).type = "stop" /\ p \notin cache)
    BY <1>0, <2>1, <2>2, AfterIs
  <2>3. CASE Head(feed).type # "stop" /\ About(Head(feed), p)
    <3>1. <<w, Head(feed)>> \in toSend'
      BY <1>0, <2>3 DEF Told
    <3> QED
      BY <2>3, <3>1
  <2>4. CASE Head(feed).type = "stop" /\ About(Head(feed), p) /\ p \in cache
    <3>1. Ev("remove", p) \in Told(Head(feed)) /\ About(Ev("remove", p), p)
      BY <2>4, EventIs DEF Told, About, PortsOf
    <3>2. <<w, Ev("remove", p)>> \in toSend'
      BY <1>0, <3>1
    <3> QED
      BY <3>1, <3>2
  <2> QED
    BY <2>2, <2>3, <2>4
<1>4. StepOK'
  BY <1>0, <1>1, <1>3 DEF StepOK
<1> QED
  BY <1>2, <1>4

LEMMA DeliverStep ==
    ASSUME TypeOK, LockOK, StepOK, Deliver
    PROVE  LockOK' /\ StepOK'
<1>1. PICK m \in toSend : /\ buffer' = [buffer EXCEPT ![m[1]] = Append(@, m[2])]
                          /\ toSend' = toSend \ {m}
  BY DEF Deliver
<1>0. /\ lock = Feeder /\ lock' = Feeder /\ feed # <<>> /\ toSend \subseteq watchers \X Told(Head(feed))
      /\ UNCHANGED <<feed, cache, watchers, adder, handler, seen>> /\ watchers \subseteq Watchers
  BY DEF Deliver, clientVars, TypeOK, LockOK
<1>2. m[1] \in watchers /\ m[1] \in Watchers /\ m[2] \in Told(Head(feed)) /\ m[2] \in Events
      /\ adder[m[1]] = "ended"
  BY <1>0 DEF TypeOK, LockOK
<1>3. Told(Head(feed))' = Told(Head(feed)) /\ After' = After
  BY <1>0 DEF Told, After
<1>4. /\ buffer'[m[1]] = Append(buffer[m[1]], m[2]) /\ \A w \in Watchers : w # m[1] => buffer'[w] = buffer[w]
  BY <1>1, <1>2 DEF TypeOK
<1>5. LockOK'
  BY <1>0, <1>1, <1>2, <1>3, <1>4 DEF LockOK
<1>6. ASSUME NEW p \in Ports
      PROVE  p \in Known(m[1])' <=> IF About(m[2], p) THEN m[2].type = "add" ELSE p \in Known(m[1])
  <2>1. Known(m[1])' = Apply(seen[m[1]], Append(buffer[m[1]], m[2]))
    BY <1>0, <1>4 DEF Known
  <2>2. buffer[m[1]] \in Seq(Events)
    BY <1>2 DEF TypeOK
  <2>3. p \in Apply(seen[m[1]], Append(buffer[m[1]], m[2])) <=>
          IF About(m[2], p) THEN m[2].type = "add" ELSE p \in Apply(seen[m[1]], buffer[m[1]])
    BY <1>2, <2>2, ApplyAppend
  <2> QED
    BY <2>1, <2>3 DEF Known
<1>7. ASSUME NEW w \in watchers, NEW p \in Ports
      PROVE  (p \in Known(w)' <=> p \in After) \/ \E n \in toSend' : n[1] = w /\ About(n[2], p)
  <2>1. CASE w = m[1] /\ About(m[2], p)
    <3>1. p \in Known(w)' <=> m[2].type = "add"
      BY <1>6, <2>1
    <3> QED
      BY <1>0, <1>2, <2>1, <3>1, AfterIs
  <2>2. CASE ~(w = m[1] /\ About(m[2], p))
    <3>1. p \in Known(w)' <=> p \in Known(w)
      <4>1. CASE w = m[1]
        BY <1>6, <2>2, <4>1
      <4>2. CASE w # m[1]
        BY <1>0, <1>4, <4>2 DEF Known
      <4> QED
        BY <4>1, <4>2
    <3>2. (p \in Known(w) <=> p \in After) \/ \E n \in toSend : n[1] = w /\ About(n[2], p)
      BY <1>0 DEF StepOK
    <3> QED
      BY <1>1, <2>2, <3>1, <3>2
  <2> QED
    BY <2>1, <2>2
<1>8. StepOK'
  BY <1>0, <1>3, <1>7 DEF StepOK
<1> QED
  BY <1>5, <1>8

LEMMA DropSlowStep ==
    ASSUME TypeOK, LockOK, StepOK, DropSlow
    PROVE  LockOK' /\ StepOK'
<1>1. PICK m \in toSend : /\ watchers' = watchers \ {m[1]}
                          /\ toSend' = {n \in toSend : n[1] # m[1]}
  BY DEF DropSlow
<1>0. /\ lock = Feeder /\ lock' = Feeder /\ feed # <<>> /\ toSend \subseteq watchers \X Told(Head(feed))
      /\ UNCHANGED <<feed, cache, adder, buffer, handler, seen>>
  BY DEF DropSlow, clientVars, LockOK
<1>3. Told(Head(feed))' = Told(Head(feed)) /\ After' = After /\ \A w : Known(w)' = Known(w)
  BY <1>0 DEF Told, After, Known
<1>4. toSend' \subseteq watchers' \X Told(Head(feed))
  BY <1>0, <1>1
<1>5. LockOK'
  BY <1>0, <1>1, <1>3, <1>4 DEF LockOK
<1>6. StepOK'
  <2>1. ASSUME NEW w \in watchers', NEW p \in Ports
        PROVE  (p \in Known(w) <=> p \in After) \/ \E n \in toSend' : n[1] = w /\ About(n[2], p)
    BY <1>0, <1>1 DEF StepOK
  <2> QED
    BY <1>0, <1>3, <2>1 DEF StepOK
<1> QED
  BY <1>5, <1>6

LEMMA CacheIs ==
    ASSUME TypeOK, LockOK, CacheEvent
    PROVE  feed # <<>> /\ cache' = After
<1>1. feed # <<>> /\ Head(feed) \in Events
  BY HeadIs DEF CacheEvent, LockOK
<1>2. cache' \subseteq Ports /\ After \subseteq Ports
  BY FeederTypes DEF After, Apply, TypeOK
<1>3. ASSUME NEW p \in Ports PROVE p \in cache' <=> p \in After
  <2>1. p \in After <=> IF About(Head(feed), p) THEN Head(feed).type = "add" ELSE p \in cache
    BY <1>1, AfterIs
  <2>2. CASE Head(feed).type = "add"
    BY <2>1, <2>2 DEF CacheEvent, About
  <2>3. CASE Head(feed).type = "remove"
    BY <2>1, <2>3 DEF CacheEvent, About
  <2>4. CASE Head(feed).type = "stop"
    BY <2>1, <2>4 DEF CacheEvent, About, PortsOf
  <2> QED
    BY <1>1, <2>2, <2>3, <2>4, EventIs
<1> QED
  BY <1>1, <1>2, <1>3

LEMMA CacheEventStep ==
    ASSUME TypeOK, LockOK, StepOK, CacheEvent
    PROVE  LockOK' /\ StepOK'
<1>0. /\ lock = Feeder /\ lock' = Nobody /\ toSend = {} /\ toSend' = {} /\ feed # <<>> /\ cache' = After
      /\ UNCHANGED <<watchers, adder, buffer, handler, seen>> /\ watchers \subseteq Watchers
  BY CacheIs DEF CacheEvent, clientVars, TypeOK
<1>1. LockOK'
  BY <1>0 DEF LockOK
<1>2. ASSUME NEW w \in watchers PROVE Known(w)' = cache'
  <2>1. Known(w)' = Known(w) /\ Known(w) \subseteq Ports /\ cache' \subseteq Ports
    BY <1>0 DEF Known, Apply, After
  <2>2. \A p \in Ports : p \in Known(w) <=> p \in After
    BY <1>0 DEF StepOK
  <2> QED
    BY <1>0, <2>1, <2>2
<1>3. StepOK'
  BY <1>0, <1>2 DEF StepOK
<1> QED
  BY <1>1, <1>3

-----------------------------------------------------------------------------
\* The watchers: their own steps.
LEMMA WatchStep ==
    ASSUME TypeOK, LockOK, StepOK, NEW w \in Watchers, Watch(w)
    PROVE  LockOK' /\ StepOK'
<1>0. /\ UNCHANGED <<lock, toSend, cache, watchers, feed, buffer, seen>>
      /\ handler[w] = "none" /\ adder[w] = "none" /\ handler'[w] = "open" /\ adder'[w] = "new"
      /\ \A x \in Watchers : x # w => handler'[x] = handler[x] /\ adder'[x] = adder[x]
  BY DEF Watch, watchVars, LockOK, TypeOK
<1>1. LockOK'
  BY <1>0 DEF LockOK, Told
<1>2. StepOK'
  BY <1>0 DEF StepOK, Known, After
<1> QED
  BY <1>1, <1>2

LEMMA BeginAddStep ==
    ASSUME TypeOK, LockOK, StepOK, NEW w \in Watchers, BeginAdd(w)
    PROVE  LockOK' /\ StepOK'
<1>0. /\ UNCHANGED <<cache, watchers, feed, buffer, seen, handler>>
      /\ lock = Nobody /\ toSend = {} /\ adder[w] = "new" /\ handler[w] # "none"
      /\ handler[w] \in {"none", "open", "closing", "closed"}
      /\ \A x \in Watchers : x # w => adder'[x] = adder[x]
      /\ watchers \subseteq Watchers /\ w \notin watchers
  BY DEF BeginAdd, clientVars, LockOK, TypeOK
<1>1. CASE Closed(w)
  <2>0. UNCHANGED <<lock, toSend>> /\ adder'[w] = "ended"
    BY <1>1 DEF BeginAdd, TypeOK
  <2>1. LockOK'
    BY <1>0, <2>0 DEF LockOK
  <2>2. StepOK'
    BY <1>0, <2>0 DEF StepOK, Known, After
  <2> QED
    BY <2>1, <2>2
<1>2. CASE ~Closed(w)
  <2>0. lock' = w /\ toSend' = {<<w, Ev("add", p)>> : p \in cache} /\ adder'[w] = "sending"
    BY <1>2 DEF BeginAdd, TypeOK
  <2>1. LockOK'
    <3>1. handler[w] \in {"open", "closing"}
      BY <1>0, <1>2 DEF Closed
    <3>2. toSend' \subseteq {w} \X {Ev("add", p) : p \in cache}
      BY <2>0
    <3> QED
      BY <1>0, <2>0, <3>1, <3>2 DEF LockOK
  <2>2. Known(w)' = {}
    <3>1. Known(w)' = Apply({}, <<>>)
      BY <1>0 DEF Known, LockOK
    <3> QED
      BY <3>1, ApplyEmpty
  <2>3. {m[2].of : m \in toSend'} = cache
    <3>1. \A p \in cache : <<w, Ev("add", p)>>[2].of = p
      BY EventIs DEF TypeOK
    <3>2. \A p \in cache : \E m \in toSend' : m[2].of = p
      BY <2>0, <3>1
    <3>3. \A m \in toSend' : m[2].of \in cache
      BY <2>0, <3>1
    <3> QED
      BY <3>2, <3>3
  <2>4. StepOK'
    BY <1>0, <2>0, <2>2, <2>3 DEF StepOK, Known
  <2> QED
    BY <2>1, <2>4
<1> QED
  BY <1>1, <1>2

LEMMA SendCachedStep ==
    ASSUME TypeOK, LockOK, StepOK, NEW w \in Watchers, SendCached(w)
    PROVE  LockOK' /\ StepOK'
<1>0. /\ UNCHANGED <<cache, watchers, feed, seen, handler, lock, adder>>
      /\ lock = w /\ adder[w] = "sending" /\ w \notin watchers /\ w # Feeder /\ w # Nobody
      /\ toSend \subseteq {w} \X {Ev("add", p) : p \in cache} /\ watchers \subseteq Watchers
      /\ cache \subseteq Ports
  BY DEF SendCached, clientVars, LockOK, TypeOK
<1>1. PICK m \in toSend : /\ buffer' = [buffer EXCEPT ![w] = Append(@, m[2])]
                          /\ toSend' = toSend \ {m}
  BY DEF SendCached
<1>2. PICK x \in cache : m = <<w, Ev("add", x)>>
  BY <1>0
<1>3. /\ m[2] = Ev("add", x) /\ m[2] \in Events /\ m[2].type = "add" /\ m[2].of = x /\ x \in Ports
      /\ buffer[w] \in Seq(Events)
      /\ buffer'[w] = Append(buffer[w], m[2]) /\ \A v \in Watchers : v # w => buffer'[v] = buffer[v]
  BY <1>0, <1>1, <1>2, EventIs DEF TypeOK
<1>4. LockOK'
  BY <1>0, <1>1, <1>3 DEF LockOK
<1>5. Known(w)' = Known(w) \cup {x}
  <2>1. Known(w)' = Apply(seen[w], Append(buffer[w], m[2]))
    BY <1>0, <1>3 DEF Known
  <2>2. \A p \in Ports : About(m[2], p) <=> p = x
    BY <1>3 DEF About
  <2>3. \A p \in Ports : p \in Known(w)' <=> IF About(m[2], p) THEN m[2].type = "add" ELSE p \in Known(w)
    <3>1. \A p \in Ports : p \in Apply(seen[w], Append(buffer[w], m[2])) <=>
            IF About(m[2], p) THEN m[2].type = "add" ELSE p \in Apply(seen[w], buffer[w])
      <4>1. m[2] \in Events /\ buffer[w] \in Seq(Events)
        BY <1>3
      <4> QED
        BY <4>1, ApplyAppend
    <3> QED
      BY <2>1, <3>1 DEF Known
  <2>4. Known(w)' \subseteq Ports /\ Known(w) \subseteq Ports
    BY DEF Known, Apply
  <2> QED
    BY <1>3, <2>2, <2>3, <2>4
<1>6. {n[2].of : n \in toSend} = {n[2].of : n \in toSend'} \cup {x}
  BY <1>1, <1>3
<1>7. StepOK'
  BY <1>0, <1>3, <1>5, <1>6 DEF StepOK, Known
<1> QED
  BY <1>4, <1>7

LEMMA EndAddStep ==
    ASSUME TypeOK, LockOK, StepOK, NEW w \in Watchers, EndAdd(w)
    PROVE  LockOK' /\ StepOK'
<1>0. /\ UNCHANGED <<cache, feed, seen, handler, toSend, buffer>>
      /\ lock = w /\ lock' = Nobody /\ toSend = {} /\ adder'[w] = "ended" /\ watchers' = watchers \cup {w}
      /\ handler[w] \in {"open", "closing"} /\ w # Feeder
      /\ \A x \in Watchers : x # w => adder'[x] = adder[x] /\ adder[x] # "sending"
  BY DEF EndAdd, clientVars, LockOK, TypeOK
<1>1. LockOK'
  BY <1>0 DEF LockOK
<1>2. Known(w) = cache
  <2>1. Known(w) \cup {m[2].of : m \in toSend} = cache
    BY <1>0 DEF StepOK
  <2>2. {m[2].of : m \in toSend} = {}
    BY <1>0
  <2> QED
    BY <2>1, <2>2
<1>3. StepOK'
  BY <1>0, <1>2 DEF StepOK, Known
<1> QED
  BY <1>1, <1>3

LEMMA ReadStep ==
    ASSUME TypeOK, LockOK, StepOK, NEW w \in Watchers, Read(w)
    PROVE  LockOK' /\ StepOK'
<1>0. /\ UNCHANGED <<cache, feed, handler, toSend, lock, adder, watchers>>
      /\ buffer[w] # <<>> /\ buffer'[w] = Tail(buffer[w]) /\ seen'[w] = Apply(seen[w], <<Head(buffer[w])>>)
      /\ \A x \in Watchers : x # w => buffer'[x] = buffer[x] /\ seen'[x] = seen[x]
      /\ buffer[w] \in Seq(Events) /\ watchers \subseteq Watchers
  BY DEF Read, watchVars, TypeOK
<1>1. Known(w)' = Known(w)
  <2>1. Known(w)' = Apply(Apply(seen[w], <<Head(buffer[w])>>), Tail(buffer[w]))
    BY <1>0 DEF Known
  <2> QED
    BY <1>0, <2>1, ApplyHead DEF Known
<1>2. \A x \in Watchers : Known(x)' = Known(x)
  BY <1>0, <1>1 DEF Known
<1>3. After' = After /\ Told(Head(feed))' = Told(Head(feed))
  BY <1>0 DEF After, Told
<1>4. LockOK'
  BY <1>0, <1>3 DEF LockOK
<1>5. StepOK'
  BY <1>0, <1>2, <1>3 DEF StepOK
<1> QED
  BY <1>4, <1>5

LEMMA CancelStep ==
    ASSUME TypeOK, LockOK, StepOK, NEW w \in Watchers, Cancel(w)
    PROVE  LockOK' /\ StepOK'
<1>0. /\ UNCHANGED <<cache, feed, toSend, lock, adder, watchers, buffer, seen>>
      /\ handler[w] = "open" /\ handler'[w] = "closing"
      /\ \A x \in Watchers : x # w => handler'[x] = handler[x]
  BY DEF Cancel, watchVars, TypeOK
<1>1. LockOK'
  BY <1>0 DEF LockOK, Told
<1>2. StepOK'
  BY <1>0 DEF StepOK, Known, After
<1> QED
  BY <1>1, <1>2

LEMMA CloseStep ==
    ASSUME TypeOK, LockOK, StepOK, NEW w \in Watchers, Close(w)
    PROVE  LockOK' /\ StepOK'
<1>0. /\ UNCHANGED <<cache, feed, toSend, lock, adder>> /\ lock = Nobody
      /\ watchers' = watchers \ {w} /\ handler[w] = "closing" /\ handler'[w] = "closed"
      /\ buffer'[w] = <<>> /\ seen'[w] = {} /\ watchers \subseteq Watchers
      /\ \A x \in Watchers : x # w => /\ handler'[x] = handler[x] /\ buffer'[x] = buffer[x]
                                      /\ seen'[x] = seen[x]
  BY DEF Close, TypeOK
<1>1. LockOK'
  BY <1>0 DEF LockOK
<1>2. StepOK'
  BY <1>0 DEF StepOK, Known
<1> QED
  BY <1>1, <1>2

-----------------------------------------------------------------------------
\* The way of the events.
FlowVars == <<runs, running, reported, eventCh, feed, cache>>

LEMMA FlowStays ==
    ASSUME FlowOK, UNCHANGED FlowVars
    PROVE  FlowOK'
BY DEF FlowOK, FlowVars

\* An event of a discovery says nothing of the ports of another one.
LEMMA OwnIs ==
    ASSUME NEW d \in Discoveries, NEW e \in Own(d), NEW p \in Ports
    PROVE  e \in Events /\ (About(e, p) => p \in PortsOf(d)) /\ (e.type = "stop" /\ p \in PortsOf(d) => About(e, p))
BY EventIs DEF Own, About, PortsOf

LEMMA OwnEvents ==
    ASSUME NEW d \in Discoveries
    PROVE  /\ Ev("stop", d) \in Own(d)
           /\ \A p \in PortsOf(d) : Ev("add", p) \in Own(d) /\ Ev("remove", p) \in Own(d)
BY EventIs DEF Own, PortsOf

\* A run that may be at work: the first one, if the discovery has been started only once.
LEMMA RunIs ==
    ASSUME TypeOK, FlowOK, NEW k \in Clients, k \in running \/ eventCh[k] # <<>>
    PROVE  k[1] \in Discoveries /\ k[2] <= runs[k[1]] /\ (runs[k[1]] <= 1 => k = <<k[1], 1>>)
<1>1. k[1] \in Discoveries /\ k[2] \in 1 .. MaxRuns /\ k = <<k[1], k[2]>> /\ runs[k[1]] \in 0 .. MaxRuns
  BY DEF Clients, TypeOK
<1>2. ~(k[2] > runs[k[1]])
  BY DEF FlowOK
<1> QED
  BY <1>1, <1>2

\* A run sends an event e of its own; R is what it has told of then.
LEMMA SendFlow ==
    ASSUME TypeOK, FlowOK, NEW k \in Clients, k \in running, NEW e \in Own(k[1]), NEW R \in SUBSET PortsOf(k[1]),
           eventCh' = [eventCh EXCEPT ![k] = Append(@, e)], reported' = [reported EXCEPT ![k] = R],
           \A p \in PortsOf(k[1]) : p \in R <=> IF About(e, p) THEN e.type = "add" ELSE p \in reported[k],
           running' = running \/ (running' = running \ {k} /\ R = {}),
           UNCHANGED <<runs, feed, cache>>
    PROVE  FlowOK'
<1>0. /\ k[1] \in Discoveries /\ k[2] <= runs[k[1]] /\ (runs[k[1]] <= 1 => k = <<k[1], 1>>) /\ e \in Events
      /\ eventCh'[k] = Append(eventCh[k], e) /\ reported'[k] = R /\ eventCh[k] \in Seq(Events)
      /\ \A x \in Clients : x # k => eventCh'[x] = eventCh[x] /\ reported'[x] = reported[x]
  BY RunIs DEF TypeOK, Own
<1>1. ASSUME NEW x \in Clients
      PROVE  /\ \A i \in DOMAIN eventCh'[x] : eventCh'[x][i] \in Own(x[1])
             /\ reported'[x] \subseteq PortsOf(x[1])
             /\ x \notin running' => reported'[x] = {}
             /\ x[2] > runs[x[1]] => x \notin running' /\ eventCh'[x] = <<>>
  <2>1. CASE x = k
    <3>1. \A i \in DOMAIN Append(eventCh[k], e) : Append(eventCh[k], e)[i] \in Own(k[1])
      <4>1. \A i \in DOMAIN eventCh[k] : eventCh[k][i] \in Own(k[1])
        BY DEF FlowOK
      <4>2. DOMAIN Append(eventCh[k], e) = 1 .. Len(eventCh[k]) + 1 /\ DOMAIN eventCh[k] = 1 .. Len(eventCh[k])
            /\ Len(eventCh[k]) \in Nat
        BY <1>0
      <4>3. \A i \in 1 .. Len(eventCh[k]) : Append(eventCh[k], e)[i] = eventCh[k][i]
        BY <1>0
      <4>4. Append(eventCh[k], e)[Len(eventCh[k]) + 1] = e
        BY <1>0
      <4> QED
        BY <4>1, <4>2, <4>3, <4>4
    <3>2. ~(k[2] > runs[k[1]])
      BY <1>0 DEF FlowOK
    <3> QED
      BY <1>0, <2>1, <3>1, <3>2
  <2>2. CASE x # k
    BY <1>0, <2>2 DEF FlowOK
  <2> QED
    BY <2>1, <2>2
<1>2. ASSUME NEW d \in Discoveries, runs[d] <= 1, NEW p \in PortsOf(d)
      PROVE  p \in Apply(Apply(cache, feed), eventCh'[<<d, 1>>]) <=> p \in reported'[<<d, 1>>]
  <2>0. <<d, 1>> \in Clients /\ p \in Ports
        /\ (p \in Apply(Apply(cache, feed), eventCh[<<d, 1>>]) <=> p \in reported[<<d, 1>>])
    BY <1>2 DEF FlowOK, Clients, PortsOf
  <2>1. CASE d = k[1]
    <3>1. k = <<d, 1>>
      BY <1>0, <1>2, <2>1
    <3>2. p \in Apply(Apply(cache, feed), Append(eventCh[k], e)) <=>
            IF About(e, p) THEN e.type = "add" ELSE p \in Apply(Apply(cache, feed), eventCh[k])
      BY <1>0, <2>0, ApplyAppend
    <3>3. p \in R <=> IF About(e, p) THEN e.type = "add" ELSE p \in reported[k]
      BY <1>2, <2>1
    <3> QED
      BY <1>0, <2>0, <3>1, <3>2, <3>3
  <2>2. CASE d # k[1]
    <3>1. <<d, 1>> # k
      BY <2>2
    <3> QED
      BY <1>0, <2>0, <3>1
  <2> QED
    BY <2>1, <2>2
<1> QED
  BY <1>1, <1>2 DEF FlowOK

LEMMA StopFlow ==
    ASSUME TypeOK, FlowOK, NEW k \in Clients, k \in running, Stop(k), UNCHANGED <<feed, cache>>
    PROVE  FlowOK'
<1>1. k[1] \in Discoveries
  BY DEF Clients
<1>2. Ev("stop", k[1]) \in Own(k[1]) /\ Ev("stop", k[1]).type = "stop"
  BY <1>1, OwnEvents, EventIs
<1>3. \A p \in PortsOf(k[1]) : About(Ev("stop", k[1]), p)
  BY <1>1, <1>2, OwnIs DEF PortsOf
<1>4. {} \in SUBSET PortsOf(k[1])
  OBVIOUS
<1>5. /\ eventCh' = [eventCh EXCEPT ![k] = Append(@, Ev("stop", k[1]))]
      /\ reported' = [reported EXCEPT ![k] = {}] /\ running' = running \ {k} /\ runs' = runs
  BY DEF Stop
<1>6. \A p \in PortsOf(k[1]) : p \in {} <=> IF About(Ev("stop", k[1]), p) THEN Ev("stop", k[1]).type = "add"
                                              ELSE p \in reported[k]
  BY <1>2, <1>3
<1> QED
  BY <1>2, <1>4, <1>5, <1>6, SendFlow

LEMMA ReportFlow ==
    ASSUME TypeOK, FlowOK, NEW k \in Clients, Report(k)
    PROVE  FlowOK'
<1>0. k \in running /\ UNCHANGED <<runs, running, feed, cache>> /\ k[1] \in Discoveries
      /\ reported[k] \subseteq PortsOf(k[1])
  BY DEF Report, watchVars, Clients, FlowOK
<1>1. PICK p \in PortsOf(k[1]) :
        \/ /\ reported' = [reported EXCEPT ![k] = @ \cup {p}]
           /\ eventCh' = [eventCh EXCEPT ![k] = Append(@, Ev("add", p))]
        \/ /\ reported' = [reported EXCEPT ![k] = @ \ {p}]
           /\ eventCh' = [eventCh EXCEPT ![k] = Append(@, Ev("remove", p))]
  BY DEF Report
<1>2. /\ p \in Ports /\ Ev("add", p) \in Own(k[1]) /\ Ev("remove", p) \in Own(k[1])
      /\ Ev("add", p).type = "add" /\ Ev("remove", p).type = "remove"
      /\ \A x \in Ports : (About(Ev("add", p), x) <=> x = p) /\ (About(Ev("remove", p), x) <=> x = p)
  BY <1>0, <1>1, OwnEvents, EventIs DEF PortsOf, About
<1>3. CASE /\ reported' = [reported EXCEPT ![k] = @ \cup {p}]
           /\ eventCh' = [eventCh EXCEPT ![k] = Append(@, Ev("add", p))]
  <2> DEFINE R == reported[k] \cup {p}
  <2>1. R \in SUBSET PortsOf(k[1]) /\ reported' = [reported EXCEPT ![k] = R]
    BY <1>0, <1>3
  <2>2. \A x \in PortsOf(k[1]) :
          x \in R <=> IF About(Ev("add", p), x) THEN Ev("add", p).type = "add" ELSE x \in reported[k]
    BY <1>2 DEF PortsOf
  <2> HIDE DEF R
  <2> QED
    BY <1>0, <1>2, <1>3, <2>1, <2>2, SendFlow
<1>4. CASE /\ reported' = [reported EXCEPT ![k] = @ \ {p}]
           /\ eventCh' = [eventCh EXCEPT ![k] = Append(@, Ev("remove", p))]
  <2> DEFINE R == reported[k] \ {p}
  <2>1. R \in SUBSET PortsOf(k[1]) /\ reported' = [reported EXCEPT ![k] = R]
    BY <1>0, <1>4
  <2>2. \A x \in PortsOf(k[1]) :
          x \in R <=> IF About(Ev("remove", p), x) THEN Ev("remove", p).type = "add" ELSE x \in reported[k]
    BY <1>2 DEF PortsOf
  <2> HIDE DEF R
  <2> QED
    BY <1>0, <1>2, <1>4, <2>1, <2>2, SendFlow
<1> QED
  BY <1>1, <1>3, <1>4

LEMMA ApplyPoint ==
    ASSUME NEW S, NEW T, NEW q, NEW p, p \in S <=> p \in T
    PROVE  p \in Apply(S, q) <=> p \in Apply(T, q)
BY DEF Apply

LEMMA TransferFlow ==
    ASSUME TypeOK, FlowOK, NEW k \in Clients, Transfer(k)
    PROVE  FlowOK'
<1> DEFINE h == Head(eventCh[k])
           t == Tail(eventCh[k])
<1>0. /\ UNCHANGED <<runs, running, reported, cache>> /\ feed' = Append(feed, h)
      /\ eventCh[k] # <<>> /\ eventCh[k] \in Seq(Events) /\ eventCh'[k] = t /\ h \in Events
      /\ \A x \in Clients : x # k => eventCh'[x] = eventCh[x]
      /\ feed \in Seq(Events)
  BY DEF Transfer, discVars, watchVars, TypeOK
<1>1. k[1] \in Discoveries /\ k[2] <= runs[k[1]] /\ (runs[k[1]] <= 1 => k = <<k[1], 1>>)
  BY <1>0, RunIs
<1>2. h \in Own(k[1]) /\ \A i \in DOMAIN t : t[i] \in Own(k[1])
  <2>1. \A i \in DOMAIN eventCh[k] : eventCh[k][i] \in Own(k[1])
    BY DEF FlowOK
  <2>2. 1 \in DOMAIN eventCh[k] /\ h = eventCh[k][1]
        /\ \A i \in DOMAIN t : i + 1 \in DOMAIN eventCh[k] /\ t[i] = eventCh[k][i + 1]
    BY <1>0
  <2> QED
    BY <2>1, <2>2
<1> HIDE DEF h, t
<1>3. ASSUME NEW x \in Clients
      PROVE  /\ \A i \in DOMAIN eventCh'[x] : eventCh'[x][i] \in Own(x[1])
             /\ reported[x] \subseteq PortsOf(x[1])
             /\ x \notin running => reported[x] = {}
             /\ x[2] > runs[x[1]] => x \notin running /\ eventCh'[x] = <<>>
  <2>1. CASE x = k
    <3>1. ~(k[2] > runs[k[1]])
      BY <1>0 DEF FlowOK
    <3> QED
      BY <1>0, <1>2, <2>1, <3>1 DEF FlowOK
  <2>2. CASE x # k
    BY <1>0, <2>2 DEF FlowOK
  <2> QED
    BY <2>1, <2>2
<1>4. ASSUME NEW d \in Discoveries, runs[d] <= 1, NEW p \in PortsOf(d)
      PROVE  p \in Apply(Apply(cache, feed'), eventCh'[<<d, 1>>]) <=> p \in reported[<<d, 1>>]
  <2>0. <<d, 1>> \in Clients /\ p \in Ports
        /\ (p \in Apply(Apply(cache, feed), eventCh[<<d, 1>>]) <=> p \in reported[<<d, 1>>])
    BY <1>4 DEF FlowOK, Clients, PortsOf
  <2>1. p \in Apply(cache, feed') <=> IF About(h, p) THEN h.type = "add" ELSE p \in Apply(cache, feed)
    <3>1. p \in Apply(cache, Append(feed, h)) <=>
             IF About(h, p) THEN h.type = "add" ELSE p \in Apply(cache, feed)
      BY <1>0, <2>0, ApplyAppend
    <3> QED
      BY <1>0, <3>1
  <2>2. CASE d = k[1]
    <3>1. k = <<d, 1>>
      BY <1>1, <1>4, <2>2
    <3>2. p \in Apply(Apply(cache, feed), <<h>>) <=>
             IF About(h, p) THEN h.type = "add" ELSE p \in Apply(cache, feed)
      BY <1>0, <2>0, ApplyOne
    <3>3. p \in Apply(Apply(cache, feed'), t) <=> p \in Apply(Apply(Apply(cache, feed), <<h>>), t)
      BY <2>1, <3>2, ApplyPoint
    <3>4. Apply(Apply(Apply(cache, feed), <<h>>), t) = Apply(Apply(cache, feed), eventCh[k])
      BY <1>0, ApplyHead DEF h, t
    <3> QED
      BY <1>0, <2>0, <3>1, <3>3, <3>4
  <2>3. CASE d # k[1]
    <3>1. <<d, 1>> # k
      BY <2>3
    <3>2. ~About(h, p)
      BY <1>1, <1>2, <1>4, <2>0, <2>3, OwnIs DEF PortsOf
    <3>3. p \in Apply(Apply(cache, feed'), eventCh[<<d, 1>>]) <=> p \in Apply(Apply(cache, feed), eventCh[<<d, 1>>])
      BY <2>1, <3>2, ApplyPoint
    <3> QED
      BY <1>0, <2>0, <3>1, <3>3
  <2> QED
    BY <2>2, <2>3
<1> QED
  BY <1>0, <1>3, <1>4 DEF FlowOK

LEMMA LaunchFlow ==
    ASSUME TypeOK, FlowOK, NEW D \in SUBSET Discoveries, Launch(D), UNCHANGED <<feed, cache>>
    PROVE  FlowOK'
<1>1. PICK S \in SUBSET {d \in D : runs[d] < world.runs} :
        /\ runs' = [d \in Discoveries |-> IF d \in S THEN runs[d] + 1 ELSE runs[d]]
        /\ running' = running \cup {<<d, runs'[d]>> : d \in S}
        /\ UNCHANGED <<attached, plugs, reported, eventCh>>
  BY DEF Launch
<1>2. \A d \in Discoveries : runs[d] \in Nat /\ runs'[d] \in Nat /\ runs[d] <= runs'[d]
  BY <1>1 DEF TypeOK
<1>3. ASSUME NEW x \in Clients
      PROVE  /\ x \notin running' => reported[x] = {}
             /\ x[2] > runs'[x[1]] => x \notin running' /\ eventCh[x] = <<>>
  <2>1. x[1] \in Discoveries /\ x[2] \in Nat
    BY DEF Clients
  <2>2. x[2] > runs'[x[1]] => x[2] > runs[x[1]]
    BY <1>2, <2>1
  <2>3. x[2] > runs'[x[1]] => x \notin {<<d, runs'[d]>> : d \in S}
    BY <1>2, <2>1
  <2> QED
    BY <1>1, <2>2, <2>3 DEF FlowOK
<1>4. ASSUME NEW d \in Discoveries, runs'[d] <= 1 PROVE runs[d] <= 1
  BY <1>2, <1>4
<1> QED
  BY <1>1, <1>3, <1>4 DEF FlowOK

LEMMA CacheFlow ==
    ASSUME TypeOK, LockOK, FlowOK, CacheEvent
    PROVE  FlowOK'
<1>0. /\ feed # <<>> /\ cache' = After /\ feed' = Tail(feed) /\ UNCHANGED <<runs, running, reported, eventCh>>
      /\ feed \in Seq(Events)
  BY CacheIs DEF CacheEvent, discVars, TypeOK
<1>1. Apply(cache', feed') = Apply(cache, feed)
  BY <1>0, ApplyHead DEF After
<1> QED
  BY <1>0, <1>1 DEF FlowOK

-----------------------------------------------------------------------------
LEMMA StepLocks ==
    ASSUME TypeOK, LockOK, StepOK, Next
    PROVE  LockOK' /\ StepOK'
<1>1. ASSUME UNCHANGED WatcherVars, UNCHANGED feed PROVE LockOK' /\ StepOK'
  <2>1. lock = Feeder => feed # <<>>
    BY DEF LockOK
  <2> QED
    BY <1>1, <2>1, WatchersStay
<1>2. ASSUME NEW k \in Clients, Transfer(k) PROVE LockOK' /\ StepOK'
  <2>1. UNCHANGED WatcherVars /\ feed' = Append(feed, Head(eventCh[k])) /\ feed \in Seq(Events)
        /\ Head(eventCh[k]) \in Events
    BY <1>2 DEF Transfer, WatcherVars, watchVars, clientVars, TypeOK
  <2>2. lock = Feeder => feed' # <<>> /\ Head(feed') = Head(feed)
    BY <2>1 DEF LockOK
  <2> QED
    BY <2>1, <2>2, WatchersStay
<1>3. ASSUME \/ \E p \in Ports : Plug(p)
             \/ \E k \in Clients : Report(k) \/ Die(k)
             \/ \E d \in Discoveries : Quit(d) \/ Add(d)
             \/ BeginClear \/ EndClear \/ \E w \in Watchers : Identify(w)
      PROVE  LockOK' /\ StepOK'
  <2>1. UNCHANGED WatcherVars /\ UNCHANGED feed
    BY <1>3 DEF WatcherVars, watchVars, clientVars, Plug, Report, Die, Quit, Add, BeginClear, EndClear, Identify
  <2> QED
    BY <1>1, <2>1
<1>4. CASE FeedEvent \/ Deliver \/ DropSlow \/ CacheEvent
  BY <1>4, FeedEventStep, DeliverStep, DropSlowStep, CacheEventStep
<1>5. ASSUME NEW w \in Watchers,
             \/ Watch(w) \/ BeginAdd(w) \/ SendCached(w) \/ EndAdd(w) \/ Read(w) \/ Cancel(w) \/ Close(w)
      PROVE  LockOK' /\ StepOK'
  BY <1>5, WatchStep, BeginAddStep, SendCachedStep, EndAddStep, ReadStep, CancelStep, CloseStep
<1> QED
  BY <1>2, <1>3, <1>4, <1>5 DEF Next, Go, Environment

LEMMA StepTypes ==
    ASSUME TypeOK, LockOK, Next
    PROVE  TypeOK'
BY DiscoveryTypes, FeederTypes, WatcherTypes DEF Next, Go, Environment

LEMMA StepFlow ==
    ASSUME TypeOK, LockOK, FlowOK, Next
    PROVE  FlowOK'
<1>1. ASSUME NEW k \in Clients, Report(k) \/ Die(k) \/ Transfer(k) PROVE FlowOK'
  BY <1>1, ReportFlow, StopFlow, TransferFlow DEF Die, watchVars
<1>2. ASSUME NEW d \in Discoveries, Quit(d) PROVE FlowOK'
  <2>1. CASE <<d, runs[d]>> \in running /\ Stop(<<d, runs[d]>>)
    <3>1. <<d, runs[d]>> \in Clients
      BY <2>1 DEF TypeOK
    <3> QED
      BY <1>2, <2>1, <3>1, StopFlow DEF Quit, watchVars
  <2>2. CASE UNCHANGED <<discVars, eventCh>>
    BY <1>2, <2>2, FlowStays DEF Quit, discVars, watchVars, FlowVars
  <2> QED
    BY <1>2, <2>1, <2>2 DEF Quit
<1>3. ASSUME NEW d \in Discoveries, Add(d) PROVE FlowOK'
  <2>1. CASE Launch({d})
    BY <1>3, <2>1, LaunchFlow DEF Add, watchVars
  <2>2. CASE UNCHANGED <<discVars, eventCh>>
    BY <1>3, <2>2, FlowStays DEF Add, discVars, watchVars, FlowVars
  <2> QED
    BY <1>3, <2>1, <2>2 DEF Add
<1>4. ASSUME NEW w \in Watchers, Watch(w) PROVE FlowOK'
  <2>1. loaded \in SUBSET Discoveries
    BY DEF TypeOK
  <2>2. CASE Launch(loaded)
    BY <1>4, <2>1, <2>2, LaunchFlow DEF Watch, watchVars
  <2>3. CASE UNCHANGED <<discVars, eventCh>>
    BY <1>4, <2>3, FlowStays DEF Watch, discVars, watchVars, FlowVars
  <2> QED
    BY <1>4, <2>2, <2>3 DEF Watch
<1>5. CASE CacheEvent
  BY <1>5, CacheFlow
<1>6. ASSUME \/ \E p \in Ports : Plug(p)
             \/ BeginClear \/ EndClear \/ FeedEvent \/ Deliver \/ DropSlow
             \/ \E w \in Watchers : \/ BeginAdd(w) \/ SendCached(w) \/ EndAdd(w)
                                    \/ Read(w) \/ Identify(w) \/ Cancel(w) \/ Close(w)
      PROVE  FlowOK'
  <2>1. UNCHANGED FlowVars
    BY <1>6 DEF FlowVars, discVars, watchVars, Plug, BeginClear, EndClear, FeedEvent, Deliver, DropSlow,
                BeginAdd, SendCached, EndAdd, Read, Identify, Cancel, Close
  <2> QED
    BY <2>1, FlowStays
<1> QED
  BY <1>1, <1>2, <1>3, <1>4, <1>5, <1>6 DEF Next, Go, Environment

-----------------------------------------------------------------------------
\* The inductive invariant.
THEOREM ManagerInvariant == Spec => []ManagerInv
<1>1. Init => ManagerInv
  <2> SUFFICES ASSUME Init PROVE ManagerInv
    OBVIOUS
  <2>1. /\ world \in Worlds /\ world.ports \subseteq Ports /\ world.plugs \in Nat /\ world.cap \in Nat
    BY DEF Init
  <2>2. <<>> \in Seq(Events) /\ Len(<<>>) = 0
    OBVIOUS
  <2>3. TypeOK
    <3>1. attached \subseteq Ports /\ plugs \in 0 .. world.plugs
      BY <2>1 DEF Init
    <3>2. runs \in [Discoveries -> 0 .. MaxRuns] /\ running \subseteq Clients
      BY CapsOK DEF Init
    <3>3. reported \in [Clients -> SUBSET Ports]
      BY DEF Init
    <3>4. eventCh \in [Clients -> Seq(Events)] /\ \A k \in Clients : Len(eventCh[k]) <= EventCap
      <4>1. \A k \in Clients : eventCh[k] = <<>>
        BY DEF Init
      <4>2. eventCh \in [Clients -> Seq(Events)]
        BY <2>2 DEF Init
      <4>3. 0 <= EventCap
        BY CapsOK
      <4> QED
        BY <2>2, <4>1, <4>2, <4>3
    <3>5. buffer \in [Watchers -> Seq(Events)] /\ \A w \in Watchers : Len(buffer[w]) <= world.cap
      <4>1. \A w \in Watchers : buffer[w] = <<>>
        BY DEF Init
      <4>2. buffer \in [Watchers -> Seq(Events)]
        BY <2>2 DEF Init
      <4>3. 0 <= world.cap
        BY <2>1
      <4> QED
        BY <2>2, <4>1, <4>2, <4>3
    <3>6. feed \in Seq(Events) /\ Len(feed) <= FeedCap
      BY <2>2, CapsOK DEF Init
    <3>7. /\ loaded \subseteq Discoveries /\ started \in BOOLEAN
          /\ phase \in {"idle", "clear", "add"} /\ pending \subseteq Discoveries
          /\ lock \in Watchers \cup {Nobody, Feeder}
          /\ cache \subseteq Ports /\ watchers \subseteq Watchers
          /\ toSend \subseteq Watchers \X Events
      BY DEF Init
    <3>8. /\ adder \in [Watchers -> {"none", "new", "sending", "ended"}]
          /\ handler \in [Watchers -> {"none", "open", "closing", "closed"}]
          /\ reader \in [Watchers -> {"none", "reading", "identifying", "blocked", "ended"}]
          /\ seen \in [Watchers -> SUBSET Ports]
      BY DEF Init
    <3> QED
      BY <2>1, <3>1, <3>2, <3>3, <3>4, <3>5, <3>6, <3>7, <3>8 DEF TypeOK
  <2>4. LockOK
    BY <2>3 DEF Init, LockOK, TypeOK
  <2>5. StepOK
    BY DEF Init, StepOK
  <2>6. FlowOK
    <3>1. Apply(Apply(cache, feed), <<>>) = {}
      BY ApplyEmpty DEF Init
    <3>2. \A k \in Clients : eventCh[k] = <<>> /\ reported[k] = {} /\ k \notin running
      BY DEF Init
    <3>3. ASSUME NEW k \in Clients, NEW i \in DOMAIN eventCh[k] PROVE FALSE
      BY <2>2, <3>2
    <3>4. ASSUME NEW d \in Discoveries, NEW p \in Ports
          PROVE  p \in Apply(Apply(cache, feed), eventCh[<<d, 1>>]) <=> p \in reported[<<d, 1>>]
      <4>1. <<d, 1>> \in Clients
        BY CapsOK DEF Clients
      <4>2. eventCh[<<d, 1>>] = <<>> /\ reported[<<d, 1>>] = {}
        BY <3>2, <4>1
      <4> QED
        BY <3>1, <4>2
    <3>5. \A d \in Discoveries : PortsOf(d) \subseteq Ports
      BY DEF PortsOf
    <3> QED
      BY <3>2, <3>3, <3>4, <3>5 DEF FlowOK
  <2> QED
    BY <2>3, <2>4, <2>5, <2>6 DEF ManagerInv
<1>2. ManagerInv /\ [Next]_vars => ManagerInv'
  <2> SUFFICES ASSUME ManagerInv, [Next]_vars PROVE ManagerInv'
    OBVIOUS
  <2>1. CASE Next
    BY <2>1, StepTypes, StepLocks, StepFlow DEF ManagerInv
  <2>2. CASE UNCHANGED vars
    <3>1. LockOK' /\ StepOK'
      BY <2>2, WatchersStay DEF vars, watchVars, clientVars, WatcherVars, ManagerInv, LockOK
    <3>2. FlowOK'
      BY <2>2, FlowStays DEF vars, discVars, watchVars, FlowVars, ManagerInv
    <3>3. TypeOK'
      BY <2>2 DEF vars, discVars, adminVars, watchVars, clientVars, ManagerInv, TypeOK
    <3> QED
      BY <3>1, <3>2, <3>3 DEF ManagerInv
  <2> QED
    BY <2>1, <2>2
<1> QED
  BY <1>1, <1>2, PTL DEF Spec

\* The types are right, and nothing is sent to a watcher whose feed is closed, also if it is
\* closed before the goroutine that adds it has run: closeCB and the goroutine take watchersMutex,
\* and the goroutine looks at the feed again.
THEOREM NothingToClosed == Spec => []DiscoveryInv
<1>1. ManagerInv => DiscoveryInv
  <2> SUFFICES ASSUME ManagerInv PROVE DiscoveryInv
    OBVIOUS
  <2>1. \A w \in watchers : ~Closed(w)
    BY DEF ManagerInv, TypeOK, LockOK, Closed
  <2>2. ASSUME NEW m \in toSend PROVE ~Closed(m[1])
    <3>1. lock \in Watchers \cup {Nobody, Feeder} /\ toSend \subseteq Watchers \X Events
      BY DEF ManagerInv, TypeOK
    <3>2. CASE lock = Feeder
      BY <2>1, <3>2 DEF ManagerInv, LockOK
    <3>3. CASE lock \in Watchers
      BY <3>3 DEF ManagerInv, LockOK, Closed
    <3> QED
      BY <3>1, <3>2, <3>3 DEF ManagerInv, LockOK
  <2> QED
    BY <2>1, <2>2 DEF DiscoveryInv, NoSendOnClosed, ManagerInv
<1> QED
  BY <1>1, ManagerInvariant, PTL

\* Between two events, what a watcher has read and what is in its feed make just the ports of the
\* cache, for any number of watchers and any capacity of the feeds: the goroutine of Watch sends
\* the cached ports and registers the watcher under one lock.
THEOREM WatchersInStep == Spec => []WatcherInStep
<1>1. ManagerInv => WatcherInStep
  BY DEF ManagerInv, StepOK, WatcherInStep, Known
<1> QED
  BY <1>1, ManagerInvariant, PTL

\* As long as no discovery has been started twice, the cache has the ports that the discoveries
\* have told of, when all they have told has been taken in; one that has stopped leaves none.
THEOREM CacheIsTrue == Spec => []CacheOfFirstRuns
<1>1. ManagerInv => CacheOfFirstRuns
  <2> SUFFICES ASSUME ManagerInv, \A d \in Discoveries : runs[d] <= 1, Settled
               PROVE  cache = Reported
    BY DEF CacheOfFirstRuns
  <2>0. TypeOK /\ FlowOK /\ cache \in SUBSET Ports
    BY DEF ManagerInv, TypeOK
  <2>1. ASSUME NEW p \in Ports
        PROVE  p \in cache <=> p \in reported[<<DiscoveryOf[p], 1>>]
    <3>1. p \in PortsOf(DiscoveryOf[p]) /\ DiscoveryOf[p] \in Discoveries /\ <<DiscoveryOf[p], 1>> \in Clients
      BY DEF PortsOf, Clients
    <3>2. Apply(Apply(cache, feed), eventCh[<<DiscoveryOf[p], 1>>]) = cache
      BY <2>0, <3>1, ApplyEmpty DEF Settled
    <3> QED
      BY <2>0, <3>1, <3>2 DEF FlowOK
  <2>2. ASSUME NEW k \in running
        PROVE  k \in Clients /\ reported[k] \subseteq cache
    <3>1. k \in Clients /\ k[1] \in Discoveries
      BY <2>0 DEF TypeOK, Clients
    <3>2. k = <<k[1], 1>>
      BY <2>0, <3>1, RunIs
    <3>3. \A p \in reported[k] : p \in Ports /\ DiscoveryOf[p] = k[1]
      BY <2>0, <3>1 DEF FlowOK, PortsOf
    <3> QED
      BY <2>1, <3>1, <3>2, <3>3
  <2>3. ASSUME NEW p \in cache PROVE p \in Reported
    <3>1. p \in Ports /\ p \in reported[<<DiscoveryOf[p], 1>>] /\ <<DiscoveryOf[p], 1>> \in Clients
      BY <2>0, <2>1 DEF Clients
    <3>2. <<DiscoveryOf[p], 1>> \in running
      BY <2>0, <3>1 DEF FlowOK
    <3> QED
      BY <3>1, <3>2 DEF Reported
  <2> QED
    BY <2>2, <2>3 DEF Reported
<1> QED
  BY <1>1, ManagerInvariant, PTL
=============================================================================
