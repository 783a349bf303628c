------------------------------- MODULE NetRouter -------------------------------
\* tools/net-router/rbrouter.py: one UDP port, a flow per client address, each on
\* a backend: the target of a file, or the one registered for the player's name,
\* which a client sends after its handshake.  One datagram is one step of the
\* single-threaded loop; the file changes in between.
EXTENDS Naturals, Sequences

CONSTANTS
  Clients,          \* addresses, <<ip, port>>
  RtBackends,
  HomeOf,           \* per client: the backend its name is registered for, or Unnamed
  Unnamed,
  FirstTarget,      \* what the target file says at the start
  HoldMax,          \* HOLD_MAX_PKTS
  WatchMax,         \* WATCH_PKTS
  RtScenes          \* bounds: records of hold, drop, datagrams, switches, flows

ASSUME NamesAreBackends ==
  /\ FirstTarget \in RtBackends /\ Unnamed \notin RtBackends /\ WatchMax \in Nat
  /\ HomeOf \in [Clients -> RtBackends \cup {Unnamed}]
  /\ RtScenes \subseteq [hold : BOOLEAN, drop : BOOLEAN, datagrams : Nat, switches : Nat, flows : Nat]

VARIABLES
  rtFile,           \* the target file
  router,           \* the Router: see RtInit
  rtSent,           \* per client: datagrams sent
  rtDue,            \* flush_held: the flows it has still to decide, with their clients
  rtScene, rtSwitches
rtVars == <<rtFile, router, rtSent, rtDue, rtScene, rtSwitches>>

Absent == [no |-> 0, backend |-> Unnamed, named |-> FALSE, held |-> <<>>, watch |-> 0]
Ip(c) == c[1]

\* flows: per client its flow or Absent; socks: what the selector watches: a flow's
\* number and its client; learned: per ip; out: what the backends got, in order.
RtInit ==
  /\ rtScene \in RtScenes /\ rtSwitches = 0
  /\ rtFile = FirstTarget
  /\ router = [flows |-> [c \in Clients |-> Absent], socks |-> {}, target |-> rtFile,
               learned |-> [i \in {Ip(c) : c \in Clients} |-> Unnamed], count |-> 0, out |-> <<>>]
  /\ rtSent = [c \in Clients |-> 0] /\ rtDue = {}

\* close_flow: out of the table, its socket out of the selector; what it held is gone.
Drop(r, c) ==
  IF r.flows[c] = Absent THEN r
  ELSE [r EXCEPT !.flows[c] = Absent, !.socks = {s \in @ : s.no # r.flows[c].no}]
DropAll(r) == [r EXCEPT !.flows = [c \in Clients |-> Absent],
                        !.socks = {s \in @ : \A c \in Clients : r.flows[c] = Absent \/ s.no # r.flows[c].no}]

\* resolve_target: the file; another target than before drops the flows there are.
Resolved(r) ==
  IF rtFile = r.target THEN r
  ELSE [(IF rtScene.drop THEN DropAll(r) ELSE r) EXCEPT !.target = rtFile]

\* decide: the flow, in the table or not any more, gets a backend and a socket, and
\* what it held goes out first (bug: last).
HeldLast(held, new) == new \o held
HeldFirst(held, new) == held \o new
Put(r, c, flow) ==
  IF r.flows[c] # Absent /\ r.flows[c].no = flow.no THEN [r EXCEPT !.flows[c] = flow] ELSE r
Datagram(c, n, backend) == [from |-> c, n |-> n, to |-> backend]
Decide(r, c, flow, backend, new) ==
  LET send == HeldFirst(flow.held, new) IN
  [Put(r, c, [flow EXCEPT !.backend = backend, !.held = <<>>]) EXCEPT
     !.socks = @ \cup {[no |-> flow.no, client |-> c]},
     !.out = @ \o [i \in DOMAIN send |-> Datagram(c, send[i], backend)]]

\* open_flow: the target first, then the flow; what was learned for the ip decides.
NewFlow(r) == [no |-> r.count + 1, backend |-> Unnamed, named |-> FALSE, held |-> <<>>, watch |-> WatchMax]
WithFlow(r, c) ==
  IF r.flows[c] # Absent THEN r
  ELSE LET t == Resolved(r)
           flow == NewFlow(t)
           s == [t EXCEPT !.count = @ + 1, !.flows[c] = flow]
       IN IF t.learned[Ip(c)] = Unnamed THEN s ELSE Decide(s, c, flow, t.learned[Ip(c)], <<>>)

\* hold_and_decide: a name decides at once; else wait, up to the budget.
Hold(r, c, n, name) ==
  LET flow == r.flows[c]
      more == [flow EXCEPT !.held = Append(@, n)]
      s == Put(r, c, more)
  IN IF name # Unnamed THEN Decide(r, c, [flow EXCEPT !.named = TRUE], name, <<n>>)
     ELSE IF rtScene.hold /\ Len(more.held) < HoldMax THEN s
     ELSE LET t == Resolved(s) IN Decide(t, c, more, t.target, <<>>)

\* watch_for_name: for its first datagrams; a name for another backend is learned
\* and the flow dropped, its client will come again (bug: the flow is moved).
Rerouted(r, c, n, name) ==
  [Put(r, c, [r.flows[c] EXCEPT !.backend = name]) EXCEPT !.out = Append(@, Datagram(c, n, name))]
Learned(r, c, n, name) == Drop(r, c)
Watch(r, c, n, name) ==
  LET flow == r.flows[c]
      watches == ~flow.named /\ flow.watch > 0
      seen == IF watches THEN Put(r, c, [flow EXCEPT !.watch = @ - 1, !.named = name # Unnamed]) ELSE r
      learns == IF watches /\ name # Unnamed THEN [seen EXCEPT !.learned[Ip(c)] = name] ELSE seen
  IN IF watches /\ name \notin {Unnamed, flow.backend} THEN Learned(learns, c, n, name)
     ELSE [learns EXCEPT !.out = Append(@, Datagram(c, n, flow.backend))]

\* on_client: a datagram with the player's name, or without.  A client names itself
\* to the backend that has answered, so from its second datagram on.
OnClient(c, named) ==
  LET n == rtSent[c] + 1
      name == IF named THEN HomeOf[c] ELSE Unnamed
      r == WithFlow(router, c)
  IN /\ rtDue = {} /\ n <= rtScene.datagrams /\ router.count < rtScene.flows
     /\ named => HomeOf[c] # Unnamed
     /\ rtSent' = [rtSent EXCEPT ![c] = n]
     /\ router' = IF r.flows[c].backend = Unnamed THEN Hold(r, c, n, name) ELSE Watch(r, c, n, name)
     /\ UNCHANGED <<rtFile, rtDue, rtScene, rtSwitches>>

\* flush_held, after any datagrams: the holds whose time is up, one after the other
\* and as they were, whether or not an earlier one dropped them.
Undecided == {[client |-> c, flow |-> router.flows[c]] :
                c \in {d \in Clients : router.flows[d] # Absent /\ router.flows[d].backend = Unnamed}}
FlushHeld ==
  /\ rtDue = {} /\ rtDue' \in SUBSET Undecided
  /\ UNCHANGED <<rtFile, router, rtSent, rtScene, rtSwitches>>
FlushNext ==
  \E d \in rtDue :
    /\ \A e \in rtDue : d.flow.no <= e.flow.no
    /\ router' = LET t == Resolved(router) IN Decide(t, d.client, d.flow, t.target, <<>>)
    /\ rtDue' = rtDue \ {d}
    /\ UNCHANGED <<rtFile, rtSent, rtScene, rtSwitches>>
RtReap(c) ==
  /\ rtDue = {} /\ router.flows[c] # Absent /\ router' = Drop(router, c)
  /\ UNCHANGED <<rtFile, rtSent, rtDue, rtScene, rtSwitches>>
SwitchTarget ==
  /\ rtSwitches < rtScene.switches /\ rtSwitches' = rtSwitches + 1
  /\ rtFile' \in RtBackends \ {rtFile}
  /\ UNCHANGED <<router, rtSent, rtDue, rtScene>>

RtNext ==
  \/ \E c \in Clients : RtReap(c) \/ \E named \in BOOLEAN : OnClient(c, named)
  \/ FlushHeld \/ FlushNext \/ SwitchTarget
RtSpec == RtInit /\ [][RtNext]_rtVars
-----------------------------------------------------------------------------
\* Every socket the selector watches belongs to a flow of the table, else its
\* backend's answers are never read ("Ziel ... VOR dem Anlegen des neuen Flows:
\* sonst raeumt resolve_target() den gerade erzeugten Flow mit weg",
\* rbrouter.py:353-354).
NoLostSocket ==
  \A s \in router.socks : router.flows[s.client] # Absent /\ router.flows[s.client].no = s.no
\* It holds while no flow is held over a switch of the target.
NoLostSocketUnheld == ~(rtScene.hold /\ rtScene.drop) => NoLostSocket

\* The backends get a client's datagrams in the order sent, none twice, and those
\* of one flow all on one backend (rbrouter.py:423-432).
InOrder ==
  \A i, j \in DOMAIN router.out : i < j /\ router.out[i].from = router.out[j].from => router.out[i].n < router.out[j].n

\* A running flow is never moved to another backend: its session is with the old one.
FlowsStay ==
  [][\A c \in Clients :
       /\ router.flows[c] # Absent /\ router'.flows[c] # Absent
       /\ router.flows[c].no = router'.flows[c].no /\ router.flows[c].backend # Unnamed
       => router'.flows[c].backend = router.flows[c].backend]_rtVars

\* A name leads home: a client alone behind its ip whose name a flow of its has
\* carried once is on its own backend whenever it has a flow later.
NameLeadsHome ==
  \A c \in Clients :
    /\ HomeOf[c] # Unnamed /\ (\A d \in Clients \ {c} : Ip(d) # Ip(c))
    /\ router.learned[Ip(c)] # Unnamed /\ router.flows[c] # Absent
    => router.flows[c].backend = HomeOf[c]

\* Datagrams arrive in order at the backend of the player's name, and without holds
\* no socket is lost.
DatagramsLeadHome == InOrder /\ NameLeadsHome /\ NoLostSocketUnheld
=============================================================================
