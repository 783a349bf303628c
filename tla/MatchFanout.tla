---------------------------- MODULE MatchFanout -----------------------------
(***************************************************************************)
(* What POST /go, /pause and /resume and the second POST /ready do around  *)
(* the match state (tournament/src/api.rs): after the lock section they    *)
(* tell both worlds' bridges, world A first, one request after the other,  *)
(* each waiting for its answer or a timeout.  Handlers run concurrently    *)
(* and nothing orders the fan-outs of two of them.  A call is a handler    *)
(* past its lock section with the requests it has yet to send.  A handler  *)
(* that is dropped because its client went away is one whose remaining     *)
(* requests are lost.                                                      *)
(***************************************************************************)
EXTENDS MatchCount, Sequences

CONSTANTS
  Fanouts,       \* concurrent handlers with a fan-out
  OneOperator,   \* the operator's fan-outs do not overlap
  GoLosses       \* a request may fail to reach its bridge

VARIABLES
  fanout,        \* fanout[c]: the requests call c has yet to send
  frozen,        \* frozen[w]: the world's DOM is suspended
  started        \* started[w]: the world was told to start this match

fanoutVars == <<vars, fanout, frozen, started, match>>

FanoutInit ==
  /\ Init
  /\ fanout = [c \in Fanouts |-> <<>>]
  /\ frozen = AllWorlds(FALSE) /\ started = AllWorlds(FALSE)
  /\ match = 0

\* A start of a match; what was told to the worlds before was for another one.
CountStart ==
  /\ CountMatch
  /\ started' = IF StartsMatch THEN AllWorlds(FALSE) ELSE started

Request(w, r) == [to |-> w, route |-> r, match |-> match']

\* World A's requests, then world B's.
FanOut(routes) ==
  [i \in 1 .. Len(routes) |-> Request("A", routes[i])] \o
  [i \in 1 .. Len(routes) |-> Request("B", routes[i])]

GoRoutes == <<"resume_game", "start">>

InFlight(routes) ==
  \E c \in Fanouts : \E i \in 1 .. Len(fanout[c]) : fanout[c][i].route \in routes

\* A new call c with its fan-out.  The operator waits for an answer before the
\* next request; the GO of a second ready is spawned and waits for nobody.
Begin(c, routes) ==
  /\ fanout[c] = <<>>
  /\ CountStart
  /\ fanout' = [fanout EXCEPT ![c] = FanOut(routes)]
  /\ UNCHANGED frozen

OperatorFree == OneOperator => ~InFlight({"pause_dom", "resume_dom"})

\* Every request without a fan-out.
NoFanout ==
  /\ \/ \E w \in Worlds, p \in Players, m \in MatchIds \union {None} : LobbyRegister(w, p, m)
     \/ \E w \in Worlds : Ready(w) /\ phase' # "running"
     \/ \E p \in Players : StartSp(p)
     \/ Rematch
     \/ \E w \in Worlds, level \in BOOLEAN : RouteSend(w, level)
     \/ \E w \in Worlds : WaveStart(w)
     \/ \E w \in Worlds, hp \in 0 .. HqStart + 1 : ReportHq(w, hp)
  /\ CountStart
  /\ UNCHANGED <<fanout, frozen>>

\* The second ready starts the match and spawns the GO fan-out (bug: it starts
\* the match alone).
AutoGoSilent(c) ==
  /\ \E w \in Worlds : Ready(w) /\ phase' = "running"
  /\ CountStart
  /\ UNCHANGED <<fanout, frozen>>
AutoGoCall(c) ==
  /\ \E w \in Worlds : Ready(w) /\ phase' = "running"
  /\ Begin(c, GoRoutes)

\* POST /go starts the match; with retry it repeats the fan-out for one.
GoCall(c) ==
  /\ Go \/ (Running /\ UNCHANGED vars)
  /\ Begin(c, GoRoutes)

\* POST /pause and POST /resume fan out when they changed the state, and on
\* retry.
PauseCall(c) ==
  /\ OperatorFree
  /\ Pause \/ (Running /\ paused /\ UNCHANGED vars)
  /\ Begin(c, <<"pause_dom">>)

ResumeCall(c) ==
  /\ OperatorFree
  /\ Resume \/ (Running /\ ~paused /\ UNCHANGED vars)
  /\ Begin(c, <<"resume_dom">>)

\* What a request does to the world it reaches.
Arrives(r) ==
  /\ frozen' = [frozen EXCEPT ![r.to] =
                  IF r.route = "pause_dom" THEN TRUE
                  ELSE IF r.route = "resume_dom" THEN FALSE ELSE @]
  /\ started' = [started EXCEPT ![r.to] = @ \/ (r.route = "start" /\ r.match = match)]

\* The next request of a call; no outcome stops the requests after it.
SendNext(c) ==
  /\ fanout[c] # <<>>
  /\ fanout' = [fanout EXCEPT ![c] = Tail(@)]
  /\ \/ Arrives(Head(fanout[c]))
     \/ GoLosses /\ UNCHANGED <<frozen, started>>
  /\ UNCHANGED <<vars, match>>

FanoutNext ==
  \/ NoFanout
  \/ \E c \in Fanouts : AutoGoCall(c) \/ GoCall(c) \/ PauseCall(c) \/ ResumeCall(c) \/ SendNext(c)

\* A handler goes on: every await ends with an answer or with go_timeout.
FanoutSpec ==
  FanoutInit /\ [][FanoutNext]_fanoutVars /\ \A c \in Fanouts : WF_fanoutVars(SendNext(c))

-----------------------------------------------------------------------------
(* Properties.                                                             *)

Settled == ~InFlight({"pause_dom", "resume_dom"})

\* While a match is paused both worlds stand still, once the fan-out is through
\* ("paused is the new match-wide state", #997).  One operator's requests keep
\* to that across GO's fan-outs, retries and matches that end in a pause;
\* requests that overlap do not.
PausedMeansFrozen ==
  Running /\ paused /\ Settled => \A w \in Worlds : frozen[w]

\* A duel that GO or the ready check started is started in both worlds, or over.
DuelStartsBothWorlds ==
  \A m \in 1 .. MaxMatches :
    (match = m /\ Running /\ mode = "duel") ~> (match # m \/ \A w \in Worlds : started[w])
=============================================================================
