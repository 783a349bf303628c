---------------------------- MODULE WaveIngress -----------------------------
(***************************************************************************)
(* What POST /report wave_start does around the match state (tournament/   *)
(* src/api.rs): it locks the world's wave under the state's lock, reads    *)
(* the reveal under a second lock, and then pushes the world's batches to  *)
(* its bridge, one request after the other, each waiting for an answer or  *)
(* a timeout.  Handlers run concurrently.  A call is such a handler past   *)
(* its first lock section.  When its client goes away a handler is dropped *)
(* at one of these points; its remaining pushes are then pushes that never *)
(* arrive.                                                                 *)
(***************************************************************************)
EXTENDS MatchCount, Sequences

CONSTANTS
  Calls,         \* concurrent handlers of wave starts
  OneReport,     \* a world's reporter awaits its answer (match_loop does)
  Losses         \* a push may fail to reach its bridge

VARIABLES
  calls,         \* the world whose reveal a call has yet to read, or the
                 \* batches it has yet to push
  got            \* got[w]: the waves pushed to world w, with their match

ingressVars == <<vars, calls, got, match>>

Idle == [reading |-> None, todo |-> {}]

IngressInit ==
  /\ Init
  /\ calls = [c \in Calls |-> Idle]
  /\ got = [w \in Worlds |-> <<>>]
  /\ match = 0

\* Every other request of the match state.
NoWaveStart ==
  /\ \/ \E w \in Worlds, p \in Players, m \in MatchIds \union {None} : LobbyRegister(w, p, m)
     \/ \E w \in Worlds : Ready(w)
     \/ Go
     \/ \E p \in Players : StartSp(p)
     \/ Rematch
     \/ \E w \in Worlds, level \in BOOLEAN : RouteSend(w, level)
     \/ \E w \in Worlds, hp \in 0 .. HqStart + 1 : ReportHq(w, hp)
     \/ Pause
     \/ Resume
  /\ CountMatch
  /\ UNCHANGED <<calls, got>>

Serves(c, w) ==
  \/ calls[c].reading = w
  \/ \E wave \in calls[c].todo : wave.to = w

\* The first lock section.  Only a report that locks goes on (bug: a duplicate,
\* too).
LocksOrRepeats(w) == WaveStart(w) \/ (Running /\ Locked(w) /\ UNCHANGED vars)
LocksWave(w) == WaveStart(w)

WaveStartCall(c, w) ==
  /\ calls[c] = Idle
  /\ OneReport => \A d \in Calls : ~Serves(d, w)
  /\ LocksWave(w)
  /\ CountMatch
  /\ calls' = [calls EXCEPT ![c].reading = w]
  /\ UNCHANGED got

\* What the second lock section finds for w; only batches with a level are pushed.
Incoming(w) == {b \in reveal.incoming[w] : b.level}

ReadReveal(c) ==
  LET w == calls[c].reading IN
  /\ w # None
  /\ calls' = [calls EXCEPT ![c] =
                 [reading |-> None, todo |-> {[to |-> w, batch |-> b, match |-> match] : b \in Incoming(w)}]]
  /\ UNCHANGED <<vars, got, match>>

\* The next push of a call, in the order the batches were queued; no outcome stops
\* the pushes after it.
PushNext(c) == \E wave \in calls[c].todo :
  /\ \A other \in calls[c].todo : wave.batch.id <= other.batch.id
  /\ calls' = [calls EXCEPT ![c].todo = @ \ {wave}]
  /\ \/ got' = [got EXCEPT ![wave.to] = Append(@, wave)]
     \/ Losses /\ UNCHANGED got
  /\ UNCHANGED <<vars, match>>

IngressNext ==
  \/ NoWaveStart
  \/ \E c \in Calls : (\E w \in Worlds : WaveStartCall(c, w)) \/ ReadReveal(c) \/ PushNext(c)

IngressSpec == IngressInit /\ [][IngressNext]_ingressVars

-----------------------------------------------------------------------------
(* Properties.                                                             *)

\* Waves reach a world in the order of the sends and none comes twice: the second
\* lock section of a wave start reads the reveal as it is then, which may not be
\* the one its own lock opened, but a world whose reporter waits for its answers
\* never gets the same batches again, or older ones after newer ones.
PushedInOrder ==
  \A w \in Worlds : \A i, j \in 1 .. Len(got[w]) :
    i < j /\ got[w][i].match = got[w][j].match =>
      got[w][i].batch.id < got[w][j].batch.id

\* A world receives the sends meant for it that a wave start drained for it in
\* this match, and only those with a level.
PushesAreDrained ==
  \A w \in Worlds : \A i \in 1 .. Len(got[w]) :
    LET wave == got[w][i] IN
    /\ wave.batch.to = w /\ wave.batch.level
    /\ wave.match = match /\ InMatch =>
         \E r \in 1 .. MaxRound : <<wave.batch, r>> \in revealed

\* What the comment on push_incoming_sends promises: every batch is delivered
\* exactly once.  Between the two lock sections of a wave start the other
\* world's next wave start may replace the reveal.
EveryDrainedWavePushed ==
  mode = "duel" /\ (\A c \in Calls : calls[c] = Idle) =>
    \A x \in revealed : x[1].level =>
      \E i \in 1 .. Len(got[x[1].to]) :
        got[x[1].to][i] = [to |-> x[1].to, batch |-> x[1], match |-> match]
=============================================================================
