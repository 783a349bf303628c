---------------------------- MODULE WaveExchange ----------------------------
(***************************************************************************)
(* What the referee promises two worlds that exchange sends, without       *)
(* rounds, stamps or reveals: each world starts wave after wave, neither   *)
(* gets a second wave ahead of the other, and a wave takes along every     *)
(* send that was posted to its world before it started.  RefereeMatch      *)
(* implements it.                                                          *)
(***************************************************************************)
EXTENDS Integers

CONSTANTS Worlds, Sends

VARIABLES
  waves,     \* waves[w]: waves world w has started in this match
  waiting,   \* waiting[w]: sends posted to w that no wave has taken yet
  taken      \* taken[w]: <<send, number of the wave that took it>>

avars == <<waves, waiting, taken>>

Empty == [w \in Worlds |-> {}]

Init ==
  /\ waves = [w \in Worlds |-> 0]
  /\ waiting = Empty
  /\ taken = Empty

Known(s) == \E w \in Worlds : s \in waiting[w] \/ \E x \in taken[w] : x[1] = s

\* New sends are posted; the solo mode posts to both worlds at once.
Post ==
  /\ waiting' \in [Worlds -> SUBSET Sends]
  /\ \A w \in Worlds : waiting[w] \subseteq waiting'[w]
  /\ \A w \in Worlds : \A s \in waiting'[w] \ waiting[w] : ~Known(s)
  /\ UNCHANGED <<waves, taken>>

\* The worlds of W, none of them ahead of the other, start their next wave.
StartWaves(W) ==
  /\ W # {}
  /\ \A w \in W, v \in Worlds : waves[w] <= waves[v]
  /\ waves' = [w \in Worlds |-> IF w \in W THEN waves[w] + 1 ELSE waves[w]]
  /\ waiting' = [w \in Worlds |-> IF w \in W THEN {} ELSE waiting[w]]
  /\ taken' = [w \in Worlds |->
                 IF w \in W
                 THEN taken[w] \union {<<s, waves[w] + 1>> : s \in waiting[w]}
                 ELSE taken[w]]

\* A match starts, or the state is reset: nothing is carried over.
NewMatch == waves' = [w \in Worlds |-> 0] /\ waiting' = Empty /\ taken' = Empty

Next == Post \/ (\E W \in SUBSET Worlds : StartWaves(W)) \/ NewMatch

Spec == Init /\ [][Next]_avars
=============================================================================
