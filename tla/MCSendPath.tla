----------------------------- MODULE MCSendPath -----------------------------
EXTENDS SendPath

\* Orders with the rounds they fall into; the log; the signals; the gate.
SomeDeployments == {
  {"order", "start", "reset"}, {"order", "round"}, {"order", "start", "restart"},
  {"order", "torn", "cut"}, {"order", "cut"},
  {"start", "reset", "round", "local"}, {"gate", "local"}, {"gate", "round"}, {"gate", "reset"}}
TornDeployments == {{"order", "torn"}}
Epochs == [start |-> 2, reset |-> 1, round |-> 2]
TheLines == 1 .. MaxLine
=============================================================================
