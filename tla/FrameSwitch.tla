----------------------------- MODULE FrameSwitch -----------------------------
(***************************************************************************)
(* What an input-queued switch promises: the beats of each flow, from one  *)
(* input to one output, leave in the order they came in; every output      *)
(* sends whole frames, one at a time; nothing taken in is lost, sent twice *)
(* or invented.                                                            *)
(***************************************************************************)
EXTENDS FifoOps

CONSTANTS In, Out, MaxFrame, None

VARIABLES flow,     \* flow[j][i]: beats taken in at j for i, not yet sent
          open      \* open[i]: source and next position of the frame output i
                    \* is in the middle of, or None

Beat == [src : In, pos : 0 .. MaxFrame - 1, last : BOOLEAN]

Init == /\ flow = [j \in In |-> [i \in Out |-> <<>>]]
        /\ open = [i \in Out |-> None]

\* Output i may send the head of flow[j][i]: it starts a frame or continues
\* the one open.
MaySend(i, j) ==
    /\ flow[j][i] # <<>>
    /\ LET b == Head(flow[j][i])
       IN  IF open[i] = None THEN b.pos = 0
                             ELSE open[i] = [src |-> j, pos |-> b.pos]

Opened(i, j) == LET b == Head(flow[j][i])
                IN  IF b.last THEN None ELSE [src |-> j, pos |-> b.pos + 1]

\* In one clock cycle each output sends at most one beat, sent[i] being the
\* input it comes from, and each flow takes in at most one.
Step(sent) ==
    /\ \A i \in Out : sent[i] # None => MaySend(i, sent[i])
    /\ open' = [i \in Out |-> IF sent[i] = None THEN open[i] ELSE Opened(i, sent[i])]
    /\ \A j \in In, i \in Out :
          LET left == Rest(flow[j][i], sent[i] = j)
          IN  \/ flow'[j][i] = left
              \/ \E b \in Beat : b.src = j /\ flow'[j][i] = Append(left, b)

Reset == flow' = [j \in In |-> [i \in Out |-> <<>>]] /\ open' = [i \in Out |-> None]

Next == (\E sent \in [Out -> In \cup {None}] : Step(sent)) \/ Reset

Spec == Init /\ [][Next]_<<flow, open>>
=============================================================================
