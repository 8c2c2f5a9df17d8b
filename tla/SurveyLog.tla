------------------------------ MODULE SurveyLog ------------------------------
(***************************************************************************)
(* What the packet capture promises the analyst: a log of the last Max     *)
(* frames, each tagged at one instant with the survey that owns one of its *)
(* addresses.  Recording a frame is one step here.                         *)
(***************************************************************************)
EXTENDS Naturals, Sequences

CONSTANTS Max,       \* frames the log keeps
          Frames,    \* frames on the wire
          Addresses, \* socket addresses
          Surveys,   \* survey session ids
          Route,     \* for each frame the addresses to try, in order
          None       \* no survey

VARIABLES owner,  \* the survey each address belongs to
          log     \* the tagged frames, oldest first

logVars == <<owner, log>>

\* The survey of the first owned address on the frame's route.
OwnerOf(f) ==
  LET owned == {i \in 1..Len(Route[f]) : owner[Route[f][i]] # None}
  IN  IF owned = {} THEN None
      ELSE owner[Route[f][CHOOSE i \in owned : \A j \in owned : i <= j]]

Bounded(l, e) == IF Len(l) < Max THEN Append(l, e) ELSE Append(Tail(l), e)

LogInit == /\ owner = [a \in Addresses |-> None]
           /\ log = <<>>

Own(a, s) == /\ owner' = [owner EXCEPT ![a] = s]
             /\ UNCHANGED log

Record(f) == /\ log' = Bounded(log, [frame |-> f, survey |-> OwnerOf(f)])
             /\ UNCHANGED owner

\* A clear may miss the frame whose recording it overtakes, and no other.
Clear == /\ \/ log' = <<>>
            \/ log # <<>> /\ log' = <<log[Len(log)]>>
         /\ UNCHANGED owner

LogNext == \/ \E a \in Addresses, s \in Surveys : Own(a, s)
           \/ \E f \in Frames : Record(f)
           \/ Clear

LogSpec == LogInit /\ [][LogNext]_logVars
=============================================================================
