----------------------------- MODULE FrameChannel -----------------------------
(***************************************************************************)
(* What an event stream promises: a first-in first-out channel of frames   *)
(* that may be cut, which loses what is in flight and nothing else.        *)
(***************************************************************************)
EXTENDS Naturals, Sequences

CONSTANT Frames

VARIABLES inFlight, emitted

Init == inFlight = <<>> /\ emitted = <<>>

Send == \E f \in Frames : inFlight' = Append(inFlight, f) /\ UNCHANGED emitted

Deliver ==
  \E n \in 1..Len(inFlight) :
    /\ emitted' = emitted \o SubSeq(inFlight, 1, n)
    /\ inFlight' = SubSeq(inFlight, n + 1, Len(inFlight))

\* The stream breaks, and may be replaced by one that starts with a greeting.
Cut ==
  /\ inFlight' \in {<<>>} \cup {<<f>> : f \in Frames}
  /\ UNCHANGED emitted

Next == Send \/ Deliver \/ Cut

Spec == Init /\ [][Next]_<<inFlight, emitted>>

=============================================================================
