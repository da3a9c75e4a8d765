-------------------------------- MODULE Asks --------------------------------
(* What a pure algorithm is asked, and what it makes of it: {} is nothing  *)
(* yet.                                                                    *)
VARIABLES ask, result
asked == <<ask, result>>
Answers(x) == result = {} /\ result' = {x} /\ UNCHANGED ask
=============================================================================
