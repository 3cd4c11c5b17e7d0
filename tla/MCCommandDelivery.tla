------------------------ MODULE MCCommandDelivery ------------------------
(* CommandDelivery on small instances: the first command needs a capability the  *)
(* device may or may not report, so that it can be passed by those behind it,    *)
(* which need none. Without capabilities no command is gated.                    *)
EXTENDS CommandDelivery, TLC

\* Only the first command is gated.
RequiresFirst == [id \in 1..MaxId |-> IF id = 1 /\ Caps # {} THEN CHOOSE c \in Caps : TRUE
                                      ELSE NoCap]

\* Exchanges are interchangeable.
ConnSymmetry == Permutations(Conns)
============================================================================
