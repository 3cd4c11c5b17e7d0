-------------------------- MODULE MCKioskControl --------------------------
(* KioskControl on small instances: of the documents the odd ones assert kiosk.   *)
EXTENDS KioskControl

OddDocs == {d \in Docs : d % 2 = 1}
===========================================================================
