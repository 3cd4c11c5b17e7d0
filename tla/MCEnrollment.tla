--------------------------- MODULE MCEnrollment ---------------------------
(* Enrollment on small instances: every device was shown the same token.           *)
EXTENDS Enrollment

SharedToken == [a \in Agents |-> CHOOSE t \in Tokens : TRUE]
===========================================================================
