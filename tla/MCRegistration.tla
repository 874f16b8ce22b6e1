---------------------------- MODULE MCRegistration ----------------------------
(* A small instance of Registration: the names of the seed script and a third. *)
EXTENDS Registration

CONSTANTS admin, dev, long, mail1, Mail1, mail2, h1, h2

MCHash == [m \in Mails |-> IF m = mail2 THEN h2 ELSE h1]

MCSeed == {[name |-> admin, hash |-> h1, role |-> "admin"],
           [name |-> dev, hash |-> h2, role |-> "developer"]}

=============================================================================
