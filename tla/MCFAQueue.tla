----------------------------- MODULE MCFAQueue -----------------------------
(***************************************************************************)
(* FAQueue for TLC: two producers that offer an element each again and     *)
(* again, three segments of two cells.  A producer can take the first      *)
(* segment as its start and find the consumer in the third one later, both *)
(* can race for the place of the second and of the third segment, and the  *)
(* consumer meets a segment that is not linked yet.  Five addresses are    *)
(* enough for the list and a loser at either place.  One producer has its  *)
(* hazard pointers already, the other allocates them in the race.          *)
(***************************************************************************)
EXTENDS FAQueue, TLC

CONSTANTS c, p1, p2, a, b, s1, s2, s3, s4, s5

MCThreads == {c, p1, p2}
MCNodes == {s1, s2, s3, s4, s5}
MCData == {a, b}
MCOffer == c :> {} @@ p1 :> {a} @@ p2 :> {b}
MCRegistered == << c, p2 >>
MCSegSize == 2
MCMaxTail == 5
MCScanFactor == 1
=============================================================================
