------------------------------- MODULE MCMail -------------------------------
(* A small instance of Mail: two invitations, one of them too large, and an   *)
(* own mail past the milter, a letter over LMTP, an invitation by the pipe.   *)
EXTENDS Mail, TLC

CONSTANTS m1, big, own, piped, letter, k1, k2

MCRoute == [m \in Mails |-> CASE m = letter -> "lmtp" [] m = piped -> "pipe" [] OTHER -> "milter"]
MCChunks == [m \in Mails |-> IF m = big THEN 3 ELSE 1]
=============================================================================
