------------------------------- MODULE MCTokens -------------------------------
(* Tokens with a unit of time of 2.5 s: 5 s are 2, 15 s are 6.             *)
EXTENDS Tokens

\* Around a margin, a few of them, long enough for failed logins, and for ever.
MCLives == (3 .. 24) \cup {36, 120, Never}
===============================================================================
