----------------------------- MODULE MCReporter -----------------------------
(* The consoles and the fields Reporter is checked with.                     *)
EXTENDS Reporter

Console1(tty, verbose, override) == [tty |-> tty, verbose |-> verbose, override |-> override]

\* A terminal, the same with -V, one with an override, and a pipe.
MCConsoles ==
  {Console1(TRUE, FALSE, 0), Console1(TRUE, TRUE, 0), Console1(TRUE, FALSE, 100),
   Console1(FALSE, FALSE, 0)}

Lengths(rate, height, count, diff) ==
  [rate |-> rate, avg |-> rate, height |-> height, accepted |-> count, blocks |-> count,
   rejected |-> count, diff |-> diff, time |-> 8]

\* The first fields, and those of a long session.
MCFields == {Lengths(4, 7, 1, 4), Lengths(6, 9, 5, 5)}

\* A tick on time, and a late one in which nothing was hashed.
MCAdvances == {<<1, 1>>, <<2, 0>>}
=============================================================================
