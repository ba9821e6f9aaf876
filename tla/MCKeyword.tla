----------------------------- MODULE MCKeyword -----------------------------
(* Instances of Keyword for TLC. *)
EXTENDS Keyword

CONSTANTS t1, t2

\* Lines written in parts, truncation, stops, crashes and restarts.
Rough == [fromBegin |-> FALSE, writes |-> {1, 2}, truncate |-> TRUE,
          maxSize |-> 4, maxLives |-> 3]

\* Whole lines, read from the beginning by one process.
Plain == [fromBegin |-> TRUE, writes |-> {2}, truncate |-> FALSE,
          maxSize |-> 6, maxLives |-> 1]

\* Whole lines, read by one process after another.
Resumed == [fromBegin |-> FALSE, writes |-> {2}, truncate |-> FALSE,
            maxSize |-> 6, maxLives |-> 2]

RoughAndPlain == {Rough, Plain}
OnlyResumed == {Resumed}
=============================================================================
