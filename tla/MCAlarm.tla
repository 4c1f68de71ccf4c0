------------------------------- MODULE MCAlarm -------------------------------
EXTENDS Alarm

MCVals == {0, -1}

\* An invalid argument, sigalarm(0, 0), and intervals a program can cut short.
MCIntervals == {-1, 0, 1, 3}
=============================================================================
