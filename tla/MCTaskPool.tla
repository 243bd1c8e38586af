----------------------------- MODULE MCTaskPool -----------------------------
(* A small instance of TaskPool: two tasks besides the main thread, and two  *)
(* thread ids, so that the second task may get the first one's.              *)
EXTENDS TaskPool

CONSTANTS t1, t2, i1, i2

TwoTasks == {t1, t2}
TwoIds == {i1, i2}
=============================================================================
