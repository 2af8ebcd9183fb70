-------------------------- MODULE MCTaskExecutor --------------------------
(***************************************************************************)
(* Four tasks on two threads, one of which may die without a word.         *)
(***************************************************************************)
EXTENDS TaskExecutor

MCTaskList == <<"t1", "t2", "t3", "t4">>
=============================================================================
