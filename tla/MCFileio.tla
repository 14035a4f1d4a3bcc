------------------------------ MODULE MCFileio ------------------------------
(***************************************************************************)
(* The two halves of sbp_fileio_daemon for TLC: the queue between its two  *)
(* threads and the cache of open files; `part' says which one a behaviour  *)
(* is about, and the variables of the other keep one value.                *)
(***************************************************************************)
EXTENDS FileioQueue, FileioCache

VARIABLE part

mc_vars == <<part, vars, cacheVars>>

NoQueue == Init /\ disable_threading = (CHOOSE b \in ThreadingOptions : TRUE)
NoCache == CacheInit /\ io.no_cache = (CHOOSE b \in CacheOptions : TRUE)

MCInit ==
  /\ part \in {"queue", "cache"}
  /\ IF part = "queue" THEN Init ELSE NoQueue
  /\ IF part = "cache" THEN CacheInit ELSE NoCache

MCNext ==
  \/ part = "queue" /\ Next /\ UNCHANGED <<part, cacheVars>>
  \/ part = "cache" /\ CacheNext /\ UNCHANGED <<part, vars>>

\* Both threads are scheduled; requests and signals need not come.
MCSpec ==
  /\ MCInit /\ [][MCNext]_mc_vars
  /\ WF_vars(part = "queue" /\ MainStep) /\ WF_vars(part = "queue" /\ WriterStep)
=============================================================================
