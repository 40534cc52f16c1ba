---------------------------- MODULE MCThreadpool ----------------------------
(* Instances of Threadpool for TLC.                                        *)
EXTENDS Threadpool

MCJobs     == {"j1", "j2", "j3", "j4", "j5", "j6", "j7"}
NoChildren == [j \in MCJobs |-> NoJob]
\* j1 enqueues j3 and j2 enqueues j4: as many as there are workers, while
\* the three others and the stops fill the queue
Children   == [NoChildren EXCEPT !["j1"] = "j3", !["j2"] = "j4"]
=============================================================================
