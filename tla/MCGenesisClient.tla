-------------------------- MODULE MCGenesisClient --------------------------
(* Three threads at one host: t1 and t2 are of one process with lock        *)
(* directories of their own, t3 is of another process and shares t1's.      *)
EXTENDS GenesisClient, TLC

CONSTANTS t1, t2, t3, p1, p2, dir1, dir2

MCProcOf == (t1 :> p1) @@ (t2 :> p1) @@ (t3 :> p2)
MCQueueDirOf == [t \in Threads |-> dir1]
MCDirOf == (t1 :> dir1) @@ (t2 :> dir2) @@ (t3 :> dir1)
MCHostOf == [t \in Threads |-> [name |-> "genesis", base_url |-> "online"]]
=============================================================================
