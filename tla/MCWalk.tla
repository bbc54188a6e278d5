------------------------------- MODULE MCWalk -------------------------------
(* ParallelWalk over one directory with a file and a link that leads back.  *)
EXTENDS ParallelWalk

Tree == [root |-> {"link", "file"}]
TreeLinks == [link |-> "root"]
RootPath == [root |-> <<>>]
=============================================================================
