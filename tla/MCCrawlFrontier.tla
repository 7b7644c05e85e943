--------------------------- MODULE MCCrawlFrontier ---------------------------
(* All rows are of one host, as bootstrap seeds them. *)
EXTENDS CrawlFrontier, TLC

MCDomainOf == [r \in 1..Rows |-> "ddg.dz"]

\* The workers run the same code.
WorkerSymmetry == Permutations(Worker)
=============================================================================
