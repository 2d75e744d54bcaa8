------------------------------- MODULE MCCrawl -------------------------------
(* The crawler on its own, at a host with a page that is not to be crawled. *)
EXTENDS Crawl

mcRobotsFiles == { [available |-> TRUE, forbids |-> {"private"}, delay |-> -1],
                   [available |-> TRUE, forbids |-> {}, delay |-> 2] }
=============================================================================
