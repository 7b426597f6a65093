------------------------------ MODULE MCCrawler -------------------------------
(***************************************************************************)
(* Crawler for TLC: every site of a home page, two pages and a script on   *)
(* one host, the pages naming any of them, the script naming one page and  *)
(* a URL elsewhere; a second seed repeats the first.                       *)
(***************************************************************************)
EXTENDS Crawler

CONSTANTS home, a, b, js, away

HomeTwice == <<home, home>>
OnHost    == {home, a, b, js}

AllSites ==
  {[u \in Urls |-> CASE u = home -> H [] u = a -> A [] u = b -> B
                     [] u = js -> {b, away} [] OTHER -> {}] :
     H \in SUBSET {a, b, js}, A \in SUBSET OnHost, B \in SUBSET {home, a, away}}
=============================================================================
