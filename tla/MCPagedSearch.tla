----------------------------- MODULE MCPagedSearch -----------------------------
(* Pages of two results. Rankings that share URLs, one under two of its tracking *)
(* parameters; and every engine alone, in every kind of search it has.           *)
EXTENDS PagedSearch

U(k) == <<k, 0>>
MCRanking ==
  [e \in Engines |->
     CASE e = "google" -> <<U(1), U(2), <<1, 1>>, U(4), U(5)>>
       [] e = "bing" -> <<U(3), U(1), U(2), U(4)>>
       [] e = "baidu" -> <<U(1), U(2), U(3)>>
       [] e = "ecosia" -> <<U(5), U(4), U(3), U(2), U(1)>>
       [] OTHER -> <<U(1), U(2), U(3), U(4), U(5)>>]
MCAnswered == <<U(3), U(6)>>

Client(es, k, l, s, d) == [engines |-> es, kind |-> k, limit |-> l, start |-> s, dedupe |-> d]
MCClients ==
  {Client({e}, "web", l, s, FALSE) : e \in Engines, l \in 0 .. 4, s \in -1 .. 3}
  \cup {Client({e}, "raw", l, s, FALSE) : e \in {"google", "yandex", "ecosia", "baidu"}, l \in 1 .. 4, s \in 0 .. 3}
  \cup {Client({e}, "image", l, 0, FALSE) : e \in Engines, l \in 1 .. 4}
  \cup {Client(es, "web", l, s, d) : es \in {{"google", "bing"}, {"google", "bing", "ecosia"}, {"baidu", "yandex"}},
                                     l \in {1, 2, 4}, s \in {0, 1, 2}, d \in BOOLEAN}
=============================================================================
