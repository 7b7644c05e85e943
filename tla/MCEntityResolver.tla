--------------------------- MODULE MCEntityResolver ---------------------------
(* An instance of EntityResolver for TLC: fifteen leads that between them  *)
(* give every signal each of its outcomes.                                  *)
EXTENDS EntityResolver

CONSTANTS here, door, near, far   \* places: here and door share a doorstep

MCMetres ==
  [s \in {{p, q} : p, q \in {here, door, near, far}} |->
     CASE Cardinality(s) = 1 -> 0 [] s = {here, door} -> 150
       [] s \in {{here, near}, {door, near}} -> 1500 [] OTHER -> 350000]

Site(h)           == [host |-> h, www |-> FALSE, path |-> None, secure |-> TRUE]
Page(h, www, who) == [host |-> h, www |-> www, path |-> who, secure |-> FALSE]

Bahdja  == <<"b", "a", "h", "j", "a">>
Bahdia  == <<"b", "a", "h", "i", "a">>
Atlas   == <<"a", "t", "l", "a", "s">>

Shop  == [words |-> <<"patisserie", "elbahdja">>, readable |-> TRUE]
Label == [words |-> <<"patisserie", "elbahdja", "sarl">>, readable |-> FALSE]
Short == [words |-> <<"elbahdja">>, readable |-> FALSE]
Other == [words |-> <<"patisserie", "benslimane">>, readable |-> TRUE]
Form  == [words |-> <<"sarl">>, readable |-> TRUE]

Main == [words |-> {"didouche", "mourad"}, brief |-> FALSE]
Port == [words |-> {"soummam", "bastion"}, brief |-> FALSE]
Tiny == [words |-> {"oran"}, brief |-> TRUE]

Mobile(p, n) == [prefix |-> p, number |-> n]
Valid(n)     == [prefix |-> "213", number |-> n, mobile |-> n \notin Landline]

Plain(name, when) ==
  [name |-> name, industry |-> {}, wilaya |-> None, address |-> None, website |-> None,
   details |-> {}, phone |-> None, email |-> None, links |-> <<>>, profile |-> None,
   place |-> None, age |-> 4, source |-> "DUCKDUCKGO", updated |-> when]

MCStored == {
  [Plain(Shop, 1) EXCEPT !.phone = Mobile("0", "m1"), !.address = Main, !.wilaya = "alger",
                         !.industry = {"food"}],
  [Plain(Shop, 2) EXCEPT !.phone = Mobile("2130", "m1"), !.address = Port, !.wilaya = "oran",
                         !.website = Site("d1"), !.industry = {"food"}, !.place = here],
  [Plain(Short, 3) EXCEPT !.details = {Valid("m1")}, !.phone = Mobile("0", "m1"),
                          !.address = Port, !.place = here, !.age = 1],
  [Plain(Short, 4) EXCEPT !.place = here, !.address = Main],
  [Plain(Label, 5) EXCEPT !.place = door, !.address = Main, !.source = "OVERPASS"],
  [Plain(Shop, 6) EXCEPT !.website = Site("d1"), !.email = [user |-> "u", host |-> "d1"],
                         !.wilaya = "alger", !.industry = {"food"}, !.place = door],
  [Plain(Label, 7) EXCEPT !.website = Site("d1"), !.email = [user |-> "v", host |-> "d1"],
                          !.wilaya = "oran", !.place = far, !.industry = {"food", "retail"}],
  [Plain(Short, 8) EXCEPT !.profile = Page("facebook", FALSE, Bahdja), !.source = "SOCIAL"],
  [Plain(Other, 9) EXCEPT !.links = <<Page("facebook", FALSE, Bahdja), Site("d2")>>,
                          !.website = Site("d1"), !.address = Tiny],
  [Plain(Shop, 10) EXCEPT !.links = <<Page("instagram", FALSE, Bahdja)>>,
                          !.phone = Mobile("00213", "m1"), !.industry = {"retail"}],
  [Plain(Short, 11) EXCEPT !.links = <<Page("facebook", FALSE, Atlas),
                                       Page("facebook", FALSE, Bahdia)>>,
                           !.phone = Mobile("0", "l1"), !.website = Site("d2")],
  [Plain(Shop, 12) EXCEPT !.phone = Mobile("213", "l1"), !.place = near,
                          !.email = [user |-> "u", host |-> "mail"]],
  [Plain(Other, 13) EXCEPT !.details = {Valid("m1"), Valid("m2")}, !.phone = Mobile("213", "m2"),
                           !.email = [user |-> "u", host |-> "mail"], !.source = "MANUAL"],
  [Plain(Form, 14) EXCEPT !.phone = Mobile("213", "m2"), !.wilaya = "alger",
                          !.website = Page("facebook", TRUE, Atlas), !.industry = {"retail"}],
  [Plain(Shop, 15) EXCEPT !.phone = Mobile("0", "m3"), !.address = Port, !.wilaya = "oran",
                          !.links = <<Page("instagram", FALSE, Atlas),
                                       Page("tiktok", FALSE, Bahdja)>>,
                          !.website = Site("d3"), !.industry = {"food"}]}
=============================================================================
