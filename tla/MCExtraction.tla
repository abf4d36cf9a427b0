---------------------------- MODULE MCExtraction ----------------------------
(***************************************************************************)
(* Extraction for TLC: two devices of which one's name begins with the     *)
(* other's, and the pages an adapter meets: entries that are right, each   *)
(* of their possible defects, and what no test page has.                   *)
(***************************************************************************)
EXTENDS Extraction

Marker(words, letters, color) == [words |-> words, letters |-> letters, color |-> color]

MCCatalogue == <<
    [device |-> "galaxy_s25", brand |-> "samsung", brandLetters |-> 7,
     name |-> <<"galaxy", "s25">>, letters |-> 10,
     colors |-> << Marker(<<"azul">>, 4, "Azul"), Marker(<<"azul", "claro">>, 10, "Azul-Claro") >>],
    [device |-> "galaxy_s25_ultra", brand |-> "samsung", brandLetters |-> 7,
     name |-> <<"galaxy", "s25", "ultra">>, letters |-> 16,
     colors |-> << Marker(<<"titanio", "azul">>, 12, "Titanio-Azul"),
                   Marker(<<"titanio", "cinza">>, 13, "Titanio-Cinza") >>] >>

MCModelAliases == [galaxy_s25_ultra |->
    << Marker(<<"azul">>, 4, "Titanio-Azul"), Marker(<<"cinza">>, 5, "Titanio-Cinza") >>]

MCCapacityOf == [word \in {"256gb", "1tb"} |-> IF word = "256gb" THEN "256" ELSE "1024"]
MCTerabytes == {"1tb"}

Sells(d, s, c) == [device |-> d, storage |-> s, color |-> c]
S25 == Sells("galaxy_s25", "256", "Azul-Claro")
Ultra == Sells("galaxy_s25_ultra", "1024", "Titanio-Azul")
UltraGrey == Sells("galaxy_s25_ultra", "256", "Titanio-Cinza")

NameS25 == <<"samsung", "galaxy", "s25">>
NameUltra == <<"galaxy", "s25", "ultra">>

Good == [object |-> TRUE, title |-> NameUltra \o <<"1tb", "azul">>, color |-> <<>>,
         description |-> <<>>, id |-> TRUE, seller |-> TRUE, price |-> 50000, offer |-> TRUE,
         stock |-> "in", condition |-> "new", terms |-> {"pix"}, own |-> TRUE, cart |-> FALSE,
         availability |-> <<"em estoque">>, freight |-> "unknown", sells |-> Ultra]
Small == [Good EXCEPT !.title = NameS25 \o <<"256gb", "azul", "claro">>, !.sells = S25]
Grey == [Good EXCEPT !.title = NameUltra \o <<"256gb", "titanio", "cinza">>, !.sells = UltraGrey]

(* Each defect an entry may have on its own. *)
Defects(e) ==
    {[e EXCEPT !.object = FALSE], [e EXCEPT !.title = SubSeq(@, 1, 3)], [e EXCEPT !.title = <<"capa", "azul">>],
     [e EXCEPT !.id = FALSE], [e EXCEPT !.seller = FALSE], [e EXCEPT !.offer = FALSE],
     [e EXCEPT !.price = 0], [e EXCEPT !.price = Absent], [e EXCEPT !.price = NotANumber],
     [e EXCEPT !.stock = "unknown"], [e EXCEPT !.own = FALSE], [e EXCEPT !.freight = "zero"],
     [e EXCEPT !.terms = {"pix", "conditional"}], [e EXCEPT !.terms = {"conditional"}]}

Page(name, entries) == [name |-> name, listed |-> TRUE, id |-> TRUE, entries |-> entries]
Broken(name) == [Page(name, <<>>) EXCEPT !.listed = FALSE]

UpTo3(S) == {<<>>} \cup {<<a>> : a \in S} \cup {<<a, b>> : a, b \in S} \cup {<<a, b, c>> : a, b, c \in S}

PagesOf(name, E) == {Page(name, s) : s \in UpTo3(E)} \cup {Broken(name), Page(<<"capa">>, <<Good>>)}

(* Zoom's offers are those of the device of the page. *)
ZoomPages == PagesOf(NameUltra, {Good, Grey} \cup (Defects(Good) \ {[Good EXCEPT !.own = FALSE],
                 [Good EXCEPT !.freight = "zero"], [Good EXCEPT !.terms = {"pix", "conditional"}],
                 [Good EXCEPT !.terms = {"conditional"}]}))
BuscapePages == PagesOf(<<>>, {Good, Small} \cup (Defects(Good) \ {[Good EXCEPT !.own = FALSE],
                 [Good EXCEPT !.freight = "zero"], [Good EXCEPT !.terms = {"pix", "conditional"}],
                 [Good EXCEPT !.terms = {"conditional"}]}))
TwoAFinderPages == PagesOf(Good.title, {Good, [Good EXCEPT !.seller = FALSE], [Good EXCEPT !.price = 0],
                                        [Good EXCEPT !.freight = "zero"]})
VariantPages == PagesOf(<<>>, {Good, Grey, [Good EXCEPT !.title = NameUltra], [Good EXCEPT !.id = FALSE],
                               [Good EXCEPT !.own = FALSE], [Good EXCEPT !.price = 0],
                               [Good EXCEPT !.terms = {"pix", "conditional"}], [Good EXCEPT !.offer = FALSE]})
Colored(e, title, color) == [e EXCEPT !.title = title, !.color = color]
SamsungPages == PagesOf(<<>>, {Colored(Good, NameUltra \o <<"1tb">>, <<"titanio", "azul">>), Good,
                               Colored(Grey, NameUltra \o <<"256gb">>, <<"cinza">>),
                               Colored(Good, NameUltra, <<>>),
                               [Colored(Good, NameUltra \o <<"1tb">>, <<"titanio", "azul">>) EXCEPT !.own = FALSE],
                               [Colored(Good, NameUltra \o <<"1tb">>, <<"titanio", "azul">>) EXCEPT !.offer = FALSE]})
ShopPages == {Page(<<>>, <<>>)} \cup {Page(<<>>, <<e>>) : e \in {Good, Small, Grey} \cup Defects(Small)}
Described == {Page(<<>>, <<[e EXCEPT !.description = d]>>) :
                 e \in {Good, Grey, Small}, d \in {<<>>, <<"cabo", "de", "carga">>}}
AmericanasPages == {[p EXCEPT !.name = Small.title, !.entries = [i \in DOMAIN p.entries |-> [p.entries[i] EXCEPT !.sells = S25]]] :
                       p \in PagesOf(<<>>, {Good, [Good EXCEPT !.stock = "out"], [Good EXCEPT !.seller = FALSE],
                                            [Good EXCEPT !.price = 0]})}
                   \cup {[Page(Small.title, <<Small>>) EXCEPT !.id = FALSE], Page(<<"capa">>, <<Small>>)}

MCPages == [a \in AllAdapters |->
    CASE a \in {"zoom", "bondfaro"} -> ZoomPages
      [] a = "buscape" -> BuscapePages
      [] a = "two_a_finder" -> TwoAFinderPages
      [] a = "iplace" -> VariantPages
      [] a = "samsung_shop" -> SamsungPages
      [] a = "americanas" -> AmericanasPages
      [] a \in {"fast_shop", "kabum"} -> ShopPages \cup Described
      [] OTHER -> ShopPages]

AllButBondfaro == AllAdapters \ {"bondfaro"}
=============================================================================
