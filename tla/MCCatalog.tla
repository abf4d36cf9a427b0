----------------------------- MODULE MCCatalog -----------------------------
(***************************************************************************)
(* Catalog for TLC: a registry of two devices and its next version, and    *)
(* requests that meet each other and the seed in every index.              *)
(***************************************************************************)
EXTENDS Catalog

CONSTANTS c1, c2, s1

Words == {"brand", "model", "region", "br", "storage_gb", "color", "256", "preto", "azul",
          "apple", "samsung", "iphone_17", "galaxy_s25", "nimbus"}
Capitals == [Apple |-> "apple", Samsung |-> "samsung", Color |-> "color", Preto |-> "preto",
             Nimbus |-> "nimbus"]
MCLower ==
    [word \in Words \cup DOMAIN Capitals \cup {"iPhone 17", "IPHONE 17", "Galaxy S25", "Phone X", "Moto"} |->
        IF word \in DOMAIN Capitals THEN Capitals[word]
        ELSE IF word = "IPHONE 17" THEN "iPhone 17" ELSE word]

Device(name, brand, model, colors, gtins, identity) ==
    [name |-> name, brand |-> brand, model |-> model, storages |-> <<"256">>, colors |-> colors,
     pairs |-> <<>>, gtins |-> gtins, identity |-> identity]
Code(color, gtin) == [pair \in {<<"256", color>>} |-> gtin]
NoCode == [pair \in {} |-> NoGtin]

Shop(name, url, adapter, status) == [name |-> name, url |-> url, adapter |-> adapter, status |-> status]
Zoom == Shop("Zoom", "zoom/", "zoom", "enabled")
Apple == Shop("Apple", "apple/iphone", "catalog_reference", "candidate")

First == [products |-> <<Device("iPhone 17", "Apple", "iphone_17", <<"Preto">>, Code("Preto", "g1"), TRUE),
                         Device("Galaxy S25", "Samsung", "galaxy_s25", <<"Preto">>, NoCode, TRUE)>>,
          portfolio |-> <<Zoom, Shop("Lab", "lab-a/", "lab", "enabled"), Apple>>]
(* A code corrected, one found, and a shop that has moved. *)
Second == [products |-> <<Device("iPhone 17", "Apple", "iphone_17", <<"Preto">>, Code("Preto", "g2"), TRUE),
                          Device("Phone X", "Nimbus", "nimbus", <<"azul">>, Code("azul", "g1"), FALSE)>>,
           portfolio |-> <<Zoom, Shop("Lab", "lab-b/", "lab", "enabled"), Apple>>]
MCRegistries == <<First, Second>>
MCRoots == [zoom |-> "zoom/"]
MCInitialSources ==
    {{Shop("Zoom iPhone 17", "zoom/iphone-17", "zoom", "enabled"), Shop("Apple", "apple/", "catalog_reference", "enabled"),
          Shop("Zoom", "zoom/", "zoom", "disabled")}}

Color(word) == << <<"color", word>> >>
TwoColors == << <<"Color", "azul">>, <<"color", "preto">> >>
Nimbus == << <<"storage_gb", "256">>, <<"color", "azul">> >>
Curated(model, brand) == << <<"brand", brand>>, <<"model", model>>, <<"region", "br">>,
                            <<"storage_gb", "256">>, <<"color", "Preto">> >>
With(attributes, gtin) == [attributes |-> attributes, gtin |-> gtin]
Body(name, requested) == [local |-> TRUE, name |-> name, variants |-> requested]
MCBodies ==
    {Body("Moto", <<With(Color("preto"), "g1"), With(Color("azul"), "g2")>>),
     Body("IPHONE 17", <<With(Color("azul"), "g2"), With(Color("preto"), "g1")>>),
     Body("iPhone 17", <<With(Curated("iphone_17", "apple"), "g2")>>),
     Body("Galaxy S25", <<With(Curated("galaxy_s25", "samsung"), "g2"), With(Nimbus, NoGtin)>>),
     Body("Moto", <<With(TwoColors, NoGtin), With(Color("preto"), NoGtin)>>),
     [Body("Moto", <<With(Color("preto"), NoGtin), With(Color("Preto"), "g1")>>) EXCEPT !.local = FALSE],
     Body("Moto", <<With(Color("preto"), NoGtin), With(Color("Preto"), "g1")>>)}
=============================================================================
