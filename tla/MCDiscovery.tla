---------------------------- MODULE MCDiscovery ----------------------------
(***************************************************************************)
(* Discovery for TLC: four pages of three shops, some under several urls,  *)
(* and one address that is not public.                                     *)
(***************************************************************************)
EXTENDS Discovery

Url(host, path) ==
    [scheme |-> "https", user |-> FALSE, host |-> host, dot |-> FALSE, upper |-> FALSE,
     path |-> path, slash |-> FALSE, params |-> {}]

Apple == <<"apple", "com">>
WwwApple == <<"www", "apple", "com">>
Kabum == <<"kabum", "com", "br">>
Pineapple == <<"pineapple", "com">>
Localhost == <<"localhost">>

A == Url(WwwApple, "iphone")
ATracked == [A EXCEPT !.params = {<<"utm_source", "brave">>}, !.slash = TRUE]
AColor == [A EXCEPT !.params = {<<"cor", "preto">>}]
P == Url(Pineapple, "iphone")
K == Url(Kabum, "iphone")
MCEntered == {ATracked, Url(Localhost, "iphone")}
MCAnswers == {<<P, A, ATracked, Url(WwwApple, "mac"), AColor>>, <<K, [A EXCEPT !.user = TRUE], ATracked>>}
MCUrls == MCEntered \cup UNION {{answer[i] : i \in DOMAIN answer} : answer \in MCAnswers}
MCPrivate == {Localhost}
MCTrusted == {Apple}
MCKnown == {Kabum}
MCNoise == {"utm_source"}
=============================================================================
