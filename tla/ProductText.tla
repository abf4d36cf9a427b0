---------------------------- MODULE ProductText ----------------------------
(***************************************************************************)
(* What a piece of text says of a device: real_sources.py reads model,     *)
(* storage and colour out of the titles and descriptions of the retailers. *)
(*                                                                         *)
(* A text is the sequence of words _fold_text leaves (no case, accents or  *)
(* punctuation, "+" read as the word plus).  A marker is a name looked for *)
(* in a text, with the number of its letters, by which the code orders     *)
(* markers.  Each reading is a set: empty where the code raises            *)
(* ExtractionError, a singleton where it returns.                          *)
(***************************************************************************)
EXTENDS Integers, Sequences

CONSTANTS
    Catalogue,      \* the market products in registry order:
                    \* [device, brand, brandLetters, name, letters, colors]
    ModelAliases,   \* device -> further colour markers, in the table's order
    CapacityOf,     \* the words that state a storage -> the storage
    Terabytes       \* those of them that state it in TB

Devices == {Catalogue[i].device : i \in DOMAIN Catalogue}
Storages == {CapacityOf[word] : word \in DOMAIN CapacityOf}
ProductOf(device) == CHOOSE i \in DOMAIN Catalogue : Catalogue[i].device = device

(* The colours of a device and, after them, its aliases. *)
ColorMarkers(device) ==
    Catalogue[ProductOf(device)].colors \o
        (IF device \in DOMAIN ModelAliases THEN ModelAliases[device] ELSE <<>>)

Colors == UNION {{ColorMarkers(d)[i].color : i \in DOMAIN ColorMarkers(d)} : d \in Devices}

(* Words next to one another: the code looks for " marker " in " text ". *)
Places(words, text) ==
    {i \in 0 .. Len(text) - Len(words) : \A q \in DOMAIN words : text[i + q] = words[q]}
Occurs(words, text) == Places(words, text) # {}

(* A bug: the markers in the order of the registry. *)
FirstMarker(markers, text) ==
    LET found == {i \in DOMAIN markers : Occurs(markers[i].words, text)}
    IN  {i \in found : \A j \in found : i <= j}

(* sorted(..., key=len, reverse=True) is stable: the longest marker that   *)
(* occurs, of those the first.                                             *)
Longest(markers, text) ==
    LET found == {i \in DOMAIN markers : Occurs(markers[i].words, text)}
    IN  {i \in found : \A j \in found : \/ markers[i].letters > markers[j].letters
                                        \/ markers[i].letters = markers[j].letters /\ i <= j}

(* The name with and without the brand in front of it, two markers each of *)
(* which gives the device.                                                 *)
IdentityAliases ==
    [k \in 1 .. 2 * Len(Catalogue) |->
        LET p == Catalogue[(k + 1) \div 2]
        IN  IF k % 2 = 1
            THEN [words |-> <<p.brand>> \o p.name, letters |-> p.brandLetters + 1 + p.letters, device |-> p.device]
            ELSE [words |-> p.name, letters |-> p.letters, device |-> p.device]]

(* What the longest marker is to decide: one within another has fewer      *)
(* letters, or they say the same.                                          *)
Apart(markers, field) == \A j, k \in DOMAIN markers :
    /\ markers[j].letters \in Nat
    /\ Len(markers[j].words) \in Nat /\ DOMAIN markers[j].words = 1 .. Len(markers[j].words)
    /\ Occurs(markers[j].words, markers[k].words) =>
        \/ markers[j].letters < markers[k].letters
        \/ markers[j][field] = markers[k][field]
ASSUME MarkersAssumption ==
    /\ Apart(IdentityAliases, "device")
    /\ \A d \in Devices : Apart(ColorMarkers(d), "color")

(* Wherever a marker stands in the text, it is part of one with this value. *)
SpeaksOf(text, markers, field, value) ==
    \A j \in DOMAIN markers : \A n \in Places(markers[j].words, text) :
        \E k \in DOMAIN markers : \E i \in Places(markers[k].words, text) :
            /\ markers[k][field] = value
            /\ i <= n /\ n + Len(markers[j].words) <= i + Len(markers[k].words)

CatalogIdentity(text) == {IdentityAliases[i].device : i \in Longest(IdentityAliases, text)}

(* The first word of the text that states a capacity. *)
FirstCapacity(text, words) ==
    {CapacityOf[text[i]] :
        i \in {j \in DOMAIN text : text[j] \in words /\ \A k \in 1 .. j - 1 : text[k] \notin words}}

StorageFromText(text) == FirstCapacity(text, DOMAIN CapacityOf)
GigabytesFromText(text) == FirstCapacity(text, DOMAIN CapacityOf \ Terabytes)

ColorFromText(text, device) ==
    {ColorMarkers(device)[i].color : i \in Longest(ColorMarkers(device), text)}

(* The variants a text stands for when the model is read in one text, the  *)
(* storage is known and the colour is read in another.                     *)
Attributes(devices, storages, colorText) ==
    {[device |-> d, storage |-> s, color |-> c] : d \in devices, s \in storages,
                                                   c \in UNION {ColorFromText(colorText, x) : x \in devices}}

CanonicalAttributes(title) ==
    Attributes(CatalogIdentity(title), StorageFromText(title), title)
=============================================================================
