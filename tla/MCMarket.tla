------------------------------ MODULE MCMarket ------------------------------
(* Market for TLC: a phone of two storages in two colours, three retailers. *)
EXTENDS Market

(* A variant without a colour is in no figure of the product. *)
MCStorageOf == [black128 |-> 128, white128 |-> 128, black256 |-> 256, white256 |-> 256, plain |-> 256]
MCColorOf == [black128 |-> "black", white128 |-> "white", black256 |-> "black", white256 |-> "white",
              plain |-> ""]
MCVariants == DOMAIN MCStorageOf

MCRetailerOf == [magalu |-> "magalu", magazine |-> "magalu", kabum |-> "kabum", iplace |-> "iplace"]

MCListing(i, v, source, seller) == [offer |-> i, variant |-> v, source |-> source, seller |-> seller]

(* One retailer sells black128 directly and through an aggregator, under   *)
(* another name; the other variants have one offer each.                   *)
MCListings == {
    MCListing(1, "black128", "zoom", "magazine"),
    MCListing(2, "black128", "magalu.com", "magalu"),
    MCListing(3, "black128", "kabum.com", "kabum"),
    MCListing(4, "black128", "iplace.com", "iplace"),
    MCListing(5, "white128", "kabum.com", "kabum"),
    MCListing(6, "black256", "iplace.com", "iplace"),
    MCListing(7, "white256", "zoom", "magazine")}

(* Two prices whose sum is odd, and a price that depends on a condition. *)
MCQuotes == {[price |-> 100, terms |-> "base"], [price |-> 151, terms |-> "base"],
             [price |-> 100, terms |-> "conditional"]}
=============================================================================
