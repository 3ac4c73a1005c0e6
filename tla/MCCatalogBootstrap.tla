------------------------- MODULE MCCatalogBootstrap -------------------------
(***************************************************************************)
(* Three calls with manifests about two ISINs, over times 0..3: listings,  *)
(* two renames and the way back, the old symbol listed again, a change of  *)
(* specification, a listing dated back that the database refuses, and ones *)
(* whose references or attributes disagree.                                *)
(***************************************************************************)
EXTENDS CatalogBootstrap, TLC

CONSTANTS c1, c2, c3, r1, r2, r3

Def(isin, symbol, from, specFrom, spec) ==
    [isin |-> isin, symbol |-> symbol, from |-> from, attributes |-> "stock",
     previous |-> None, rename |-> None, specFrom |-> specFrom, spec |-> spec]

Renaming(d, previous, time) == [d EXCEPT !.previous = previous, !.rename = time]

\* References in lock order: a currency, the provider, a venue.
Usual == <<"rial", "brsapi", "tse">>
Of(items) == [refs |-> Usual, items |-> items]

X == Def("X", "a", 1, 1, "u")
Y == Def("Y", "b", 1, 1, "u")

Listing == Of(<<X>>)
RenameToB == Of(<<Renaming([X EXCEPT !.symbol = "b", !.specFrom = 2, !.spec = "v"], "a", 2)>>)
RenameToC == Of(<<Renaming([X EXCEPT !.symbol = "c", !.specFrom = 3], "a", 3)>>)
RenameBack == Of(<<Renaming([X EXCEPT !.from = 2, !.specFrom = 2, !.spec = "v"], "b", 3)>>)
Relisting == Of(<<[Y EXCEPT !.symbol = "a", !.from = 3]>>)
ListingC == Of(<<[Y EXCEPT !.symbol = "c", !.from = 2]>>)
TwoInstruments == Of(<<X, Y>>)
Earlier == Of(<<[X EXCEPT !.symbol = "c", !.from = 0]>>)
OtherAttributes == Of(<<[X EXCEPT !.attributes = "fund"]>>)
OtherVenue == [Listing EXCEPT !.refs = <<"rial", "brsapi", "ifb">>]
OtherProvider == [Listing EXCEPT !.refs = <<"rial", "other", "tse">>]

Doc(request, manifest) == [request |-> request, manifest |-> manifest, verdict |-> "ok"]

\* A first bootstrap, a second one, and one that follows, repeats or fails.
MixedDocuments ==
    c1 :> {Doc(r1, m) : m \in {Listing, TwoInstruments, OtherVenue, OtherProvider}} @@
    c2 :> {Doc(r2, m) : m \in {RenameToB, ListingC, Relisting, Earlier, TwoInstruments}} @@
    c3 :> {Doc(r3, m) : m \in {RenameBack, RenameToB, RenameToC, OtherAttributes}} \cup
          {Doc(r1, Listing), [Doc(r3, Listing) EXCEPT !.verdict = "mismatch"],
           [Doc(r3, Listing) EXCEPT !.verdict = "noclient"]}

AllManifests ==
    {Listing, RenameToB, RenameToC, RenameBack, Relisting, ListingC, TwoInstruments,
     Earlier, OtherAttributes, OtherVenue, OtherProvider}

OneFaulty == c1 :> 0 @@ c2 :> 1 @@ c3 :> 0
=============================================================================
