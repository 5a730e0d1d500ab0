-------------------------------- MODULE MCPages --------------------------------
(* Small libraries for TLC.  Accession numbers and ids of copies overlap,  *)
(* and a search of two pages shares a record with another search.          *)
EXTENDS Pages, TLC

MCCopyOf    == <<"c1", "c1">>
MCAccession == "c1" :> "12" @@ "c2" :> "5"
MCHoldingId == "c1" :> "5"  @@ "c2" :> "12"
MCHits      == "12" :> {"c1", "c2"} @@ "5" :> {"c1"}

MCPageOf    == "r1" :> 1 @@ "r2" :> 2

MCDirectory == "z1" :> {"street", "city"} @@ "z2" :> {"city"}

MCListing   == "q" :> << <<"a", "b">>, <<"c">>, <<"d", "a">> >> @@ "p" :> << <<"b">> >>
MCCreated   == <<"x", "y">>
=============================================================================
