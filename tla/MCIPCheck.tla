----------------------------- MODULE MCIPCheck ------------------------------
(* Small instances of IPCheck.                                             *)
EXTENDS IPCheck

CONSTANTS country, null, us, xx, plain, bracketed

MCPath == {country}
MCText == {null, us, xx}

AllDocs == [MCPath -> MCText]
OnlyXx  == [MCPath -> {xx}]

OnlyUs   == [Path |-> country, AllowOnly |-> {us}, AllowNone |-> {}]
NotXx    == [Path |-> country, AllowOnly |-> {}, AllowNone |-> {xx}]
TwoSided == [Path |-> country, AllowOnly |-> {us, xx}, AllowNone |-> {xx}]

Good(filters)     == [WebClient |-> TRUE, rejects |-> {}, Filters |-> filters]
Picky(filters)    == [WebClient |-> TRUE, rejects |-> {bracketed}, Filters |-> filters]
Unclient(filters) == [WebClient |-> FALSE, rejects |-> {}, Filters |-> filters]

Loaded(servers) == [HasLoaded |-> TRUE, Servers |-> servers]
Unloaded        == [HasLoaded |-> FALSE, Servers |-> <<>>]

Races ==
  {Loaded(<<Good(<<TwoSided>>), Good(<<OnlyUs, NotXx>>), Good(<<NotXx>>)>>),
   Loaded(<<Good(<<NotXx>>), Unclient(<<>>)>>), Loaded(<<Good(<<>>)>>), Unloaded}
OneServer  == {Loaded(<<Good(<<OnlyUs, TwoSided>>)>>), Loaded(<<Good(<<>>)>>), Unloaded}
SmallPair  == {Loaded(<<Good(<<OnlyUs>>), Good(<<NotXx>>)>>)}
FewServers == {Loaded(<<Good(<<OnlyUs, NotXx>>)>>), Loaded(<<Good(<<NotXx>>), Picky(<<>>)>>)}
=============================================================================
