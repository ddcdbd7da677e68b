-------------------------- MODULE MCSettingsLoad --------------------------
(* Small instances of SettingsLoad: files of up to two servers.           *)
EXTENDS SettingsLoad

CONSTANTS country, city, null, us, xx, url1, url2, mistyped, empty

R(v) == [is |-> "right", of |-> v]

MCPath == {country, city, empty}
MCText == {null, us, xx, empty}
MCUrls == {url1, url2, mistyped, empty}

Filtering(path, only, none) == R([path |-> path, allow_only |-> only, allow_none |-> none])
Asking(url, name, filters)  == R([url |-> url, username |-> name, password |-> Absent,
                                  filters |-> filters])

Onlys   == {Absent, Wrong, R(<<R(us)>>), R(<<Wrong, R(us)>>), R(<<R(us), R(xx)>>)}
Nones   == {Absent, Wrong, R(<<Wrong>>), R(<<R(xx)>>)}
OneOf   == {Filtering(R(country), only, none) : only \in Onlys, none \in Nones}
OnlyUs  == Filtering(R(country), R(<<R(us)>>), Absent)
NotXx   == Filtering(R(city), Absent, R(<<R(xx)>>))
Entries == {Wrong, Asking(Absent, R("text"), R(<<OnlyUs>>)), Asking(R(url1), Wrong, R(<<OnlyUs>>)),
            Asking(R(url1), Absent, Absent), Asking(R(url1), Absent, Wrong),
            Asking(R(mistyped), R("text"), R(<<OnlyUs>>)),
            Asking(R(url1), R("text"), R(<<NotXx, Wrong, OnlyUs>>)),
            Asking(R(url2), R("text"), R(<<OnlyUs, Filtering(Wrong, Absent, Absent), NotXx>>))}
           \cup {Asking(R(url2), R("text"), R(<<f, NotXx>>)) : f \in OneOf}
Few     == {Wrong, Asking(R(url1), R("text"), R(<<NotXx>>)),
            Asking(R(url1), Wrong, R(<<OnlyUs>>)), Asking(R(mistyped), Absent, R(<<NotXx>>))}

MCFiles == {Unreadable, Absent, Wrong, R(<<>>)} \cup {R(<<e>>) : e \in Entries}
           \cup {R(<<d, e>>) : d \in Few, e \in Few}
===========================================================================
