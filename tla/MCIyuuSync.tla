---------------------------- MODULE MCIyuuSync ----------------------------
(***************************************************************************)
(* A small instance of IyuuSync: three sites of which two share a domain   *)
(* and all a keyword, patterns of one host without a path, with the path   *)
(* "/" and as typed with "/?x", each of which one conversion makes the     *)
(* one before it, and catalogues that swap, drop and rename.               *)
(***************************************************************************)
EXTENDS IyuuSync, TLC

CONSTANTS s1, s2, s3, a, b, c, c1, c2, o1, o2, raw, x, y, z, org, net, cc, key,
          bare, slash, typed, i1

HostOfAll == o1 :> y @@ o2 :> z @@ raw :> y
\* The sites a and b are at x and y of one domain.
DomainOfAll == x :> org @@ y :> org @@ z :> net
KeywordOfAll == org :> key @@ net :> key

CoversAll == bare :> {o1} @@ slash :> {o1} @@ typed :> {}
OrderAll == bare :> 1 @@ slash :> 2 @@ typed :> 3
CanonAll == bare :> bare @@ slash :> bare @@ typed :> slash
CanonRowAll == o1 :> o1 @@ o2 :> o2 @@ raw :> o1
OneInstance == o1 :> i1 @@ o2 :> i1 @@ raw :> i1

AtX(name) == [slug |-> name, display |-> 1, base |-> x]
AtY(name) == [slug |-> name, display |-> 2, base |-> y]

\* Both sites, swapped, one of them alone, and one renamed under its id.
SomeSnapshots == {1 :> AtX(a) @@ 2 :> AtY(b), 1 :> AtY(b) @@ 2 :> AtX(a), 2 :> AtY(b), 1 :> AtX(c)}

Two(s, u) == {[pattern |-> bare, site |-> s], [pattern |-> slash, site |-> u]}

\* Nothing, and two rules that are one pattern after a conversion.
SomeLegacy == {{}} \cup {Two(s, u) : s, u \in SiteIds}

Symmetric == Permutations({c1, c2}) \cup Permutations(SiteIds)
=============================================================================
