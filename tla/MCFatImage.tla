----------------------------- MODULE MCFatImage -----------------------------
(* A small geometry whose images can be filled to the last cluster, names    *)
(* whose aliases collide, and manifests whose paths do.                      *)
EXTENDS FatImage

SmallSizes == 0..24

N(base, ext) == [legal |-> TRUE, base |-> base, ext |-> ext]

\* In the order of (casefold, name); 7 is illegal and 8 and 9 are reserved.
SmallCatalogue ==
    <<N(<<"A">>, <<>>), N(<<"a">>, <<>>),
      N(<<"A", "+">>, <<>>), N(<<"A", "A", "A", "A">>, <<>>), N(<<"A", "A", "B", "A">>, <<>>),
      N(<<"A", "~", "1">>, <<>>),
      [N(<<"B", "+">>, <<>>) EXCEPT !.legal = FALSE],
      N(<<"B", "B">>, <<>>), N(<<"B", "B">>, <<"a">>)>>

File(path, size) == [path |-> path, regular |-> TRUE, size |-> size]

\* Up to four files side by side.
NameManifests ==
    {[i \in DOMAIN names |-> File(<<names[i]>>, 1)] :
        names \in {SetToSortSeq(S, <) : S \in {S \in SUBSET ((1..9) \ {2, 7}) : Cardinality(S) <= 4}}}

\* Paths below, beside and through each other, in every order.
PathEntries == {File(<<1>>, 1), File(<<1, 4>>, 1), File(<<2, 5>>, 1), File(<<2, 5, 1>>, 1),
                File(<<8, 7>>, 1), [File(<<8>>, 1) EXCEPT !.regular = FALSE]}
PathManifests == {<<d, e>> : d, e \in PathEntries} \cup
                 {<<d, e, f>> : d, e, f \in PathEntries}

\* Files that fill the image, or just do not.
SizeManifests == {<<File(<<3, 1>>, size), File(<<4>>, more)>> : size \in {0, 1, 4, 5}, more \in 0..40}

Job(sectors, files) == [sectors |-> sectors, files |-> files]
SmallJobs == {Job(n, m) : n \in SmallSizes, m \in SizeManifests} \cup
             {Job(24, m) : m \in NameManifests \cup PathManifests}
=============================================================================
