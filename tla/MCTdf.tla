------------------------------ MODULE MCTdf ------------------------------
(* Inputs of Tdf: every type, and the lengths and magnitudes at which the encoding grows. *)
EXTENDS Tdf

\* "B", and "gsTATE", which is upper-cased and cut to four characters.
TwoTags == {<<66>>, <<103, 115, 84, 65, 84, 69>>}

AnInt(n) == <<"int", n>>
Flat == (<<66>> :> AnInt(-1))

SomeValues ==
  {AnInt(n) : n \in {-(2^(Width - 1)), 2^(Width - 1) - 1, -64, 63, 0}}
  \cup {<<"bool", TRUE>>, <<"str", <<>>>>, <<"str", <<65, 0>>>>,
        <<"blob", [i \in 1 .. 64 |-> 0]>>, <<"float", <<64, 72, 245, 195>>>>,
        <<"otype", 4, 1>>, <<"oid", 4, 1, -8192>>,
        <<"union", 127, <<>>, Nil>>, <<"union", 2, <<66>>, <<"struct", Flat>>>>,
        <<"var", 5, <<66>>, <<"struct", Flat>>>>, <<"var", 5, <<66>>, Nil>>,
        <<"tlist", 3, <<>>>>,
        <<"tlist", 3, <<<<"armed", 2, Flat>>, <<"armed", 3, Nothing>>>>>>}

SomeLists ==
  {<<0, <<>>>>, <<0, <<<<"bool", TRUE>>, AnInt(0)>>>>,
   <<3, <<<<"struct", Nothing>>, <<"struct", Flat>>>>>>,
   <<4, <<<<"list", <<AnInt(1)>>>>, <<"list", <<AnInt(2), AnInt(3)>>>>>>>>}

SomeMaps ==
  {<<1, 1, <<>>>>,
   <<1, 0, <<<<<<"str", <<65>>>>, AnInt(1)>>, <<<<"str", <<65>>>>, <<"bool", FALSE>>>>,
             <<<<"str", <<65, 66>>>>, AnInt(64)>>>>>>,
   <<0, 3, <<<<AnInt(9), <<"struct", Flat>>>>, <<AnInt(10), <<"struct", Nothing>>>>>>>>}

\* No error, errors below and above the 32 bits of a code, and none of them left there.
SomeMetadatas ==
  {Nothing, (<<67, 78, 84, 88>> :> AnInt(7)) @@ (ERRC :> AnInt(-1)), (ERRC :> <<"str", <<65>>>>)}
  \cup {ERRC :> AnInt(n) : n \in {0, 2^(Width \div 2), 2^(Width \div 2) + 1}}
===========================================================================
