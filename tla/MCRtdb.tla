------------------------------ MODULE MCRtdb ------------------------------
EXTENDS Rtdb

CONSTANTS d1

MCKeys == {<<"a">>, <<"b">>, <<"a", "b">>}
MCValues == {EmptyDict}
MCAppWrites == {Put(<<"a", "b">>, Leaf("y")), Patch(<<>>, Dict("b" :> EmptyList)), Delete(<<"a">>),
                Push(<<"b">>, "k", Leaf("y")), Put(<<>>, Leaf("y"))}
=============================================================================
