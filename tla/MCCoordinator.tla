---------------------------- MODULE MCCoordinator ----------------------------
(***************************************************************************)
(* Commands for the instances of Coordinator that TLC checks.              *)
(***************************************************************************)
EXTENDS CoordinatorInvariant

SetA == <<"SET", "k", "a">>
SetB == <<"SET", "k", "b">>
Get  == <<"GET", "k">>
Del  == <<"DEL", "k", "k">>
BadSet == <<"SET", "k">>
Ping == <<"PING">>

Updates == {SetA}
TwoUpdates == {SetA, SetB}
UpdateAndGet == {SetA, Get}
MixedCommands == {SetA, Del, Get, BadSet}
OtherCommands == {SetA, Ping, <<>>}
=============================================================================
