--------------------------- MODULE MCDeviceMapper ---------------------------
(* DeviceMapper on a tree three names deep with two branches.              *)
EXTENDS DeviceMapper

A == <<"a">>
AB == <<"a", "b">>
ABC == <<"a", "b", "c">>
AD == <<"a", "d">>
ADE == <<"a", "d", "e">>

MCNames == {"a", "b", "c", "d", "e"}
MCPaths == {<<>>, A, AB, ABC, AD, ADE}
MCMountPaths == {A, AB, ADE}
=============================================================================
