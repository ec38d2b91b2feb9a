---------------------------------- MODULE MCDd --------------------------------
(* Small instances of Dd for TLC. *)
EXTENDS Dd

Op(name, value) == [name |-> name, value |-> value]
Sizes(i, o) == <<Op("ibs", i), Op("obs", o)>>
Conv(c) == <<Op("conv", c)>>
To == <<Op("of", "f")>>
MCU == 16

MCCommandLines == {
  Sizes(2, 3), Sizes(3, 2) \o To, Sizes(2, 0), Sizes(0, 2), Sizes(0, 0) \o To,
  <<Op("bs", 2), Op("skip", 1), Op("seek", 1)>> \o To,
  Sizes(3, 2) \o <<Op("conv", <<"NOERROR", "SYNC", "NOTRUNC">>), Op("seek", 1), Op("of", "f")>>,
  Sizes(2, 3) \o Conv(<<"SYNC", "OSYNC">>),
  Sizes(1, 2) \o Conv(<<"SPARSE">>), Sizes(1, 2) \o Conv(<<"SPARSE">>) \o To,
  Sizes(2, 3) \o <<Op("cbs", 2), Op("conv", <<"BLOCK">>)>>,
  Sizes(3, 2) \o <<Op("conv", <<"BLOCK", "SYNC", "NOERROR">>), Op("cbs", 3)>>,
  Sizes(2, 3) \o <<Op("cbs", 3), Op("conv", <<"UNBLOCK">>), Op("count", 2)>>,
  Sizes(3, 1) \o <<Op("cbs", 2), Op("conv", <<"UNBLOCK", "OSYNC">>)>>,
  Sizes(2, 3) \o <<Op("cbs", 0), Op("conv", <<"BLOCK">>)>>,
  Sizes(2, 3) \o <<Op("cbs", MCU), Op("conv", <<"BLOCK">>)>>,
  <<Op("bs", 2), Op("conv", <<"SYNC", "NOERROR">>)>>,
  <<Op("bs", 2), Op("conv", <<"SWAB">>), Op("progress", 1)>>,
  <<Op("bs", 2), Op("ibs", 1)>>, <<Op("count", 0)>>, <<Op("files", 2)>> }

MCByte == {"a", NL, Space, Zero, Junk}
MCInputs == {<<>>} \cup [1..3 -> {"a", NL, Space, Zero}] \cup [1..5 -> {"a", NL}]
            \cup {<<Zero, Zero, Zero, Zero, Zero>>,
                  <<"a", Space, Space, "a", Space>>}
MCOutputs == {<<>>, <<"a", "a", "a", "a", "a", "a", "a">>}

SparseLines == {Sizes(1, 3) \o Conv(<<"SPARSE">>) \o To}
BlockLines == {Sizes(2, 3) \o <<Op("cbs", 2), Op("conv", <<"BLOCK">>)>>}
ZeroLines == {Sizes(2, 0)}
===============================================================================
