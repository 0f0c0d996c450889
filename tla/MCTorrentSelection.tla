------------------------- MODULE MCTorrentSelection -------------------------
EXTENDS TorrentSelection

R(i, h) == [inst |-> i, hash |-> h]

\* One hash on two instances, and a torrent that shares the files of the first.
MCRows == {R(1, "a"), R(1, "b"), R(2, "a")}
MCOrders == {<<R(1, "a"), R(1, "b"), R(2, "a")>>, <<R(2, "a"), R(1, "a"), R(1, "b")>>}
MCColMatch == {R(1, "a"), R(2, "a")}
MCExprMatch == {R(1, "a"), R(1, "b")}
MCSameFiles == [r \in MCRows |->
  CASE r = R(1, "a") -> {R(1, "b")} [] r = R(1, "b") -> {R(1, "a")} [] OTHER -> {}]

\* The page opens on the first order; a change may bring the other.
MCInit == Init /\ order = <<R(1, "a"), R(1, "b"), R(2, "a")>>
MCSpec == MCInit /\ [][Next]_vars
=============================================================================
