---------------------------- MODULE MCOrphanFiles ----------------------------
(***************************************************************************)
(* A small file system for OrphanFiles:                                    *)
(*    a/w   a/d/z   a/d/BDMV/y   b/d/z                                     *)
(* The torrent "moved" (folder d with file z) has been given the save path *)
(* a without its payload leaving b; "single" is the one file a/w; "other"  *)
(* belongs to a second instance and has its payload in the disc folder a/d *)
(* beside the file of "moved".                                             *)
(***************************************************************************)
EXTENDS OrphanFiles

MCUp == [p \in Paths |->
  CASE p = "a/w" -> {"a/w", "a"}
    [] p = "a/d" -> {"a/d", "a"}
    [] p = "a/d/z" -> {"a/d/z", "a/d", "a"}
    [] p = "a/d/BDMV" -> {"a/d/BDMV", "a/d", "a"}
    [] p = "a/d/BDMV/y" -> {"a/d/BDMV/y", "a/d/BDMV", "a/d", "a"}
    [] p = "b/d" -> {"b/d", "b"}
    [] p = "b/d/z" -> {"b/d/z", "b/d", "b"}
    [] OTHER -> {p}]

MCAbove == [p \in Paths |->
  CASE p \in {"a/w", "a/d"} -> "a"
    [] p \in {"a/d/z", "a/d/BDMV"} -> "a/d"
    [] p = "a/d/BDMV/y" -> "a/d/BDMV"
    [] p = "b/d" -> "b"
    [] p = "b/d/z" -> "b/d"
    [] OTHER -> p]

Of(moved, single, other) == [t \in Torrents |->
  CASE t = "moved" -> moved [] t = "single" -> single [] OTHER -> other]

MCOwner == Of("me", "me", "they")
MCSave == Of("a", "a", "a/d")
MCPayload == Of("b", "a", "a/d")
MCContent == Of("b/d", "a/w", "a/d/BDMV/y")
MCClaims == Of({"a/d/z", "b/d/z"}, {"a/w"}, {"a/d/BDMV/y"})
=============================================================================
