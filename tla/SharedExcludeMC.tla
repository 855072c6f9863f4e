-------------------------- MODULE SharedExcludeMC --------------------------
(***************************************************************************)
(* Two projects, two versions of their patterns.  At first the file does   *)
(* not exist, or holds the block of one project and a last line without a  *)
(* newline, before which the block of the other must go.                   *)
(***************************************************************************)
EXTENDS SharedExclude

CONSTANTS p1, p2, patterns1, patterns2

MCProjects == {p1, p2}
MCContents == {patterns1, patterns2}
MCFirstFiles == {NoFile, <<BlockOf(p1, patterns1), LineOf(OwnLine, FALSE)>>}
=============================================================================
