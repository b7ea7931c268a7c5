--------------------------- MODULE MCLibraryDetector ---------------------------
(***************************************************************************)
(* Two libraries with the same header, one of another and one of the       *)
(* profile.  The sketch includes some of them; the source of the first may *)
(* need the third, or a header that no library has; the third may need the *)
(* profile's.                                                              *)
(***************************************************************************)
EXTENDS LibraryDetector

CONSTANTS a, a2, b, p, sketch, ha, hb, hp, nolib

Lib(arch, name, dir, location) == [arch |-> arch, name |-> name, dir |-> dir, location |-> location]

Headered == [l \in {a, a2, b, p} |-> CASE l \in {a, a2} -> ha [] l = b -> hb [] l = p -> hp]

\* The name goes before the architecture and the place.
Seen == [l \in {a, a2, b, p} |->
           CASE l = a  -> Lib("independent", "exact", "main", "builtin")
             [] l = a2 -> Lib("optimized", "main", "main", "user")
             [] OTHER  -> Lib("independent", "exact", "exact", "user")]

SomeContents == [f \in {a, a2, b, p, sketch} |->
                   CASE f = sketch -> {<<ha>>, <<hp, hb>>}
                     [] f = a      -> {<<hb>>, <<nolib>>}
                     [] f = b      -> {<<>>, <<hp>>}
                     [] OTHER      -> {<<>>}]
=============================================================================
