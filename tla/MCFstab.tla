------------------------------ MODULE MCFstab -------------------------------
(* Fstab for TLC: a file system with a directory a in the root and another   *)
(* a in that one, and one mounted over /a that has an a of its own.          *)
EXTENDS Fstab

(* Children, by tree; ".." of the root is the root.                          *)
Step(t, f, c) ==
  IF c = ".." THEN CASE f = "/a/a" -> "/a" [] OTHER -> "/"
  ELSE CASE f = "/"  -> IF t = "mounted" THEN "fs" ELSE "/a"
         [] f = "/a" -> "/a/a"
         [] f = "fs" -> IF t = "mounted" THEN "/a/a" ELSE NoFile
         [] OTHER    -> NoFile

RECURSIVE Walk(_, _, _)
Walk(t, f, p) == IF p = <<>> \/ f = NoFile THEN f
                 ELSE Walk(t, IF p[1] = "/" THEN f ELSE Step(t, f, p[1]), Tail(p))

(* Two letters in a row are a name that no file has.                         *)
MCLookup(t, f, p) ==
  IF \E i \in 1..(Len(p) - 1) : p[i] # "/" /\ p[i + 1] # "/" THEN NoFile
  ELSE Walk(t, f, p)

MCArg == {<<"/">>, <<"a">>, <<"..">>, <<"/", "/", "a">>, <<"/", "a", "/">>, <<"a", "/", "..">>}

MCFstabPath == <<"a">>

(* All short texts; and one or two lines of an entry each, with one blank or *)
(* two, a fourth word, a comment, a blank at the end or in front, or only    *)
(* two words, and with or without a newline at the end of the last.          *)
Short == UNION {[1..n -> {"a", "/", " ", "#", "\n"}] : n \in 0..3}

Entry == {w \o g \o v \o g \o w \o t :
            w \in {<<"a">>, <<"/">>}, v \in {<<"a">>, <<"/">>, <<"/", "/">>},
            g \in {<<" ">>, <<" ", " ">>},
            t \in {<<>>, <<" ">>, <<" ", "a">>, <<"#", "a">>}}

Line == Entry \cup {<<>>, <<"a", " ", "a">>, <<" ", "a", " ", "a", " ", "a">>,
                    <<"a", " ", "a", " ", "#", "a">>}

MCText == Short \cup Line \cup {<<"a", " ", "a", " ", "a", "\n">> \o l : l \in Line}
       \cup {l \o <<"\n", "/", " ", "/", " ", "/", "\n">> : l \in Line}

MCPath == UNION {[1..n -> {"/", "a", ".."}] : n \in 0..5}
=============================================================================
